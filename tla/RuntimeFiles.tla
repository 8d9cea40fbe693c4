---------------------------- MODULE RuntimeFiles ----------------------------
(***************************************************************************)
(* The file records of the runtime (src/kernel/c/bolun_runtime.c).  Records *)
(* are never removed: the trash is a flag.  Paths and hashes are copied     *)
(* into fixed buffers, but are looked up and compared at their full length. *)
(* The size of a file is payload.                                           *)
(***************************************************************************)
EXTENDS Sequences, FiniteSetsExt, BolunResult, BolunText

CONSTANTS MaxFiles,    \* BOLUN_MAX_FILES
          PathHeads,   \* the first 255 characters of the paths in use
          HashHeads,   \* the first 95 characters of the hashes in use
          Rests        \* what may follow them, 0 for nothing

ASSUME FilesAssumption ==
  /\ MaxFiles \in Nat \ {0}
  /\ Rests \subseteq Nat
  /\ 0 \in Rests
  /\ "" \notin PathHeads \cup HashHeads   \* refused by every call, as a NULL is

VARIABLE files   \* runtime->files[0 .. file_count-1]

Path == Text(PathHeads, Rests)
Hash == Text(HashHeads, Rests)

FileRecord ==
  [path : Path, content_hash : Hash, archived : BOOLEAN, deleted : BOOLEAN]

FilesTypeOK == files \in Seq(FileRecord) /\ Len(files) <= MaxFiles

FilesInit == files = <<>>

-----------------------------------------------------------------------------
\* The records strcmp finds equal to a path.
RecordsOf(path) == {f \in DOMAIN files : files[f].path = path}

VisibleRecordsOf(path) == {f \in RecordsOf(path) : ~files[f].deleted}

\* (mutant) a record that comes back from the trash keeps its old content
RewrittenOnlyVisible(record, hash) ==
  IF record.deleted THEN [record EXCEPT !.deleted = FALSE]
                    ELSE [record EXCEPT !.content_hash = Kept(hash)]

Rewritten(record, hash) == [record EXCEPT !.content_hash = Kept(hash), !.deleted = FALSE]

NewFile(path, hash) ==
  [path |-> Kept(path), content_hash |-> Kept(hash), archived |-> FALSE, deleted |-> FALSE]

\* bolun_runtime_add_file.  A known path keeps its archived flag.
AddFile(path, hash) ==
  \/ /\ RecordsOf(path) # {}
     /\ files' = [files EXCEPT ![Min(RecordsOf(path))] = Rewritten(@, hash)]
     /\ Succeed
  \/ /\ RecordsOf(path) = {}
     /\ Len(files) >= MaxFiles
     /\ FailWith("FULL")
     /\ UNCHANGED files
  \/ /\ RecordsOf(path) = {}
     /\ Len(files) < MaxFiles
     /\ files' = Append(files, NewFile(path, hash))
     /\ Succeed

\* bolun_runtime_move_file_to_trash, which also finds what is in the trash
TrashFile(path) ==
  \/ /\ RecordsOf(path) # {}
     /\ files' = [files EXCEPT ![Min(RecordsOf(path))].deleted = TRUE]
     /\ Succeed
  \/ /\ RecordsOf(path) = {}
     /\ FailWith("NOT_FOUND")
     /\ UNCHANGED files

\* bolun_runtime_archive_file
ArchiveFile(path) ==
  \/ /\ VisibleRecordsOf(path) # {}
     /\ files' = [files EXCEPT ![Min(VisibleRecordsOf(path))].archived = TRUE]
     /\ Succeed
  \/ /\ VisibleRecordsOf(path) = {}
     /\ FailWith("NOT_FOUND")
     /\ UNCHANGED files

\* The answer of bolun_runtime_check_file_integrity.
IntegrityOf(path, expected_hash) ==
  IF VisibleRecordsOf(path) = {} THEN "NOT_FOUND"
  ELSE IF files[Min(VisibleRecordsOf(path))].content_hash = expected_hash THEN "OK"
  ELSE "INTERNAL"

CheckFileIntegrity(path, expected_hash) ==
  /\ result' = IntegrityOf(path, expected_hash)
  /\ UNCHANGED files
=============================================================================
