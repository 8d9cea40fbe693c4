----------------------------- MODULE SystemFiles -----------------------------
(***************************************************************************)
(* The BFS file table of Bolun Phone 1.0 and the recovery plan that is      *)
(* written to it (bolun_system.c).  A path is a text that may be too long   *)
(* for its buffer; the checksum of a file stands for the contents it is     *)
(* computed from.  Sizes are payload, and the directory bit is a function   *)
(* of the path.                                                             *)
(***************************************************************************)
EXTENDS SystemProcess, BolunText

CONSTANTS MaxFiles,        \* BOLUN10_MAX_FILES
          PathHeads, PathRests,
          Relative,        \* the heads that do not start with '/'
          PlanHead,        \* "/recovery/plan.bfs"
          Contents         \* the contents of files and the reasons for recovery

ASSUME SystemFilesAssumption ==
  /\ MaxFiles \in Nat \ {0}
  /\ Relative \subseteq PathHeads
  /\ PlanHead \in PathHeads \ Relative

VARIABLE files             \* system->files[0 .. file_count-1]

Path == Text(PathHeads, PathRests \cup {0})

\* What the checksum is computed from: the contents, or the path if there are none.
Checksummed == [of : {"contents"}, text : Contents] \cup [of : {"path"}, text : Path]

File == [path : {Kept(path) : path \in Path}, owner_pid : Pids, checksum : Checksummed]

FilesTypeOK ==
  /\ files \in Seq(File) /\ Len(files) <= MaxFiles
  /\ \A f \in DOMAIN files : Known(files[f].owner_pid)

FilesInit == files = <<>>

-----------------------------------------------------------------------------
\* (mutant) the capacity is not checked
CreatableUnbounded(path, pid) == path.head \notin Relative /\ Known(pid)

Creatable(path, pid) ==
  path.head \notin Relative /\ Known(pid) /\ Len(files) < MaxFiles

\* bolun10_bfs_create: a path that exists is not looked for.
BfsCreate(path, pid, checksum) ==
  /\ UNCHANGED <<processVars, memory, log_count>>
  /\ \/ /\ Creatable(path, pid)
        /\ files' = Append(files, [path |-> Kept(path), owner_pid |-> pid,
                                   checksum |-> checksum])
        /\ Return(0)
     \/ /\ ~Creatable(path, pid)
        /\ Return(-1)
        /\ UNCHANGED files

\* bolun10_recovery_plan: pid 0, that of nobody, while there is no process.
RecoveryPlan(reason) ==
  BfsCreate([head |-> PlanHead, rest |-> 0],
            IF processes = <<>> THEN 0 ELSE 1,
            [of |-> "contents", text |-> reason])

\* The files a path is compared equal to: the stored path may have been cut off.
FilesAt(path) == {f \in DOMAIN files : files[f].path = path}

\* (mutant) the newest file of a path is read
FoundLast(path) == files[Max(FilesAt(path))]

Found(path) == files[Min(FilesAt(path))]

\* bolun10_bfs_read
BfsRead(path) ==
  /\ Return(IF FilesAt(path) = {} THEN -1 ELSE 0)
  /\ UNCHANGED <<processVars, memory, log_count, files>>
=============================================================================
