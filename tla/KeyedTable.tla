----------------------------- MODULE KeyedTable -----------------------------
(***************************************************************************)
(* What a table of records with identifiers promises: one entry for each    *)
(* key, which a put adds or replaces and nothing takes away.  A full table  *)
(* accepts no put, not even one that would replace an entry, since it is    *)
(* checked for room before it is searched; an entry may still be amended.   *)
(***************************************************************************)
EXTENDS Integers, FiniteSets

CONSTANTS Keys, Capacity

VARIABLES entries,   \* a function from the keys that are present
          size       \* how many records the table holds

tableVars == <<entries, size>>

TInit == DOMAIN entries = {} /\ size = 0

OthersKept(key) ==
  \A other \in DOMAIN entries \ {key} : entries'[other] = entries[other]

Put(key) ==
  /\ size < Capacity
  /\ DOMAIN entries' = DOMAIN entries \cup {key}
  /\ OthersKept(key)
  /\ size' = Cardinality(DOMAIN entries')

Amend(key) ==
  /\ key \in DOMAIN entries
  /\ DOMAIN entries' = DOMAIN entries
  /\ OthersKept(key)
  /\ UNCHANGED size

TSpec == TInit /\ [][\E key \in Keys : Put(key)]_tableVars

TAmendSpec == TInit /\ [][\E key \in Keys : Put(key) \/ Amend(key)]_tableVars
=============================================================================
