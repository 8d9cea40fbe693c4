---------------------------- MODULE TimerHistory ----------------------------
(***************************************************************************)
(* The runtime watched by three history variables that no call reads:       *)
(*   age[t]   the time that passed since the message of timer t was queued  *)
(*            last, or since the timer was created (not counted beyond one  *)
(*            interval)                                                     *)
(*   early    the timers that once were announced before their interval had *)
(*            passed                                                        *)
(*   lost     how many messages were queued at the end of each tick that    *)
(*            lost the expiry of a timer whose owner is live                *)
(***************************************************************************)
EXTENDS RuntimeProperties

VARIABLES age, early, lost

historyVars == <<age, early, lost>>

TimerSlots == 1..MaxTimers

TimedInit ==
  /\ Init
  /\ age = [t \in TimerSlots |-> 0]
  /\ early = {}
  /\ lost = {}

\* A tick of that length ends the wait of timer t, and somebody is there to be
\* told.  What the tick does to the timer does not count: a repeating timer that
\* was due from its whole interval looks the same before and after.
Expires(t, elapsed) ==
  /\ timers[t].active
  /\ Live(timers[t].owner_pid)
  /\ elapsed >= timers[t].remaining_ms

\* The step queues a message of timer t for its owner.
Posted(t) ==
  \E m \in DOMAIN ipc_messages' :
    /\ ipc_messages'[m].timer_id = timers[t].timer_id
    /\ ipc_messages'[m].to_pid = timers[t].owner_pid
    /\ ipc_messages'[m].sequence >= next_ipc_sequence

\* The age of a timer of the table once `elapsed' has passed.
Aged(t, elapsed) ==
  IF age[t] + elapsed < timers[t].interval_ms THEN age[t] + elapsed
                                              ELSE timers[t].interval_ms

RecordTime(elapsed) ==
  /\ age' = [t \in TimerSlots |->
               IF t \notin DOMAIN timers \/ Posted(t) THEN 0 ELSE Aged(t, elapsed)]
  /\ early' = early \cup
       {t \in DOMAIN timers : Posted(t) /\ age[t] + elapsed < timers[t].interval_ms}
  /\ lost' = IF \E t \in DOMAIN timers : Expires(t, elapsed) /\ ~Posted(t)
               THEN lost \cup {Len(ipc_messages')} ELSE lost

TimedNext ==
  \/ /\ ClientCalls
     /\ UNCHANGED historyVars
  \/ /\ "tick" \in Calls
     /\ \E elapsed \in Elapsed : Tick(elapsed) /\ RecordTime(elapsed)
     /\ UNCHANGED memoryVars

TimedSpec == TimedInit /\ [][TimedNext]_<<vars, historyVars>>

(***************************************************************************)
(* A timer is never announced early: its first message is queued one        *)
(* interval or more after its creation, and two messages of a repeating     *)
(* timer are queued one interval or more apart, however coarse or uneven    *)
(* the ticks are and whatever became of the expiries in between.            *)
(***************************************************************************)
NeverEarly == early = {}

(***************************************************************************)
(* bolun_runtime_tick drops the expiry of a live owner's timer only when    *)
(* the queue is full: a tick in which such a timer was due, one-shot or     *)
(* repeating and however long it still had to wait, either queued a message *)
(* for each of them or left no room in the queue.                           *)
(***************************************************************************)
LostOnlyWhenFull == lost \subseteq {MaxIpcMessages}

(***************************************************************************)
(* "fires timers" (README.md), and the test that asserts the owner of a due *)
(* timer receives "timer:<id>": a timer of a live process that expires is   *)
(* always announced to it.                                                  *)
(***************************************************************************)
ExpiryDelivered == lost = {}
=============================================================================
