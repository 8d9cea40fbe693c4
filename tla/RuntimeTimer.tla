---------------------------- MODULE RuntimeTimer ----------------------------
(***************************************************************************)
(* The timers of the runtime (src/kernel/c/bolun_runtime.c).  A slot of the *)
(* timer table is never reused, and stopping a process does not touch its   *)
(* timers: they run on and post to a process that no longer exists.         *)
(***************************************************************************)
EXTENDS RuntimeIpc

CONSTANTS Intervals,   \* the intervals the clients ask for, 0 included
          Elapsed      \* the arguments of bolun_runtime_tick

ASSUME TimerAssumption == Intervals \subseteq Nat /\ Elapsed \subseteq Nat

VARIABLES timers,          \* runtime->timers[0 .. timer_count-1]
          next_timer_id

timerVars == <<timers, next_timer_id>>

Timer ==
  [ timer_id : TimerIds, owner_pid : Pids, interval_ms : Intervals,
    remaining_ms : Nat, repeating : BOOLEAN, active : BOOLEAN ]

TimerTypeOK ==
  /\ timers \in Seq(Timer)
  /\ Len(timers) <= MaxTimers
  /\ next_timer_id \in 1..MaxTimers + 1

TimerInit ==
  /\ timers = <<>>
  /\ next_timer_id = 1

-----------------------------------------------------------------------------
NewTimer(owner_pid, interval, repeating) ==
  [ timer_id |-> next_timer_id, owner_pid |-> owner_pid, interval_ms |-> interval,
    remaining_ms |-> interval, repeating |-> repeating, active |-> TRUE ]

\* bolun_runtime_create_timer
CreateTimer(owner_pid, interval, repeating) ==
  /\ UNCHANGED <<processVars, logVars, ipcVars>>
  /\ \/ /\ interval = 0
        /\ FailWith("INVALID_ARGUMENT")
        /\ UNCHANGED timerVars
     \/ /\ interval # 0
        /\ ~Live(owner_pid)
        /\ FailWith("NOT_FOUND")
        /\ UNCHANGED timerVars
     \/ /\ interval # 0
        /\ Live(owner_pid)
        /\ Len(timers) >= MaxTimers
        /\ FailWith("FULL")
        /\ UNCHANGED timerVars
     \/ /\ interval # 0
        /\ Live(owner_pid)
        /\ Len(timers) < MaxTimers
        /\ timers' = Append(timers, NewTimer(owner_pid, interval, repeating))
        /\ next_timer_id' = next_timer_id + 1
        /\ Succeed

-----------------------------------------------------------------------------
(***************************************************************************)
(* bolun_runtime_tick walks the table once.  Every timer that is due calls  *)
(* bolun_runtime_ipc_send and ignores what it returns, so the messages of   *)
(* the first due timers whose owner is live are queued, in table order,     *)
(* until the queue is full, and the other expiries are lost.                *)
(***************************************************************************)
Due(elapsed) == {i \in DOMAIN timers : timers[i].active /\ elapsed >= timers[i].remaining_ms}

\* (mutant) a repeating timer is announced only if an earlier tick counted it down
DeliverableCountedDown(elapsed) ==
  {i \in Due(elapsed) : /\ Live(timers[i].owner_pid)
                        /\ timers[i].repeating => timers[i].remaining_ms < timers[i].interval_ms}

Deliverable(elapsed) == {i \in Due(elapsed) : Live(timers[i].owner_pid)}

\* (mutant) the walk ends at the first expiry
PostCountOne(elapsed) ==
  IF Deliverable(elapsed) = {} \/ IpcRoom = 0 THEN 0 ELSE 1

\* (mutant) the room of the queue is not checked
PostCountUnbounded(elapsed) == Cardinality(Deliverable(elapsed))

\* How many of them the queue still takes.
PostCount(elapsed) ==
  IF Cardinality(Deliverable(elapsed)) <= IpcRoom
    THEN Cardinality(Deliverable(elapsed)) ELSE IpcRoom

\* post[k] is the slot of the k-th timer whose message is queued.
InTableOrder(post, slots) ==
  /\ \A j, k \in DOMAIN post : j < k => post[j] < post[k]
  /\ \A k \in DOMAIN post, i \in slots : i < post[k] => i \in Range(post)

Posts(elapsed) ==
  {post \in [1..PostCount(elapsed) -> Deliverable(elapsed)] :
     InTableOrder(post, Deliverable(elapsed))}

ExpiryMessage(timer, sequence) ==
  [ from_pid |-> KernelPid, to_pid |-> timer.owner_pid, timer_id |-> timer.timer_id,
    sequence |-> sequence ]

\* (mutant) a repeating timer is not given its interval back
ExpiredUnreset(timer) == IF timer.repeating THEN timer ELSE [timer EXCEPT !.active = FALSE]

\* (mutant) a one-shot timer starts again
ExpiredRearmed(timer) == [timer EXCEPT !.remaining_ms = timer.interval_ms]

\* A due timer starts again or goes off for good, whatever became of its message.
Expired(timer) ==
  IF timer.repeating THEN [timer EXCEPT !.remaining_ms = timer.interval_ms]
                     ELSE [timer EXCEPT !.active = FALSE]

\* (mutant) > instead of >=
AdvancedStrictly(timer, elapsed) ==
  IF ~timer.active THEN timer
  ELSE IF elapsed > timer.remaining_ms THEN Expired(timer)
  ELSE [timer EXCEPT !.remaining_ms = @ - elapsed]

Advanced(timer, elapsed) ==
  IF ~timer.active THEN timer
  ELSE IF elapsed >= timer.remaining_ms THEN Expired(timer)
  ELSE [timer EXCEPT !.remaining_ms = @ - elapsed]

Tick(elapsed) ==
  /\ \E post \in Posts(elapsed) :
       /\ next_ipc_sequence + Len(post) <= MaxIpcSequence + 1
       /\ ipc_messages' = ipc_messages \o
            [k \in DOMAIN post |-> ExpiryMessage(timers[post[k]], next_ipc_sequence + k - 1)]
       /\ next_ipc_sequence' = next_ipc_sequence + Len(post)
  /\ timers' = [i \in DOMAIN timers |-> Advanced(timers[i], elapsed)]
  /\ Succeed
  /\ UNCHANGED <<processVars, logVars, next_timer_id>>
=============================================================================
