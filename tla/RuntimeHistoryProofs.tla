------------------------ MODULE RuntimeHistoryProofs ------------------------
(***************************************************************************)
(* What bolun_runtime_tick announces, and when: no expiry is lost while the *)
(* queue has room, and none comes before its time; and whose turn it is: no *)
(* process is passed over twice by the same other process.  All three are   *)
(* properties of whole histories.  The invariants of the last two relate    *)
(* the age of TimerHistory to the time the timers still have to wait, and   *)
(* the history variable of SchedulerHistory to the cursor.                  *)
(***************************************************************************)
EXTENDS TimerHistory, SchedulerHistory, RuntimeSafetyProofs

\* The queue after a walk of the timer table: what it held, and behind it one
\* message for each entry of post.
PostedOnTop(post) ==
  /\ Len(post) \in Nat /\ DOMAIN post = 1..Len(post)
  /\ DOMAIN ipc_messages' = 1..Len(ipc_messages) + Len(post)
  /\ Len(ipc_messages') = Len(ipc_messages) + Len(post)
  /\ \A m \in 1..Len(ipc_messages) : ipc_messages'[m] = ipc_messages[m]
  /\ \A k \in 1..Len(post) :
       ipc_messages'[Len(ipc_messages) + k] =
         ExpiryMessage(timers[post[k]], next_ipc_sequence + k - 1)

LEMMA TickPosts ==
  ASSUME TypeInv, NEW elapsed \in Elapsed, Tick(elapsed)
  PROVE  \E post \in Posts(elapsed) :
           /\ PostedOnTop(post)
           /\ \A k \in 1..Len(post) : post[k] \in Deliverable(elapsed)
<1>0. IpcTypeOK /\ TimerInv /\ Len(ipc_messages) \in Nat /\ ipc_messages \in Seq(IpcMessage)
  BY Tables DEF IpcTypeOK
<1>1. PICK post \in Posts(elapsed) :
        ipc_messages' = ipc_messages \o
          [k \in DOMAIN post |-> ExpiryMessage(timers[post[k]], next_ipc_sequence + k - 1)]
  BY DEF Tick
<1> DEFINE batch == [k \in DOMAIN post |->
                       ExpiryMessage(timers[post[k]], next_ipc_sequence + k - 1)]
<1>2. /\ Len(post) \in Nat /\ DOMAIN post = 1..Len(post)
      /\ \A k \in 1..Len(post) :
           /\ post[k] \in Deliverable(elapsed)
           /\ ExpiryMessage(timers[post[k]], next_ipc_sequence + k - 1) \in IpcMessage
  BY <1>0, PostedBatch
<1>3. /\ batch \in [1..Len(post) -> IpcMessage]
      /\ \A k \in 1..Len(post) :
           batch[k] = ExpiryMessage(timers[post[k]], next_ipc_sequence + k - 1)
  BY <1>2
<1>4. ipc_messages' = ipc_messages \o batch
  BY <1>1
<1> HIDE DEF batch
<1>5. batch \in Seq(IpcMessage) /\ Len(batch) = Len(post)
  BY <1>2, <1>3, TableSeq
<1>6. /\ ipc_messages' \in Seq(IpcMessage)
      /\ Len(ipc_messages') = Len(ipc_messages) + Len(post)
      /\ \A m \in 1..Len(ipc_messages) : ipc_messages'[m] = ipc_messages[m]
      /\ \A k \in 1..Len(post) : ipc_messages'[Len(ipc_messages) + k] = batch[k]
  <2>0. ipc_messages \in Seq(IpcMessage)
    BY <1>0
  <2>1. /\ ipc_messages \o batch \in Seq(IpcMessage)
        /\ Len(ipc_messages \o batch) = Len(ipc_messages) + Len(batch)
        /\ \A m \in 1..Len(ipc_messages) : (ipc_messages \o batch)[m] = ipc_messages[m]
        /\ \A k \in 1..Len(batch) : (ipc_messages \o batch)[Len(ipc_messages) + k] = batch[k]
    BY ONLY <1>5, <2>0
  <2> QED BY <1>4, <1>5, <2>1
<1>7. DOMAIN ipc_messages' = 1..Len(ipc_messages) + Len(post)
  BY <1>6
<1>8. PostedOnTop(post)
  BY <1>2, <1>3, <1>6, <1>7 DEF PostedOnTop
<1> QED BY <1>2, <1>8

-----------------------------------------------------------------------------
(* No expiry is lost while the queue has room. *)

LEMMA DeliverableSlots ==
  ASSUME TypeInv, NEW elapsed
  PROVE  Deliverable(elapsed) \subseteq DOMAIN timers /\ Deliverable(elapsed) \subseteq Int
         /\ IsFiniteSet(Deliverable(elapsed))
<1>1. Len(timers) \in Nat /\ DOMAIN timers = 1..Len(timers)
  BY Tables
<1>2. Deliverable(elapsed) \subseteq 1..Len(timers)
  BY <1>1 DEF Deliverable, Due
<1>3. IsFiniteSet(1..Len(timers))
  BY <1>1, FS_Interval
<1>4. IsFiniteSet(Deliverable(elapsed))
  BY <1>2, <1>3, FS_Subset
<1> QED BY <1>1, <1>2, <1>4

\* A walk that posts as many messages as there are timers to deliver posts one
\* for each of them.
LEMMA PostsThemAll ==
  ASSUME TypeInv, NEW elapsed, NEW post \in Posts(elapsed),
         Cardinality(Deliverable(elapsed)) <= IpcRoom, NEW t \in Deliverable(elapsed)
  PROVE  \E k \in 1..Len(post) : post[k] = t
<1> DEFINE slots == Deliverable(elapsed)
           n == Cardinality(slots)
<1>1. IsFiniteSet(slots) /\ slots \subseteq Int
  BY DeliverableSlots
<1>2. n \in Nat
  BY <1>1, FS_CardinalityType
<1>3. post \in [1..n -> slots] /\ \A j, k \in 1..n : j < k => post[j] < post[k]
  BY <1>2 DEF Posts, PostCount, InTableOrder
<1>4. \A j \in 1..n : post[j] \in Int
  BY <1>1, <1>3
<1>5. Len(post) = n
  BY <1>2, <1>3
<1> HIDE DEF slots, n
<1>6. post \in Injection(1..n, slots)
  <2>1. ASSUME NEW j \in 1..n, NEW k \in 1..n, post[j] = post[k] PROVE j = k
    <3>1. ~(j < k) /\ ~(k < j)
      BY <1>2, <1>3, <1>4, <2>1
    <3> QED BY <1>2, <3>1
  <2> QED BY <1>3, <2>1 DEF Injection, IsInjective
<1>7. Cardinality(1..n) = Cardinality(slots)
  BY <1>2, FS_Interval DEF n
<1>8. post \in Surjection(1..n, slots)
  BY <1>1, <1>6, <1>7, FS_Injection
<1>9. \E k \in 1..n : post[k] = t
  BY <1>8 DEF Surjection, slots
<1> QED BY <1>5, <1>9

LEMMA PostedOrFull ==
  ASSUME TypeInv, NEW elapsed \in Elapsed, Tick(elapsed), NEW t \in Deliverable(elapsed)
  PROVE  Posted(t) \/ Len(ipc_messages') = MaxIpcMessages
<1>0. /\ IpcRoom \in Nat /\ Len(ipc_messages) \in Nat /\ next_ipc_sequence \in Nat
      /\ IsFiniteSet(Deliverable(elapsed))
  BY DeliverableSlots, Tables, IpcAssumption DEF IpcRoom, IpcTypeOK
<1>1. PICK post \in Posts(elapsed) : PostedOnTop(post)
  BY TickPosts
<1>2. CASE Cardinality(Deliverable(elapsed)) <= IpcRoom
  <2>1. PICK k \in 1..Len(post) : post[k] = t
    BY <1>2, PostsThemAll
  <2> DEFINE m == Len(ipc_messages) + k
             message == ExpiryMessage(timers[t], next_ipc_sequence + k - 1)
  <2>2. m \in DOMAIN ipc_messages' /\ ipc_messages'[m] = message
    BY <1>0, <1>1, <2>1 DEF PostedOnTop
  <2>3. /\ message.timer_id = timers[t].timer_id
        /\ message.to_pid = timers[t].owner_pid
        /\ message.sequence = next_ipc_sequence + k - 1
    BY DEF ExpiryMessage
  <2>4. next_ipc_sequence + k - 1 >= next_ipc_sequence
    BY <1>0
  <2> HIDE DEF m, message
  <2> QED BY <2>2, <2>3, <2>4 DEF Posted
<1>3. CASE ~(Cardinality(Deliverable(elapsed)) <= IpcRoom)
  <2>1. post \in [1..IpcRoom -> Deliverable(elapsed)]
    BY <1>3 DEF Posts, PostCount
  <2>2. Len(post) = IpcRoom
    BY <1>0, <2>1
  <2> QED BY <1>0, <1>1, <2>2, IpcAssumption DEF PostedOnTop, IpcRoom
<1> QED BY <1>2, <1>3

\* A client's call neither lets a timer of the table expire nor changes it; it
\* may add one, which then waits for a whole interval.
LEMMA ClientTimers ==
  ASSUME TypeInv, ClientCalls \/ UNCHANGED vars
  PROVE  /\ \A t \in DOMAIN timers : timers'[t] = timers[t]
         /\ \A t \in DOMAIN timers' :
              t \in DOMAIN timers \/ timers'[t].remaining_ms = timers'[t].interval_ms
<1>1. /\ timers \in Seq(Timer) /\ DOMAIN timers = 1..Len(timers) /\ Len(timers) \in Nat
  BY Tables DEF TimerInv, TimerTypeOK
<1>2. CASE UNCHANGED timers
  BY <1>2
<1>3. CASE CreateTimerCall
  <2>1. PICK owner \in Pids, interval \in Intervals, repeating \in BOOLEAN :
          CreateTimer(owner, interval, repeating)
    BY <1>3 DEF CreateTimerCall
  <2>2. CASE timers' = Append(timers, NewTimer(owner, interval, repeating))
    <3> DEFINE timer == NewTimer(owner, interval, repeating)
    <3>1. timer.remaining_ms = timer.interval_ms
      BY DEF NewTimer
    <3> HIDE DEF timer
    <3>2. /\ DOMAIN timers' = 1..Len(timers) + 1 /\ timers'[Len(timers) + 1] = timer
          /\ \A t \in DOMAIN timers : timers'[t] = timers[t]
      BY <1>1, <2>2 DEF timer
    <3> QED BY <1>1, <3>1, <3>2
  <2> QED BY <1>2, <2>1, <2>2 DEF CreateTimer, timerVars
<1>4. CASE SpawnProcessCall \/ ScheduleNextCall \/ StopProcessCall \/ SecurityCheckCall
  BY <1>2, <1>4
  DEF SpawnProcessCall, ScheduleNextCall, StopProcessCall, SecurityCheckCall, timerVars
<1>5. CASE AllocateMemoryCall \/ FreeMemoryCall \/ LogCall \/ SyscallCall
  BY <1>2, <1>5 DEF AllocateMemoryCall, FreeMemoryCall, LogCall, SyscallCall, timerVars
<1>6. CASE IpcSendCall \/ (\E pid \in Pids : IpcReceiveCall(pid)) \/ RejectArguments
           \/ UNCHANGED vars
  BY <1>2, <1>6 DEF IpcSendCall, IpcReceiveCall, RejectArguments, vars, timerVars
<1> QED BY <1>3, <1>4, <1>5, <1>6 DEF ClientCalls

LEMMA TimedStepIsStep == [TimedNext]_<<vars, historyVars>> => [Next]_vars
BY DEF TimedNext, Next, TickCall

(***************************************************************************)
(* bolun_runtime_tick never drops the expiry of a live owner's timer while  *)
(* the queue has room for its message, whatever the sizes of the tables and *)
(* whether the timer is one-shot or repeating.                              *)
(***************************************************************************)
THEOREM ExpiryLostOnlyWhenFull == TimedSpec => []LostOnlyWhenFull
<1>1. TimedInit => TypeInv /\ LostOnlyWhenFull
  BY TypeInvInit DEF TimedInit, LostOnlyWhenFull
<1>2. ASSUME TypeInv, LostOnlyWhenFull, [TimedNext]_<<vars, historyVars>>
      PROVE  LostOnlyWhenFull'
  <2>1. CASE UNCHANGED historyVars
    BY <1>2, <2>1 DEF historyVars, LostOnlyWhenFull
  <2>2. ASSUME NEW elapsed \in Elapsed, Tick(elapsed), RecordTime(elapsed)
        PROVE  LostOnlyWhenFull'
    <3>1. CASE \E t \in DOMAIN timers : Expires(t, elapsed) /\ ~Posted(t)
      <4>1. PICK t \in DOMAIN timers : Expires(t, elapsed) /\ ~Posted(t)
        BY <3>1
      <4>2. t \in Deliverable(elapsed)
        BY <4>1 DEF Expires, Deliverable, Due
      <4>3. Len(ipc_messages') = MaxIpcMessages
        BY <1>2, <2>2, <4>1, <4>2, PostedOrFull
      <4>4. lost' = lost \cup {Len(ipc_messages')}
        BY <2>2, <3>1 DEF RecordTime
      <4> QED BY <1>2, <4>3, <4>4 DEF LostOnlyWhenFull
    <3>2. CASE ~(\E t \in DOMAIN timers : Expires(t, elapsed) /\ ~Posted(t))
      <4>1. lost' = lost
        BY <2>2, <3>2 DEF RecordTime
      <4> QED BY <1>2, <4>1 DEF LostOnlyWhenFull
    <3> QED BY <3>1, <3>2
  <2> QED BY <1>2, <2>1, <2>2 DEF TimedNext
<1> QED BY <1>1, <1>2, TimedStepIsStep, TypeInvStep, PTL DEF TimedSpec
-----------------------------------------------------------------------------
(* No expiry comes early. *)

\* Behind the messages that were queued before the walk, those with a number of
\* their own, only timers that are due are named.
LEMMA PostedAreDue ==
  ASSUME TypeInv, QueueOrdered, NEW elapsed \in Elapsed, Tick(elapsed),
         NEW t \in DOMAIN timers, Posted(t)
  PROVE  t \in Due(elapsed)
<1>0. /\ \A i \in DOMAIN timers : timers[i].timer_id = i
      /\ Len(ipc_messages) \in Nat /\ DOMAIN ipc_messages = 1..Len(ipc_messages)
      /\ next_ipc_sequence \in Nat
      /\ \A m \in DOMAIN ipc_messages : ipc_messages[m].sequence \in Nat
  BY Tables DEF TimerInv, TimerIdsBySlot, IpcTypeOK, IpcMessage
<1>1. PICK post \in Posts(elapsed) :
        PostedOnTop(post) /\ \A k \in 1..Len(post) : post[k] \in Deliverable(elapsed)
  BY TickPosts
<1>2. PICK m \in DOMAIN ipc_messages' :
        /\ ipc_messages'[m].timer_id = timers[t].timer_id
        /\ ipc_messages'[m].sequence >= next_ipc_sequence
  BY DEF Posted
<1>3. m \in 1..Len(ipc_messages) + Len(post) /\ Len(post) \in Nat
  BY <1>1, <1>2 DEF PostedOnTop
<1>4. m > Len(ipc_messages)
  <2>1. SUFFICES ASSUME m \in 1..Len(ipc_messages) PROVE FALSE
    BY <1>0, <1>3
  <2>2. ipc_messages'[m] = ipc_messages[m]
    BY <1>1, <2>1 DEF PostedOnTop
  <2>3. ipc_messages[m].sequence < next_ipc_sequence /\ ipc_messages[m].sequence \in Nat
    BY <1>0, <2>1 DEF QueueOrdered
  <2> QED BY <1>0, <1>2, <2>2, <2>3
<1>5. PICK k \in 1..Len(post) : m = Len(ipc_messages) + k
  <2>1. m - Len(ipc_messages) \in 1..Len(post) /\ m = Len(ipc_messages) + (m - Len(ipc_messages))
    BY <1>0, <1>3, <1>4
  <2> QED BY <2>1
<1>6. ipc_messages'[m].timer_id = timers[post[k]].timer_id
  <2>1. ipc_messages'[Len(ipc_messages) + k] =
          ExpiryMessage(timers[post[k]], next_ipc_sequence + k - 1)
    BY <1>1, <1>5 DEF PostedOnTop
  <2>2. ipc_messages'[m] = ExpiryMessage(timers[post[k]], next_ipc_sequence + k - 1)
    BY <1>5, <2>1
  <2> QED BY <2>2 DEF ExpiryMessage
<1>7. post[k] \in Due(elapsed) /\ post[k] \in DOMAIN timers
  BY <1>1, <1>5 DEF Deliverable, Due
<1>8. post[k] = t
  BY <1>0, <1>2, <1>6, <1>7
<1> QED BY <1>7, <1>8

\* An active timer has waited for whatever part of its interval it does not
\* still have to wait for.
AgeInv ==
  /\ age \in [TimerSlots -> Nat]
  /\ \A t \in DOMAIN timers :
       timers[t].active => age[t] + timers[t].remaining_ms >= timers[t].interval_ms
  /\ NeverEarly

TimedInv == TypeInv /\ QueueOrdered /\ AgeInv

\* The slots of the table, and what is known of each.
LEMMA TimerSlotTypes ==
  ASSUME TypeInv
  PROVE  /\ DOMAIN timers \subseteq TimerSlots
         /\ \A t \in DOMAIN timers :
              /\ timers[t] \in Timer
              /\ timers[t].remaining_ms \in Nat /\ timers[t].interval_ms \in Nat
              /\ timers[t].active \in BOOLEAN
<1>1. /\ Len(timers) \in Nat /\ Len(timers) <= MaxTimers /\ DOMAIN timers = 1..Len(timers)
      /\ \A t \in DOMAIN timers : timers[t] \in Timer
  BY Tables DEF TimerInv, TimerTypeOK
<1>2. DOMAIN timers \subseteq TimerSlots
  BY <1>1, IpcAssumption DEF TimerSlots
<1>3. \A timer \in Timer : /\ timer.remaining_ms \in Nat /\ timer.interval_ms \in Nat
                           /\ timer.active \in BOOLEAN
  BY TimerAssumption DEF Timer
<1> QED BY <1>1, <1>2, <1>3

\* The balance of one timer over a walk of the table that posts for it only
\* when it is due.
LEMMA BalanceKept ==
  ASSUME NEW timer \in Timer, NEW elapsed \in Elapsed, NEW old \in Nat,
         timer.active => old + timer.remaining_ms >= timer.interval_ms,
         NEW posted \in BOOLEAN, posted => timer.active /\ elapsed >= timer.remaining_ms,
         NEW new,
         new = IF posted THEN 0
               ELSE IF old + elapsed < timer.interval_ms THEN old + elapsed
                                                         ELSE timer.interval_ms
  PROVE  /\ new \in Nat
         /\ Advanced(timer, elapsed).active =>
              new + Advanced(timer, elapsed).remaining_ms >= Advanced(timer, elapsed).interval_ms
         /\ posted => ~(old + elapsed < timer.interval_ms)
<1>1. /\ elapsed \in Nat /\ timer.remaining_ms \in Nat /\ timer.interval_ms \in Nat
      /\ timer.active \in BOOLEAN
  BY TimerAssumption DEF Timer
<1>2. new \in Nat
  BY <1>1
<1>3. posted => ~(old + elapsed < timer.interval_ms)
  BY <1>1
<1>4. CASE ~timer.active
  BY <1>2, <1>3, <1>4 DEF Advanced
<1>5. CASE timer.active /\ elapsed >= timer.remaining_ms
  <2>1. Advanced(timer, elapsed).active =>
          Advanced(timer, elapsed).remaining_ms = Advanced(timer, elapsed).interval_ms
        /\ Advanced(timer, elapsed).interval_ms = timer.interval_ms
    BY <1>5 DEF Advanced, Expired, Timer
  <2> QED BY <1>1, <1>2, <1>3, <2>1
<1>6. CASE timer.active /\ ~(elapsed >= timer.remaining_ms)
  <2>1. /\ Advanced(timer, elapsed).remaining_ms = timer.remaining_ms - elapsed
        /\ Advanced(timer, elapsed).interval_ms = timer.interval_ms
    BY <1>6 DEF Advanced, Timer
  <2>2. ~posted
    BY <1>6
  <2>3. new + (timer.remaining_ms - elapsed) >= timer.interval_ms
    <3>1. CASE old + elapsed < timer.interval_ms
      BY <1>1, <1>6, <2>2, <3>1
    <3>2. CASE ~(old + elapsed < timer.interval_ms)
      BY <1>1, <1>6, <2>2, <3>2
    <3> QED BY <3>1, <3>2
  <2> QED BY <1>2, <1>3, <2>1, <2>3
<1> QED BY <1>4, <1>5, <1>6

LEMMA AgeStep ==
  ASSUME TimedInv, [TimedNext]_<<vars, historyVars>>
  PROVE  AgeInv'
<1>0. /\ TypeInv /\ QueueOrdered /\ age \in [TimerSlots -> Nat] /\ early = {}
      /\ DOMAIN timers \subseteq TimerSlots
      /\ \A t \in DOMAIN timers :
           timers[t].active => age[t] + timers[t].remaining_ms >= timers[t].interval_ms
  BY TimerSlotTypes DEF TimedInv, AgeInv, NeverEarly
<1>1. CASE (ClientCalls /\ UNCHANGED historyVars) \/ UNCHANGED <<vars, historyVars>>
  <2>1. TypeInv'
    BY <1>0, TimedStepIsStep, TypeInvStep
  <2>2. /\ DOMAIN timers' \subseteq TimerSlots
        /\ \A t \in DOMAIN timers' :
             timers'[t].remaining_ms \in Nat /\ timers'[t].interval_ms \in Nat
    <3>1. /\ timers' \in Seq(Timer) /\ Len(timers') <= MaxTimers
          /\ DOMAIN timers' = 1..Len(timers') /\ Len(timers') \in Nat
          /\ \A t \in DOMAIN timers' : timers'[t] \in Timer
      BY <2>1 DEF TypeInv, TypeOK, TimerTypeOK
    <3>2. \A timer \in Timer : timer.remaining_ms \in Nat /\ timer.interval_ms \in Nat
      BY TimerAssumption DEF Timer
    <3> QED BY <3>1, <3>2, IpcAssumption DEF TimerSlots
  <2>3. /\ \A t \in DOMAIN timers : timers'[t] = timers[t]
        /\ \A t \in DOMAIN timers' :
             t \in DOMAIN timers \/ timers'[t].remaining_ms = timers'[t].interval_ms
    BY <1>0, <1>1, ClientTimers
  <2>4. age' = age /\ early' = early
    BY <1>1 DEF historyVars
  <2>5. ASSUME NEW t \in DOMAIN timers', timers'[t].active
        PROVE  age'[t] + timers'[t].remaining_ms >= timers'[t].interval_ms
    <3>1. age[t] \in Nat
      BY <1>0, <2>2
    <3>2. CASE t \in DOMAIN timers
      BY <1>0, <2>3, <2>4, <2>5, <3>2
    <3>3. CASE timers'[t].remaining_ms = timers'[t].interval_ms
      BY <2>2, <2>4, <3>1, <3>3
    <3> QED BY <2>3, <3>2, <3>3
  <2> QED BY <1>0, <2>4, <2>5 DEF AgeInv, NeverEarly
<1>2. ASSUME NEW elapsed \in Elapsed, Tick(elapsed), RecordTime(elapsed)
      PROVE  AgeInv'
  <2>1. /\ timers' = [i \in DOMAIN timers |-> Advanced(timers[i], elapsed)]
        /\ DOMAIN timers' = DOMAIN timers
    BY <1>2 DEF Tick
  <2>2. ASSUME NEW t \in DOMAIN timers
        PROVE  /\ age'[t] \in Nat
               /\ timers'[t].active =>
                    age'[t] + timers'[t].remaining_ms >= timers'[t].interval_ms
               /\ Posted(t) => ~(age[t] + elapsed < timers[t].interval_ms)
    <3>1. /\ timers[t] \in Timer /\ age[t] \in Nat /\ t \in TimerSlots
          /\ timers[t].active => age[t] + timers[t].remaining_ms >= timers[t].interval_ms
      BY <1>0, TimerSlotTypes
    <3>2. Posted(t) => timers[t].active /\ elapsed >= timers[t].remaining_ms
      BY <1>0, <1>2, PostedAreDue DEF Due
    <3>3. age'[t] = IF Posted(t) THEN 0
                    ELSE IF age[t] + elapsed < timers[t].interval_ms THEN age[t] + elapsed
                                                                     ELSE timers[t].interval_ms
      BY <1>2, <3>1 DEF RecordTime, Aged
    <3>4. PICK posted \in BOOLEAN : posted <=> Posted(t)
      OBVIOUS
    <3>5. /\ posted => timers[t].active /\ elapsed >= timers[t].remaining_ms
          /\ age'[t] = IF posted THEN 0
                       ELSE IF age[t] + elapsed < timers[t].interval_ms THEN age[t] + elapsed
                                                                        ELSE timers[t].interval_ms
      BY <3>2, <3>3, <3>4
    <3>6. timers'[t] = Advanced(timers[t], elapsed)
      BY <2>1
    <3>7. /\ age'[t] \in Nat
          /\ Advanced(timers[t], elapsed).active =>
               age'[t] + Advanced(timers[t], elapsed).remaining_ms
                 >= Advanced(timers[t], elapsed).interval_ms
          /\ posted => ~(age[t] + elapsed < timers[t].interval_ms)
      BY <3>1, <3>5, BalanceKept
    <3> QED BY <3>4, <3>6, <3>7
  <2>3. age' \in [TimerSlots -> Nat]
    <3>1. age' = [t \in TimerSlots |->
                    IF t \notin DOMAIN timers \/ Posted(t) THEN 0 ELSE Aged(t, elapsed)]
      BY <1>2 DEF RecordTime
    <3>2. \A t \in TimerSlots : age'[t] \in Nat
      <4>1. ASSUME NEW t \in TimerSlots, t \notin DOMAIN timers PROVE age'[t] = 0
        BY <3>1, <4>1
      <4> QED BY <2>2, <4>1
    <3> QED BY <3>1, <3>2
  <2>4. early' = {}
    <3>1. early' = early \cup
            {t \in DOMAIN timers : Posted(t) /\ age[t] + elapsed < timers[t].interval_ms}
      BY <1>2 DEF RecordTime
    <3> QED BY <1>0, <2>2, <3>1
  <2> QED BY <2>1, <2>2, <2>3, <2>4 DEF AgeInv, NeverEarly
<1> QED BY <1>1, <1>2 DEF TimedNext

(***************************************************************************)
(* bolun_runtime_tick never announces a timer early: at every expiry that   *)
(* is announced one whole interval has passed since the last one, or since  *)
(* the timer was created.                                                   *)
(***************************************************************************)
THEOREM NeverAnnouncedEarly == TimedSpec => []NeverEarly
<1>1. TimedInit => TimedInv
  <2>1. ASSUME TimedInit PROVE AgeInv
    BY <2>1 DEF TimedInit, Init, TimerInit, AgeInv, NeverEarly
  <2>2. TimedInit => QueueOrdered
    BY DEF TimedInit, Init, IpcInit, QueueOrdered
  <2> QED BY <2>1, <2>2, TypeInvInit DEF TimedInit, TimedInv
<1>2. TimedInv /\ [TimedNext]_<<vars, historyVars>> => TimedInv'
  BY AgeStep, TimedStepIsStep, TypeInvStep, QueueOrderStep DEF TimedInv
<1>3. TimedInv => NeverEarly
  BY DEF TimedInv, AgeInv
<1> QED BY <1>1, <1>2, <1>3, PTL DEF TimedSpec
-----------------------------------------------------------------------------
(* Turns of the scheduler. *)

\* Turning from slot c, slot d comes before slot i.
ComesBefore(c, d, i) == IF i > c THEN c < d /\ d < i ELSE d > c \/ d < i

\* The slots the cursor has passed on its way from slot i to slot c.
Passed(c, i) ==
  {j \in Slots : \/ i < c /\ i < j /\ j <= c
                 \/ i > c /\ (j > i \/ j <= c)}

LEMMA TurnOrder ==
  ASSUME NEW c \in Nat, NEW d \in Slots, NEW i \in Slots, d # i, ComesBefore(c, d, i)
  PROVE  d \notin Passed(c, i) /\ Passed(c, i) \cup {d} \subseteq Passed(d, i)
<1>1. d \notin Passed(c, i)
  BY ProcessAssumption DEF ComesBefore, Passed, Slots
<1>2. d \in Passed(d, i)
  BY ProcessAssumption DEF Passed, Slots
<1>3. ASSUME NEW j \in Passed(c, i) PROVE j \in Passed(d, i)
  BY <1>3, ProcessAssumption DEF ComesBefore, Passed, Slots
<1> QED BY <1>1, <1>2, <1>3

\* Where the k-th attempt of the search looks, without the division.
LEMMA CandidateSlot ==
  ASSUME TypeInv, RunningAtCursor, NEW k \in 1..Len(processes)
  PROVE  Candidate(k) = IF scheduler_cursor + 1 + k <= Len(processes)
                          THEN scheduler_cursor + 1 + k
                          ELSE scheduler_cursor + 1 + k - Len(processes)
<1> DEFINE n == Len(processes)
           x == scheduler_cursor + k
<1>1. n \in Nat /\ n >= 1 /\ scheduler_cursor \in 0..n - 1
  BY Tables DEF ProcessTypeOK, RunningAtCursor
<1>2. x \in Nat /\ k \in 1..n
  BY <1>1
<1>3. CASE n = 1
  <2>1. Candidate(k) = 1
    BY <1>3, CandidateInTable, Tables
  <2> QED BY <1>1, <1>2, <1>3, <2>1
<1>4. CASE n >= 2 /\ x < n
  <2>1. x \in 0..n - 1 /\ x = n * 0 + x
    BY <1>1, <1>2, <1>4
  <2> HIDE DEF x, n
  <2>2. (n * 0 + x) % n = x
    BY <1>1, <1>4, <2>1, Remainder
  <2>3. x % n = x
    BY <2>1, <2>2
  <2> QED BY <1>1, <1>4, <2>3 DEF Candidate, x, n
<1>5. CASE n >= 2 /\ ~(x < n)
  <2>1. x - n \in 0..n - 1 /\ x = n * 1 + (x - n)
    BY <1>1, <1>2, <1>5
  <2> HIDE DEF x, n
  <2>2. (n * 1 + (x - n)) % n = x - n
    BY <1>1, <1>5, <2>1, Remainder
  <2>3. x % n = x - n
    BY <2>1, <2>2
  <2> QED BY <1>1, <1>5, <2>3 DEF Candidate, x, n
<1>6. n = 1 \/ (n >= 2 /\ x < n) \/ (n >= 2 /\ ~(x < n))
  <2> HIDE DEF x, n
  <2> QED BY <1>1
<1> HIDE DEF x, n
<1> QED BY <1>3, <1>4, <1>5, <1>6

\* The slot the search ends at comes before every other slot that could run.
LEMMA NextTurnFirst ==
  ASSUME TypeInv, RunningAtCursor, NEW d \in DOMAIN processes, IsNextTurn(d),
         NEW i \in DOMAIN processes, Runnable(i), i # d
  PROVE  ComesBefore(scheduler_cursor + 1, d, i)
<1> DEFINE n == Len(processes)
           c == scheduler_cursor + 1
           attempt == IF i > c THEN i - c ELSE i - c + n
<1>1. n \in Nat /\ DOMAIN processes = 1..n /\ c \in 1..n
  BY Tables DEF ProcessTypeOK, RunningAtCursor
<1>2. PICK k \in 1..n : d = Candidate(k) /\ \A j \in 1..k - 1 : ~Runnable(Candidate(j))
  BY DEF IsNextTurn
<1>3. attempt \in 1..n
  BY <1>1
<1>4. Candidate(attempt) = i
  <2>1. Candidate(attempt) = IF c + attempt <= n THEN c + attempt ELSE c + attempt - n
    BY <1>3, CandidateSlot
  <2> QED BY <1>1, <2>1
<1>5. k < attempt
  <2>1. attempt \notin 1..k - 1
    BY <1>2, <1>4
  <2>2. attempt # k
    BY <1>2, <1>4
  <2> HIDE DEF attempt
  <2> QED BY <1>1, <1>2, <1>3, <2>1, <2>2
<1>6. d = IF c + k <= n THEN c + k ELSE c + k - n
  BY <1>2, CandidateSlot
<1>7. CASE i > c
  BY <1>1, <1>2, <1>5, <1>6, <1>7 DEF ComesBefore
<1>8. CASE ~(i > c)
  BY <1>1, <1>2, <1>5, <1>6, <1>8 DEF ComesBefore
<1> QED BY <1>7, <1>8

LEMMA CountsOnce ==
  ASSUME NEW p \in Process
  PROVE  /\ Dispatched(p).cpu_ticks # p.cpu_ticks
         /\ Demoted(p).cpu_ticks = p.cpu_ticks
<1>1. p.cpu_ticks \in 0..TickModulus - 1 /\ TickModulus \in Nat /\ TickModulus >= 2
  BY ProcessAssumption DEF Process
<1>2. (p.cpu_ticks + 1) % TickModulus # p.cpu_ticks
  BY <1>1
<1>3. Dispatched(p).cpu_ticks = (p.cpu_ticks + 1) % TickModulus
  BY DEF Dispatched, Process
<1>4. Demoted(p).cpu_ticks = p.cpu_ticks
  BY DEF Demoted, Process
<1> QED BY <1>2, <1>3, <1>4

\* Either one process gets the CPU, the one whose turn is next, or none does
\* and the cursor stays.
LEMMA TurnSteps ==
  ASSUME TypeInv, [Next]_vars
  PROVE  \/ \E d \in DOMAIN processes :
              /\ IsNextTurn(d)
              /\ scheduler_cursor' = d - 1
              /\ \A i \in Slots : GotCpu(i) <=> i = d
         \/ /\ UNCHANGED scheduler_cursor
            /\ \A i \in Slots : ~GotCpu(i)
<1>1. /\ Len(processes) \in Nat /\ DOMAIN processes = 1..Len(processes)
      /\ \A i \in DOMAIN processes : processes[i] \in Process
      /\ processes \in Seq(Process) /\ DOMAIN processes \subseteq Slots
  BY Tables, ProcessAssumption DEF ProcessTypeOK, Slots
<1>2. CASE Dispatches
  <2>1. PICK d \in DOMAIN processes :
          /\ IsNextTurn(d)
          /\ scheduler_cursor' = d - 1
          /\ processes' = [j \in DOMAIN processes |-> IF j = d THEN Dispatched(processes[j])
                                                               ELSE Demoted(processes[j])]
    BY <1>2 DEF Dispatches
  <2>2. \A i \in Slots : GotCpu(i) <=> i = d
    BY <1>1, <2>1, CountsOnce DEF GotCpu
  <2> QED BY <2>1, <2>2
<1>3. CASE Appends
  BY <1>1, <1>3 DEF Appends, GotCpu
<1>4. CASE Accounts
  BY <1>1, <1>4 DEF Accounts, GotCpu, Process
<1>5. CASE Stops
  BY <1>1, <1>5 DEF Stops, StoppedProcess, GotCpu, Process
<1>6. CASE UNCHANGED <<processes, scheduler_cursor, memory_blocks>>
  BY <1>6 DEF GotCpu
<1> QED BY <1>2, <1>3, <1>4, <1>5, <1>6, ProcessSteps

\* Since a live process had the CPU last, only slots that the cursor has passed
\* on its way from it were given the CPU.
BypassInv ==
  \A i \in DOMAIN processes :
    processes[i].state # "STOPPED" => ran_since[i] \subseteq Passed(scheduler_cursor + 1, i)

TurnsInv == TypeInv /\ RunningAtCursor /\ BypassInv

\* The process that gets the CPU was not passed since another live one had it.
LEMMA NoSecondTurn ==
  ASSUME TurnsInv, [Next]_vars, NEW i \in DOMAIN processes, processes[i].state # "STOPPED",
         NEW j \in Slots, GotCpu(j), j # i
  PROVE  /\ j \notin ran_since[i]
         /\ ran_since[i] \cup {j} \subseteq Passed(scheduler_cursor' + 1, i)
<1>1. /\ TypeInv /\ RunningAtCursor /\ scheduler_cursor + 1 \in Nat
      /\ ran_since[i] \subseteq Passed(scheduler_cursor + 1, i)
      /\ processes[i] \in Process /\ i \in Slots /\ DOMAIN processes = 1..Len(processes)
  <2>1. TypeInv /\ RunningAtCursor
        /\ ran_since[i] \subseteq Passed(scheduler_cursor + 1, i)
    BY DEF TurnsInv, BypassInv
  <2> QED BY <2>1, Tables, ProcessAssumption DEF ProcessTypeOK, Slots
<1>2. j \in DOMAIN processes /\ IsNextTurn(j) /\ scheduler_cursor' = j - 1
  BY <1>1, TurnSteps
<1>3. Runnable(i)
  BY <1>1 DEF Runnable, Process
<1>4. ComesBefore(scheduler_cursor + 1, j, i)
  BY <1>1, <1>2, <1>3, NextTurnFirst
<1>5. /\ j \notin Passed(scheduler_cursor + 1, i)
      /\ Passed(scheduler_cursor + 1, i) \cup {j} \subseteq Passed(j, i)
  BY <1>1, <1>4, TurnOrder
<1>6. scheduler_cursor' + 1 = j
  BY <1>2, ProcessAssumption DEF Slots
<1> QED BY <1>1, <1>5, <1>6

LEMMA BypassStep ==
  ASSUME TurnsInv, [TurnsNext]_<<vars, ran_since>>
  PROVE  BypassInv'
<1>1. CASE UNCHANGED <<vars, ran_since>>
  BY <1>1 DEF TurnsInv, BypassInv, vars, processVars
<1>2. CASE TurnsNext
  <2>1. /\ [Next]_vars
        /\ ran_since' = [i \in Slots |->
             IF i \notin DOMAIN processes \/ GotCpu(i) THEN {}
             ELSE ran_since[i] \cup {j \in Slots : GotCpu(j)}]
    BY <1>2 DEF TurnsNext
  <2>2. TypeInv /\ RunningAtCursor /\ BypassInv
    BY DEF TurnsInv
  <2>3. TypeInv' /\ DOMAIN processes' \subseteq Slots
    <3>1. TypeInv'
      BY <2>1, <2>2, TypeInvStep
    <3>2. /\ processes' \in Seq(Process) /\ Len(processes') <= MaxProcesses
          /\ DOMAIN processes' = 1..Len(processes') /\ Len(processes') \in Nat
      BY <3>1 DEF TypeInv, TypeOK, ProcessTypeOK
    <3> QED BY <3>1, <3>2, ProcessAssumption DEF Slots
  <2> SUFFICES ASSUME NEW i \in DOMAIN processes', processes'[i].state # "STOPPED"
               PROVE  ran_since'[i] \subseteq Passed(scheduler_cursor' + 1, i)
    BY DEF BypassInv
  <2>4. CASE i \notin DOMAIN processes \/ GotCpu(i)
    BY <2>1, <2>3, <2>4
  <2>5. CASE i \in DOMAIN processes /\ ~GotCpu(i)
    <3>1. processes[i].state # "STOPPED"
      BY <2>1, <2>2, <2>5, SlotsAfterStep
    <3>2. ran_since'[i] = ran_since[i] \cup {j \in Slots : GotCpu(j)}
      BY <2>1, <2>3, <2>5
    <3>3. CASE \E d \in Slots : GotCpu(d)
      <4>1. PICK d \in Slots : GotCpu(d)
        BY <3>3
      <4>2. \A j \in Slots : GotCpu(j) => j # i
        BY <2>5
      <4>3. \A j \in Slots : GotCpu(j) =>
              ran_since[i] \cup {j} \subseteq Passed(scheduler_cursor' + 1, i)
        BY <2>1, <2>5, <3>1, <4>2, NoSecondTurn
      <4> QED BY <3>2, <4>1, <4>3
    <3>4. CASE ~(\E d \in Slots : GotCpu(d))
      <4>1. scheduler_cursor' = scheduler_cursor
        <5>1. DOMAIN processes \subseteq Slots
          BY <2>2, Tables, ProcessAssumption DEF ProcessTypeOK, Slots
        <5> QED BY <2>1, <2>2, <3>4, <5>1, TurnSteps
      <4>2. ran_since[i] \subseteq Passed(scheduler_cursor + 1, i)
        BY <2>2, <2>5, <3>1 DEF BypassInv
      <4> QED BY <3>2, <3>4, <4>1, <4>2
    <3> QED BY <3>3, <3>4
  <2> QED BY <2>4, <2>5
<1> QED BY <1>1, <1>2

(***************************************************************************)
(* Round-robin, as the bound it gives a waiting process: however the table  *)
(* grows and whoever stops meanwhile, bolun_runtime_schedule_next gives no  *)
(* other process the CPU twice before it.                                   *)
(***************************************************************************)
THEOREM NobodyPassedTwice == TurnsSpec => BoundedBypass
<1>1. TurnsInit => TurnsInv
  <2>1. TurnsInit => BypassInv /\ RunningAtCursor
    BY DEF TurnsInit, Init, ProcessInit, BypassInv, RunningAtCursor
  <2> QED BY <2>1, TypeInvInit DEF TurnsInit, TurnsInv
<1>2. [TurnsNext]_<<vars, ran_since>> => [Next]_vars
  BY DEF TurnsNext
<1>3. TurnsInv /\ [TurnsNext]_<<vars, ran_since>> => TurnsInv'
  BY <1>2, TypeInvStep, RunningStep, BypassStep DEF TurnsInv
<1>4. ASSUME TurnsInv, [TurnsNext]_<<vars, ran_since>>
      PROVE  [\A i, j \in Slots :
                /\ i \in DOMAIN processes
                /\ processes[i].state # "STOPPED"
                /\ GotCpu(j)
                /\ j # i
                => j \notin ran_since[i]]_<<vars, ran_since>>
  BY <1>2, <1>4, NoSecondTurn
<1> QED BY <1>1, <1>3, <1>4, PTL DEF TurnsSpec, BoundedBypass
=============================================================================
