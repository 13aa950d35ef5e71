------------------------ MODULE TrackerClient_proofs ------------------------
(***************************************************************************)
(* Theorems about TrackerClient for any URLs, any peers, any intervals and *)
(* any floor, ceiling and default.                                         *)
(***************************************************************************)
EXTENDS TrackerClient, TLAPS

USE DEF NoInterval, NoAnswer

(* How long the tracker of u is to be left alone after its last announce.  *)
Owed(u) == IF last[u] = NoAnswer THEN Default ELSE Clamp(last[u])

(* A timer that is set is not due before that time is over, and a tracker  *)
(* that has not been announced to may be announced to at once.             *)
Timed ==
  \A u \in Urls :
    /\ loop[u] = "none" => since[u] = Ceiling
    /\ loop[u] = "scheduled" => since[u] = Ceiling \/ since[u] + wait[u] >= Owed(u)

IInv ==
  /\ TypeOK
  /\ Timed
  /\ NothingScheduledOnceDestroyed
  /\ OnlyUsablePeers

-----------------------------------------------------------------------------
(* clampReannounceIntervalMs: whatever a tracker answers, the time until   *)
(* the next announce is within the bounds, and no shorter than what was    *)
(* asked for unless the ceiling is.                                        *)
LEMMA ClampBounds ==
  ASSUME NEW i \in Intervals
  PROVE  /\ Clamp(i) \in Floor .. Ceiling
         /\ Clamp(i) >= i \/ Clamp(i) = Ceiling
  BY TrackerClientAssumption DEF Clamp, AtLeast, AtMost

(* A delay within the bounds is a possible value of a timer.               *)
LEMMA BoundedDelay ==
  ASSUME NEW d \in Floor .. Ceiling
  PROVE  d \in 0 .. Ceiling
  BY TrackerClientAssumption

(* The end of an announce, answered or not: the next one is scheduled at   *)
(* what is owed to the tracker, or nothing is when the client is gone.     *)
LEMMA AnnounceEnds ==
  ASSUME IInv, NEW u \in Urls, NEW d \in Floor .. Ceiling,
         NEW i \in Intervals \cup {NoAnswer},
         d = IF i = NoAnswer THEN Default ELSE Clamp(i),
         ScheduleAnnounce(u, d),
         last' = [last EXCEPT ![u] = i],
         since' = [since EXCEPT ![u] = 0],
         seenPeers' \subseteq Usable,
         UNCHANGED <<destroyed, aborted>>
  PROVE  IInv'
<1> USE TrackerClientAssumption
<1>1. d \in 0 .. Ceiling
  BY BoundedDelay
<1>2. TypeOK'
  BY <1>1 DEF IInv, TypeOK, ScheduleAnnounce
<1>3. Timed'
  <2> SUFFICES ASSUME NEW v \in Urls
               PROVE  /\ loop'[v] = "none" => since'[v] = Ceiling
                      /\ loop'[v] = "scheduled" =>
                           since'[v] = Ceiling \/ since'[v] + wait'[v] >= Owed(v)'
    BY DEF Timed
  <2>1. CASE v = u
    <3>1. loop'[u] = "scheduled" => wait'[u] = d
      BY DEF IInv, TypeOK, ScheduleAnnounce
    <3>2. loop'[u] \in {"scheduled", "stopped"}
      BY DEF IInv, TypeOK, ScheduleAnnounce
    <3>3. since'[u] = 0 /\ Owed(u)' = d
      BY DEF IInv, TypeOK, Owed, Clamp, AtLeast, AtMost
    <3> QED BY <2>1, <3>1, <3>2, <3>3, <1>1
  <2>2. CASE v # u
    <3>1. loop'[v] = loop[v] /\ wait'[v] = wait[v] /\ since'[v] = since[v]
      BY <2>2 DEF IInv, TypeOK, ScheduleAnnounce
    <3>2. Owed(v)' = Owed(v)
      BY <2>2 DEF IInv, TypeOK, Owed, Clamp, AtLeast, AtMost
    <3> QED BY <3>1, <3>2 DEF IInv, Timed
  <2> QED BY <2>1, <2>2
<1>4. NothingScheduledOnceDestroyed'
  BY DEF IInv, TypeOK, ScheduleAnnounce, NothingScheduledOnceDestroyed
<1> QED BY <1>2, <1>3, <1>4 DEF IInv, OnlyUsablePeers

LEMMA InitIInv == Init => IInv
<1> SUFFICES ASSUME Init PROVE IInv
  OBVIOUS
<1>1. TypeOK
  <2>1. 0 \in 0 .. Ceiling /\ Ceiling \in 0 .. Ceiling
    BY TrackerClientAssumption
  <2> QED BY <2>1 DEF Init, TypeOK
<1>2. \A u \in Urls : loop[u] = "none" /\ since[u] = Ceiling
  BY DEF Init
<1> QED BY <1>1, <1>2 DEF Init, IInv, Timed, NothingScheduledOnceDestroyed, OnlyUsablePeers

(* Every step keeps the invariant.                                         *)
LEMMA NextIInv == IInv /\ [Next]_vars => IInv'
<1> SUFFICES ASSUME IInv, [Next]_vars PROVE IInv'
  OBVIOUS
<1> USE TrackerClientAssumption
<1>1. CASE Start
  BY <1>1 DEF Start, StartWith, IInv, TypeOK, Timed, Owed, Clamp, AtLeast, AtMost,
              NothingScheduledOnceDestroyed, OnlyUsablePeers
<1>2. CASE Tick
  <2>1. TypeOK'
    BY <1>2 DEF Tick, IInv, TypeOK, AtLeast, AtMost
  <2>2. Timed'
    <3> SUFFICES ASSUME NEW v \in Urls
                 PROVE  /\ loop'[v] = "none" => since'[v] = Ceiling
                        /\ loop'[v] = "scheduled" =>
                             since'[v] = Ceiling \/ since'[v] + wait'[v] >= Owed(v)'
      BY DEF Timed
    <3>1. since'[v] = since[v] + 1 \/ since'[v] = Ceiling
      BY <1>2 DEF Tick, IInv, TypeOK, AtMost
    <3>2. since[v] = Ceiling => since'[v] = Ceiling
      BY <1>2 DEF Tick, IInv, TypeOK, AtMost
    <3>3. loop[v] = "scheduled" => wait'[v] = wait[v] - 1
      BY <1>2 DEF Tick, IInv, TypeOK, AtLeast
    <3>4. Owed(v)' = Owed(v) /\ loop' = loop
      BY <1>2 DEF Tick, Owed, Clamp, AtLeast, AtMost
    <3>5. Owed(v) \in Nat
      BY DEF IInv, TypeOK, Owed, Clamp, AtLeast, AtMost
    <3> QED BY <3>1, <3>2, <3>3, <3>4, <3>5 DEF IInv, TypeOK, Timed
  <2> QED BY <1>2, <2>1, <2>2 DEF Tick, IInv, NothingScheduledOnceDestroyed, OnlyUsablePeers
<1>3. CASE \E u \in Urls : TimerFires(u)
  BY <1>3 DEF TimerFires, IInv, TypeOK, Timed, Owed, Clamp, AtLeast, AtMost,
              NothingScheduledOnceDestroyed, OnlyUsablePeers
<1>4. CASE \E u \in Urls : Answered(u)
  <2>1. PICK u \in Urls : Answered(u)
    BY <1>4
  <2>2. PICK answer \in SUBSET Peers, i \in Intervals :
          /\ IF destroyed THEN UNCHANGED seenPeers ELSE EmitPeers(answer)
          /\ ScheduleAnnounce(u, Clamp(i))
          /\ last' = [last EXCEPT ![u] = i]
    BY <2>1 DEF Answered
  <2>3. seenPeers' \subseteq Usable
    BY <2>2 DEF IInv, OnlyUsablePeers, EmitPeers
  <2>4. since' = [since EXCEPT ![u] = 0] /\ UNCHANGED <<destroyed, aborted>>
    BY <2>1 DEF Answered
  <2>5. i # NoAnswer
    OBVIOUS
  <2> QED BY <2>2, <2>3, <2>4, <2>5, ClampBounds, AnnounceEnds
<1>5. CASE \E u \in Urls : Fails(u)
  <2>1. PICK u \in Urls : Fails(u)
    BY <1>5
  <2>2. seenPeers' \subseteq Usable
    BY <2>1 DEF Fails, IInv, OnlyUsablePeers
  <2>3. Default \in Floor .. Ceiling
    OBVIOUS
  <2> QED BY <2>1, <2>2, <2>3, AnnounceEnds DEF Fails
<1>6. CASE Destroy
  BY <1>6 DEF Destroy, IInv, TypeOK, Timed, Owed, Clamp, AtLeast, AtMost,
              NothingScheduledOnceDestroyed, OnlyUsablePeers
<1>7. CASE UNCHANGED vars
  BY <1>7 DEF vars, IInv, TypeOK, Timed, Owed, Clamp, AtLeast, AtMost,
              NothingScheduledOnceDestroyed, OnlyUsablePeers
<1> QED BY <1>1, <1>2, <1>3, <1>4, <1>5, <1>6, <1>7 DEF Next

(* The invariant holds in every reachable state.                           *)
THEOREM Inductive == Spec => []IInv
  BY InitIInv, NextIInv, PTL DEF Spec

-----------------------------------------------------------------------------
(* The types of a tracker client's state: in particular a timer is never   *)
(* set beyond the ceiling, whatever interval a tracker answers with.       *)
THEOREM TypeCorrect == Spec => []TypeOK
<1>1. IInv => TypeOK
  BY DEF IInv
<1> QED BY <1>1, Inductive, PTL

(* Once destroyed, no timer is set, whichever announce ends afterwards.    *)
THEOREM NoTimerOnceDestroyed == Spec => []NothingScheduledOnceDestroyed
<1>1. IInv => NothingScheduledOnceDestroyed
  BY DEF IInv
<1> QED BY <1>1, Inductive, PTL

(* Only peers that can be connected to are reported.                       *)
THEOREM ReportsUsable == Spec => []OnlyUsablePeers
<1>1. IInv => OnlyUsablePeers
  BY DEF IInv
<1> QED BY <1>1, Inductive, PTL

(* No tracker is announced to before the time it asked for is over.        *)
THEOREM LeavesAlone == Spec => NeverHammered
<1> DEFINE
      Rested == \A u \in Urls :
        loop[u] = "scheduled" /\ loop'[u] = "announcing" =>
          /\ since[u] >= Floor
          /\ since[u] >= last[u] \/ since[u] = Ceiling
<1>1. IInv /\ [Next]_vars => [Rested]_vars
  <2> SUFFICES ASSUME IInv, Next, NEW u \in Urls,
                      loop[u] = "scheduled", loop'[u] = "announcing"
               PROVE  /\ since[u] >= Floor
                      /\ since[u] >= last[u] \/ since[u] = Ceiling
    OBVIOUS
  <2>1. wait[u] = 0
    BY DEF IInv, TypeOK, Next, Start, StartWith, Tick, TimerFires, Answered, Fails,
           ScheduleAnnounce, Destroy
  <2>2. since[u] \in 0 .. Ceiling /\ last[u] \in Intervals \cup {NoAnswer}
    BY DEF IInv, TypeOK
  <2>3. since[u] = Ceiling \/ since[u] >= Owed(u)
    BY <2>1, <2>2 DEF IInv, Timed
  <2>4. CASE last[u] = NoAnswer
    BY <2>2, <2>3, <2>4, TrackerClientAssumption DEF Owed
  <2>5. CASE last[u] # NoAnswer
    <3>1. last[u] \in Intervals /\ Owed(u) = Clamp(last[u])
      BY <2>2, <2>5 DEF Owed
    <3>2. /\ Clamp(last[u]) \in Floor .. Ceiling
          /\ Clamp(last[u]) >= last[u] \/ Clamp(last[u]) = Ceiling
      BY <3>1, ClampBounds
    <3>3. CASE since[u] = Ceiling
      BY <3>3, TrackerClientAssumption
    <3>4. CASE since[u] >= Clamp(last[u])
      <4>1. last[u] \in Int
        <5>1. last[u] \in Nat \/ last[u] = -1
          BY <3>1, TrackerClientAssumption
        <5> QED BY <5>1
      <4>2. since[u] \in Nat /\ since[u] <= Ceiling
        BY <2>2, TrackerClientAssumption
      <4>3. Clamp(last[u]) \in Nat /\ Clamp(last[u]) >= Floor
        BY <3>2, TrackerClientAssumption
      <4> QED BY <3>2, <3>4, <4>1, <4>2, <4>3, TrackerClientAssumption
    <3>5. Clamp(last[u]) = Owed(u)
      BY <3>1
    <3> QED BY <2>3, <3>3, <3>4, <3>5
  <2> QED BY <2>4, <2>5
<1> QED BY <1>1, Inductive, PTL DEF Spec, NeverHammered

(* A destroyed client reports no peer, not even from an answer that was on *)
(* its way.                                                                *)
THEOREM Quiet == Spec => QuietOnceDestroyed
<1>1. [Next]_vars => [destroyed => UNCHANGED seenPeers]_vars
  BY DEF Next, Start, StartWith, Tick, TimerFires, Answered, Fails, Destroy
<1> QED BY <1>1, PTL DEF Spec, QuietOnceDestroyed

-----------------------------------------------------------------------------
(* What OwnClock rests upon.  No announce that ends, however it ends and    *)
(* whichever others are under way, takes its tracker out of the rotation:  *)
(* a loop stops only when the client is destroyed.                         *)
THEOREM NoneForgotten == Spec => [](~ destroyed => \A u \in Urls : loop[u] # "stopped")
<1> DEFINE Kept == ~ destroyed => \A u \in Urls : loop[u] # "stopped"
<1>1. Init => Kept
  BY DEF Init
<1>2. IInv /\ Kept /\ [Next]_vars => Kept'
  <2> SUFFICES ASSUME IInv, Kept, [Next]_vars, ~ destroyed', NEW v \in Urls
               PROVE  loop'[v] # "stopped"
    OBVIOUS
  <2>1. ~ destroyed /\ loop[v] # "stopped"
    BY DEF Next, Start, StartWith, Tick, TimerFires, Answered, Fails, Destroy, vars
  <2> QED
    BY <2>1 DEF IInv, TypeOK, Next, Start, StartWith, Tick, TimerFires, Answered, Fails,
                ScheduleAnnounce, Destroy, vars
<1> QED BY <1>1, <1>2, Inductive, PTL DEF Spec

(* And "a slow or dead tracker only ever delays itself": the timer of a     *)
(* tracker only runs down, whatever the announces to the others do; it     *)
(* ends in its own announce or with the client.                            *)
THEOREM OnlyItselfDelays ==
  Spec => [][\A u \in Urls :
               loop[u] = "scheduled" =>
                 \/ loop'[u] = "scheduled" /\ wait'[u] <= wait[u]
                 \/ loop'[u] = "announcing" /\ wait[u] = 0
                 \/ destroyed']_vars
<1>1. IInv /\ [Next]_vars =>
        [\A u \in Urls :
           loop[u] = "scheduled" =>
             \/ loop'[u] = "scheduled" /\ wait'[u] <= wait[u]
             \/ loop'[u] = "announcing" /\ wait[u] = 0
             \/ destroyed']_vars
  <2> SUFFICES ASSUME IInv, Next, NEW u \in Urls, loop[u] = "scheduled"
               PROVE  \/ loop'[u] = "scheduled" /\ wait'[u] <= wait[u]
                      \/ loop'[u] = "announcing" /\ wait[u] = 0
                      \/ destroyed'
    OBVIOUS
  <2>1. wait[u] \in Nat
    BY TrackerClientAssumption DEF IInv, TypeOK
  <2>2. CASE Start
    BY <2>2 DEF Start, StartWith
  <2>3. CASE Tick
    <3>1. wait'[u] = AtLeast(wait[u] - 1, 0) /\ loop' = loop
      BY <2>3 DEF Tick
    <3> QED BY <2>1, <3>1 DEF AtLeast
  <2>4. CASE \E v \in Urls : TimerFires(v)
    BY <2>1, <2>4 DEF TimerFires, IInv, TypeOK
  <2>5. CASE \E v \in Urls : Answered(v) \/ Fails(v)
    <3>1. PICK v \in Urls : loop[v] = "announcing" /\ \E d : ScheduleAnnounce(v, d)
      BY <2>5 DEF Answered, Fails
    <3>2. loop'[u] = loop[u] /\ wait'[u] = wait[u]
      BY <3>1 DEF ScheduleAnnounce, IInv, TypeOK
    <3> QED BY <2>1, <3>2
  <2>6. CASE Destroy
    BY <2>6 DEF Destroy
  <2> QED BY <2>2, <2>3, <2>4, <2>5, <2>6 DEF Next
<1> QED BY <1>1, Inductive, PTL DEF Spec

=============================================================================
