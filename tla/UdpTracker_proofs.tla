-------------------------- MODULE UdpTracker_proofs --------------------------
(***************************************************************************)
(* Theorems about UdpTracker for any schedule length and any connection    *)
(* ids: its safety properties, and that it implements ScopedCalls.         *)
(***************************************************************************)
EXTENDS UdpTracker, TLAPS

(* What the announce holds is decided by where it is.                      *)
HoldsWhileExchanging ==
  /\ socket = "open" <=> Exchanging
  /\ timer <=> Exchanging
  /\ onAbort <=> Exchanging
  /\ result = "none" <=> pc # "done"

(* The requests sent so far belong to the exchanges begun so far.          *)
Counted ==
  /\ pc \in {"idle", "dns4", "dns6"} => sent["connect"] = 0
  /\ pc \in {"idle", "dns4", "dns6", "connect"} => sent["announce"] = 0
  /\ Exchanging => sent[pc] = attempt + 1
  /\ AttemptsBounded

(* What may be in the network: a request has its own exchange's            *)
(* transaction id, and a reply the one of the request it answers, or one   *)
(* that is nobody's.                                                       *)
RequestsMatch ==
  \A m \in net : m.kind \in {"connect", "announce"} => m.txn = m.kind

ConnectsIssued ==
  \A m \in net :
    m.kind = "connected" =>
      /\ m.txn # "announce"
      /\ m.txn = "connect" => m.id # {} /\ m.id \subseteq issued

AnswersServed ==
  \A m \in net :
    m.kind = "announced" =>
      /\ m.txn # "connect"
      /\ m.txn = "announce" => served

GarbageGarbled == \A m \in net : m.kind = "garbage" => garbled

(* The announce exchange uses an id the tracker has issued.                *)
IdIssued == pc = "announce" => connId # {} /\ connId \subseteq issued

IInv ==
  /\ TypeOK
  /\ HoldsWhileExchanging
  /\ NoExchangeOnceAborted
  /\ Counted
  /\ RequestsMatch
  /\ ConnectsIssued
  /\ AnswersServed
  /\ GarbageGarbled
  /\ IdIssued
  /\ AnnouncesWithIssuedId
  /\ AnswerIsForThisAnnounce
  /\ OnlyGarbageIsMisread

NetInv ==
  /\ RequestsMatch
  /\ ConnectsIssued
  /\ AnswersServed
  /\ GarbageGarbled
  /\ AnnouncesWithIssuedId

-----------------------------------------------------------------------------
LEMMA InitInv == Init => IInv
  <1> SUFFICES ASSUME Init
               PROVE  IInv
    OBVIOUS
  <1>1. \A m \in net : /\ m \in Replies /\ m.txn = "other"
                        /\ m.kind \in {"connected", "announced"}
    BY DEF Init, Strays, Reply, Replies, Txns
  <1>2. NetInv
    BY <1>1
    DEF NetInv, RequestsMatch, ConnectsIssued, AnswersServed, GarbageGarbled,
        AnnouncesWithIssuedId
  <1>3. TypeOK
    <2>1. net \subseteq Requests \cup Replies
      BY <1>1
    <2>2. attempt \in 0 .. MaxAttempts - 1
      BY UdpTrackerAssumption DEF Init
    <2>3. sent \in [{"connect", "announce"} -> Nat]
      BY DEF Init
    <2> QED
      BY <2>1, <2>2, <2>3 DEF Init, TypeOK
  <1> QED
    BY <1>2, <1>3, UdpTrackerAssumption
    DEF Init, IInv, NetInv, HoldsWhileExchanging, NoExchangeOnceAborted, Counted,
        AttemptsBounded, IdIssued, AnswerIsForThisAnnounce, OnlyGarbageIsMisread,
        Exchanging

(* A step that neither sends nor concerns the tracker leaves the network's *)
(* invariants alone.                                                       *)
LEMMA NetKept ==
  ASSUME NetInv, UNCHANGED <<net, issued, served, garbled>>
  PROVE  NetInv'
  BY DEF NetInv, RequestsMatch, ConnectsIssued, AnswersServed, GarbageGarbled,
         AnnouncesWithIssuedId

(* Finishing with reason r keeps the invariant, if r is justified.         *)
LEMMA FinishInv ==
  ASSUME IInv, NEW r \in Reasons \cup {"peers"}, Finish(r),
         pc # "done",
         r = "peers" => served,
         r = "protocol" => garbled,
         aborted' \in BOOLEAN,
         UNCHANGED <<net, trackerVars>>
  PROVE  IInv'
  <1> USE DEF Finish, trackerVars
  <1>1. TypeOK'
    BY DEF IInv, TypeOK, Reasons
  <1>2. HoldsWhileExchanging'
    BY DEF IInv, TypeOK, HoldsWhileExchanging, Exchanging, Reasons
  <1>3. Counted'
    BY DEF IInv, TypeOK, Counted, AttemptsBounded, Exchanging
  <1>4. NoExchangeOnceAborted' /\ IdIssued'
    BY DEF NoExchangeOnceAborted, IdIssued, Exchanging
  <1>5. AnswerIsForThisAnnounce' /\ OnlyGarbageIsMisread'
    BY DEF AnswerIsForThisAnnounce, OnlyGarbageIsMisread
  <1>6. NetInv'
    BY NetKept DEF IInv, NetInv
  <1> QED
    BY <1>1, <1>2, <1>3, <1>4, <1>5, <1>6 DEF IInv, NetInv

(* So does sending the request number n of exchange e with connection id d. *)
LEMMA SendInv ==
  ASSUME IInv, NEW e \in {"connect", "announce"}, NEW n \in 0 .. MaxAttempts - 1,
         NEW d \in SUBSET Ids, SendAttempt(e, n, d),
         ~ aborted,
         pc' = e, socket' = "open", onAbort' = TRUE,
         connId' = d \/ (e = "connect" /\ connId' \in SUBSET Ids),
         e = "announce" => d # {} /\ d \subseteq issued,
         result = "none",
         sent[e] = n,
         e = "connect" => sent["announce"] = 0,
         UNCHANGED <<aborted, result, trackerVars>>
  PROVE  IInv'
  <1> DEFINE m == [kind |-> e, txn |-> e, id |-> d]
  <1> USE DEF SendAttempt, trackerVars
  <1>1. TypeOK'
    <2>1. m \in Requests
      BY DEF Requests, Txns
    <2>2. sent' \in [{"connect", "announce"} -> Nat]
      BY DEF IInv, TypeOK
    <2>3. connId' \in SUBSET Ids
      OBVIOUS
    <2> QED
      BY <2>1, <2>2, <2>3 DEF IInv, TypeOK
  <1>2. HoldsWhileExchanging' /\ NoExchangeOnceAborted'
    BY DEF HoldsWhileExchanging, NoExchangeOnceAborted, Exchanging
  <1>3. Counted'
    BY UdpTrackerAssumption DEF IInv, TypeOK, Counted, AttemptsBounded, Exchanging
  <1>4. IdIssued'
    BY DEF IdIssued
  <1>5. RequestsMatch' /\ ConnectsIssued' /\ AnswersServed' /\ GarbageGarbled'
    BY DEF IInv, RequestsMatch, ConnectsIssued, AnswersServed, GarbageGarbled
  <1>6. AnnouncesWithIssuedId'
    BY DEF IInv, AnnouncesWithIssuedId
  <1>7. AnswerIsForThisAnnounce' /\ OnlyGarbageIsMisread'
    BY DEF AnswerIsForThisAnnounce, OnlyGarbageIsMisread
  <1> QED
    BY <1>1, <1>2, <1>3, <1>4, <1>5, <1>6, <1>7 DEF IInv

-----------------------------------------------------------------------------
(* Before the exchanges.                                                   *)
LEMMA BeforeInv ==
  ASSUME IInv, Announce \/ Dns4Fails \/ Dns6Fails \/ Resolved
  PROVE  IInv'
  <1>1. CASE Announce /\ Finish("badUrl")
    BY <1>1, FinishInv DEF Announce, Reasons, IInv, TypeOK
  <1>2. CASE Dns6Fails
    BY <1>2, FinishInv DEF Dns6Fails, Reasons, IInv, TypeOK
  <1>3. CASE /\ pc \in {"idle", "dns4"}
             /\ pc' \in {"dns4", "dns6"}
             /\ UNCHANGED <<socket, attempt, timer, onAbort, connId, result,
                            sent, aborted, net, trackerVars>>
    <2>1. NetInv'
      BY <1>3, NetKept DEF IInv, NetInv, trackerVars
    <2>2. TypeOK'
      BY <1>3 DEF IInv, TypeOK, trackerVars
    <2>3. /\ HoldsWhileExchanging' /\ NoExchangeOnceAborted' /\ Counted'
          /\ IdIssued' /\ AnswerIsForThisAnnounce' /\ OnlyGarbageIsMisread'
      BY <1>3
      DEF IInv, HoldsWhileExchanging, NoExchangeOnceAborted, Counted,
          AttemptsBounded, IdIssued, AnswerIsForThisAnnounce,
          OnlyGarbageIsMisread, Exchanging, trackerVars
    <2> QED
      BY <2>1, <2>2, <2>3 DEF IInv, NetInv
  <1>4. CASE Resolved /\ aborted
    <2>1. /\ pc' = "done" /\ result' = "aborted" /\ socket' = "closed"
          /\ UNCHANGED <<attempt, timer, onAbort, connId, sent, net, aborted,
                         issued, served, garbled>>
      BY <1>4 DEF Resolved, trackerVars
    <2>2. NetInv'
      BY <2>1, NetKept DEF IInv, NetInv
    <2>3. TypeOK'
      BY <2>1 DEF IInv, TypeOK, Reasons
    <2>4. /\ HoldsWhileExchanging' /\ NoExchangeOnceAborted' /\ Counted'
          /\ IdIssued' /\ AnswerIsForThisAnnounce' /\ OnlyGarbageIsMisread'
      BY <1>4, <2>1
      DEF IInv, HoldsWhileExchanging, NoExchangeOnceAborted, Counted,
          AttemptsBounded, IdIssued, AnswerIsForThisAnnounce,
          OnlyGarbageIsMisread, Exchanging, Resolved
    <2> QED
      BY <2>2, <2>3, <2>4 DEF IInv, NetInv
  <1>5. CASE Resolved /\ ~ aborted
    <2>1. result = "none" /\ sent["connect"] = 0 /\ sent["announce"] = 0
      BY <1>5 DEF Resolved, IInv, Counted, HoldsWhileExchanging
    <2>2. 0 \in 0 .. MaxAttempts - 1
      BY UdpTrackerAssumption
    <2>3. connId' \in SUBSET Ids
      BY <1>5 DEF Resolved, IInv, TypeOK
    <2> QED
      BY <1>5, <2>1, <2>2, <2>3, SendInv DEF Resolved
  <1> QED
    BY <1>1, <1>2, <1>3, <1>4, <1>5 DEF Announce, Dns4Fails

(* The retransmit timer.                                                   *)
LEMMA TimerInv ==
  ASSUME IInv, TimerFires
  PROVE  IInv'
  <1>1. pc \in {"connect", "announce"} /\ ~ aborted /\ result = "none"
    BY DEF TimerFires, IInv, Exchanging, NoExchangeOnceAborted, HoldsWhileExchanging
  <1>2. CASE AttemptsLeft(attempt)
    <2>1. attempt + 1 \in 0 .. MaxAttempts - 1
      BY <1>2, UdpTrackerAssumption DEF AttemptsLeft, IInv, TypeOK
    <2>2. sent[pc] = attempt + 1
      BY <1>1 DEF IInv, Counted, Exchanging
    <2>3. connId \in SUBSET Ids /\ connId' = connId
      BY <1>2 DEF TimerFires, IInv, TypeOK
    <2>4. pc = "announce" => connId # {} /\ connId \subseteq issued
      BY DEF IInv, IdIssued
    <2>5. /\ SendAttempt(pc, attempt + 1, connId)
          /\ pc' = pc /\ socket' = "open" /\ onAbort' = TRUE
          /\ UNCHANGED <<aborted, result, trackerVars>>
      BY <1>1, <1>2 DEF TimerFires, IInv, HoldsWhileExchanging, Exchanging, TypeOK
    <2>6. pc = "connect" => sent["announce"] = 0
      BY DEF IInv, Counted
    <2> QED
      BY <1>1, <2>1, <2>2, <2>3, <2>4, <2>5, <2>6, SendInv
  <1>3. CASE ~ AttemptsLeft(attempt)
    BY <1>1, <1>3, FinishInv DEF TimerFires, Reasons, IInv, TypeOK
  <1> QED
    BY <1>2, <1>3

LEMMA ErrorInv ==
  ASSUME IInv, SocketError
  PROVE  IInv'
  BY FinishInv DEF SocketError, Exchanging, Reasons, IInv, TypeOK

LEMMA AbortInv ==
  ASSUME IInv, Abort
  PROVE  IInv'
  <1>1. CASE Exchanging /\ onAbort
    BY <1>1, FinishInv DEF Abort, Exchanging, Reasons
  <1>2. CASE ~ (Exchanging /\ onAbort)
    <2>1. ~ Exchanging /\ aborted' = TRUE
          /\ UNCHANGED <<pc, socket, attempt, timer, onAbort, connId, result,
                         sent, net, issued, served, garbled>>
      BY <1>2 DEF Abort, clientVars, trackerVars, IInv, HoldsWhileExchanging
    <2>2. NetInv'
      BY <2>1, NetKept DEF IInv, NetInv
    <2> QED
      BY <2>1, <2>2
      DEF IInv, NetInv, TypeOK, HoldsWhileExchanging, NoExchangeOnceAborted,
          Counted, AttemptsBounded, IdIssued, AnswerIsForThisAnnounce,
          OnlyGarbageIsMisread, Exchanging
  <1> QED
    BY <1>1, <1>2

-----------------------------------------------------------------------------
(* What arrives at the client.                                             *)
LEMMA ClientInv ==
  ASSUME IInv, NEW m \in net, ClientReceives(m)
  PROVE  IInv'
  <1>1. m \in Requests \cup Replies
    BY DEF IInv, TypeOK
  <1>2. m.kind \in {"connected", "announced", "error", "garbage"} /\ m.id \in SUBSET Ids
    BY <1>1 DEF ClientReceives, Requests, Replies
  <1>3. CASE ReceiveBad(m)
    <2>1. m.kind # "error" => garbled
      <3> SUFFICES ASSUME m.kind # "error"
                   PROVE  garbled
        OBVIOUS
      <3>1. CASE pc = "connect"
        <4>1. m.kind # "connected" /\ m.txn = "connect"
          BY <1>3, <3>1 DEF ReceiveBad, Expected, Matches
        <4>2. m.kind # "announced"
          BY <4>1 DEF IInv, AnswersServed
        <4> QED
          BY <1>2, <4>1, <4>2 DEF IInv, GarbageGarbled
      <3>2. CASE pc = "announce"
        <4>1. m.kind # "announced" /\ m.txn = "announce"
          BY <1>3, <3>2 DEF ReceiveBad, Expected, Matches
        <4>2. m.kind # "connected"
          BY <4>1 DEF IInv, ConnectsIssued
        <4> QED
          BY <1>2, <4>1, <4>2 DEF IInv, GarbageGarbled
      <3> QED
        BY <1>3, <3>1, <3>2 DEF ReceiveBad, Exchanging
    <2> QED
      BY <1>3, <2>1, FinishInv DEF ReceiveBad, Exchanging, Reasons, IInv, TypeOK
  <1>4. CASE ReceiveConnected(m)
    <2>1. m.id # {} /\ m.id \subseteq issued
      BY <1>4 DEF ReceiveConnected, Matches, IInv, ConnectsIssued
    <2>2. /\ pc = "connect" /\ sent["announce"] = 0
          /\ result = "none" /\ ~ aborted /\ socket = "open" /\ onAbort = TRUE
      BY <1>4
      DEF ReceiveConnected, IInv, Counted, HoldsWhileExchanging,
          NoExchangeOnceAborted, Exchanging, TypeOK
    <2>3. 0 \in 0 .. MaxAttempts - 1
      BY UdpTrackerAssumption
    <2> QED
      BY <1>2, <1>4, <2>1, <2>2, <2>3, SendInv DEF ReceiveConnected
  <1>5. CASE ReceiveAnnounced(m)
    <2>1. served
      BY <1>5 DEF ReceiveAnnounced, Matches, IInv, AnswersServed
    <2> QED
      BY <1>5, <2>1, FinishInv DEF ReceiveAnnounced, IInv, TypeOK
  <1> QED
    BY <1>3, <1>4, <1>5 DEF ClientReceives

(* What arrives at the tracker.                                            *)
LEMMA TrackerInv ==
  ASSUME IInv, NEW m \in net, TrackerReceives(m)
  PROVE  IInv'
  <1> USE DEF clientVars, Reply
  <1>1. m \in Requests \cup Replies
    BY DEF IInv, TypeOK
  <1>2. m.kind \in {"connect", "announce"} /\ m.txn = m.kind
    BY DEF IInv, RequestsMatch, TrackerReceives, TrackerConnects,
           TrackerAnnounces, TrackerRefuses, TrackerGarbles
  <1> DEFINE Answers(k, d) ==
        /\ net' = net \cup {[kind |-> k, txn |-> m.txn, id |-> d]}
        /\ k = "connected" => m.txn = "connect" /\ d # {} /\ d \subseteq issued'
        /\ k = "announced" => m.txn = "announce" /\ served'
        /\ k = "garbage" => garbled'
  <1>3. \E k \in {"connected", "announced", "error", "garbage"}, d \in SUBSET Ids :
          Answers(k, d)
    <2>1. CASE TrackerConnects(m)
      <3>1. PICK i \in Ids :
              /\ net' = net \cup {[kind |-> "connected", txn |-> m.txn, id |-> {i}]}
              /\ issued' = issued \cup {i}
        BY <2>1 DEF TrackerConnects
      <3>2. Answers("connected", {i}) /\ {i} \in SUBSET Ids
        BY <1>2, <2>1, <3>1 DEF TrackerConnects
      <3> HIDE DEF Answers
      <3> QED
        BY <3>2
    <2>2. CASE TrackerAnnounces(m)
      <3>1. Answers("announced", {})
        BY <1>2, <2>2 DEF TrackerAnnounces
      <3> HIDE DEF Answers
      <3> QED
        BY <3>1
    <2>3. CASE TrackerRefuses(m)
      <3>1. Answers("error", {})
        BY <2>3 DEF TrackerRefuses
      <3> HIDE DEF Answers
      <3> QED
        BY <3>1
    <2>4. CASE TrackerGarbles(m)
      <3>1. Answers("garbage", {})
        BY <2>4 DEF TrackerGarbles
      <3> HIDE DEF Answers
      <3> QED
        BY <3>1
    <2> HIDE DEF Answers
    <2> QED
      BY <2>1, <2>2, <2>3, <2>4 DEF TrackerReceives
  <1>11. PICK k \in {"connected", "announced", "error", "garbage"}, d \in SUBSET Ids :
          Answers(k, d)
    BY <1>3
  <1>4. /\ UNCHANGED <<pc, socket, attempt, timer, onAbort, connId, result, sent, aborted>>
        /\ issued \subseteq issued' /\ issued' \subseteq Ids
        /\ served' \in BOOLEAN /\ (served => served')
        /\ garbled' \in BOOLEAN /\ (garbled => garbled')
    BY DEF TrackerReceives, TrackerConnects, TrackerAnnounces, TrackerRefuses,
           TrackerGarbles, trackerVars, IInv, TypeOK
  <1>5. TypeOK'
    <2>1. [kind |-> k, txn |-> m.txn, id |-> d] \in Replies
      BY <1>2 DEF Replies, Txns
    <2>2. net' \subseteq Requests \cup Replies
      BY <1>11, <2>1 DEF IInv, TypeOK
    <2> HIDE DEF Answers
    <2> QED
      BY <1>4, <2>2 DEF IInv, TypeOK
  <1>6. RequestsMatch' /\ GarbageGarbled'
    BY <1>11, <1>4 DEF IInv, RequestsMatch, GarbageGarbled
  <1>7. ConnectsIssued'
    BY <1>11, <1>4 DEF IInv, ConnectsIssued
  <1>8. AnswersServed'
    BY <1>11, <1>4 DEF IInv, AnswersServed
  <1>9. AnnouncesWithIssuedId'
    BY <1>11, <1>4 DEF IInv, AnnouncesWithIssuedId
  <1>10. /\ HoldsWhileExchanging' /\ NoExchangeOnceAborted' /\ Counted'
         /\ IdIssued' /\ AnswerIsForThisAnnounce' /\ OnlyGarbageIsMisread'
    BY <1>4
    DEF IInv, HoldsWhileExchanging, NoExchangeOnceAborted, Counted,
        AttemptsBounded, IdIssued, AnswerIsForThisAnnounce,
        OnlyGarbageIsMisread, Exchanging
  <1> HIDE DEF Answers
  <1> QED
    BY <1>5, <1>6, <1>7, <1>8, <1>9, <1>10 DEF IInv

-----------------------------------------------------------------------------
LEMMA StepInv == IInv /\ [Next]_vars => IInv'
  <1> SUFFICES ASSUME IInv, [Next]_vars
               PROVE  IInv'
    OBVIOUS
  <1>1. CASE Announce \/ Dns4Fails \/ Dns6Fails \/ Resolved
    BY <1>1, BeforeInv
  <1>2. CASE TimerFires \/ SocketError \/ Abort
    BY <1>2, TimerInv, ErrorInv, AbortInv
  <1>3. CASE \E m \in net : ClientReceives(m) \/ TrackerReceives(m)
    BY <1>3, ClientInv, TrackerInv
  <1>4. CASE UNCHANGED vars
    <2>1. NetInv'
      BY <1>4, NetKept DEF IInv, NetInv, vars, trackerVars
    <2> QED
      BY <1>4, <2>1
      DEF vars, clientVars, trackerVars, IInv, NetInv, TypeOK,
          HoldsWhileExchanging, NoExchangeOnceAborted, Counted, AttemptsBounded,
          IdIssued, AnswerIsForThisAnnounce, OnlyGarbageIsMisread, Exchanging
  <1> QED
    BY <1>1, <1>2, <1>3, <1>4 DEF Next

(* The inductive invariant.                                                *)
THEOREM Inductive == Spec => []IInv
  BY InitInv, StepInv, PTL DEF Spec

(* The types of the announce, the network and the tracker.                 *)
THEOREM TypeCorrect == Spec => []TypeOK
  <1>1. IInv => TypeOK
    BY DEF IInv
  <1> QED
    BY Inductive, <1>1, PTL

(* An aborted announce has no exchange under way.                          *)
THEOREM AbortHeard == Spec => []NoExchangeOnceAborted
  <1>1. IInv => NoExchangeOnceAborted
    BY DEF IInv
  <1> QED
    BY Inductive, <1>1, PTL

(* Peers are returned only if the tracker has taken this announce.         *)
THEOREM AnswerGenuine == Spec => []AnswerIsForThisAnnounce
  <1>1. IInv => AnswerIsForThisAnnounce
    BY DEF IInv
  <1> QED
    BY Inductive, <1>1, PTL

(* Reordered, duplicated and stray replies are never taken for malformed.  *)
THEOREM NotMisread == Spec => []OnlyGarbageIsMisread
  <1>1. IInv => OnlyGarbageIsMisread
    BY DEF IInv
  <1> QED
    BY Inductive, <1>1, PTL

(* Every announce request, first or resent, has an id the tracker issued.  *)
THEOREM IdsIssued == Spec => []AnnouncesWithIssuedId
  <1>1. IInv => AnnouncesWithIssuedId
    BY DEF IInv
  <1> QED
    BY Inductive, <1>1, PTL

(* No exchange sends more requests than its schedule has attempts.         *)
THEOREM Bounded == Spec => []AttemptsBounded
  <1>1. IInv => AttemptsBounded
    BY DEF IInv, Counted
  <1> QED
    BY Inductive, <1>1, PTL

-----------------------------------------------------------------------------
(* The announce implements ScopedCalls: it settles once, and closes its    *)
(* socket, clears its timer and removes its listener in that step.         *)
THEOREM Refinement == Spec => ImplementsScopedCalls
  <1> USE DEF Scoped!Settled, Announcing
  <1>1. Init => Scoped!Init
    BY DEF Init, Scoped!Init, Status, Holdings
  <1>2. IInv /\ IInv' /\ [Next]_vars => [Scoped!Next]_(Scoped!vars)
    <2> SUFFICES ASSUME IInv, IInv', [Next]_vars
                 PROVE  Scoped!Next
      OBVIOUS
    <2>1. DOMAIN Status' = Announcing /\ DOMAIN Holdings' = Announcing
      BY DEF Status, Holdings
    <2>2. /\ Holdings["announce"] \in SUBSET {"socket", "timer", "listener"}
          /\ Holdings'["announce"] \in SUBSET {"socket", "timer", "listener"}
      BY DEF Holdings
    <2>3. /\ pc = "done" => Holdings["announce"] = {}
          /\ pc' = "done" => Holdings'["announce"] = {}
      BY DEF Holdings, IInv, HoldsWhileExchanging, Exchanging
    <2>4. /\ Status["announce"] = IF pc = "idle" THEN "idle" ELSE
                                  IF pc # "done" THEN "running" ELSE
                                  IF result = "peers" THEN "resolved" ELSE "rejected"
          /\ Status'["announce"] = IF pc' = "idle" THEN "idle" ELSE
                                   IF pc' # "done" THEN "running" ELSE
                                   IF result' = "peers" THEN "resolved" ELSE "rejected"
      BY DEF Status, IInv, TypeOK
    <2>5. \/ pc = "idle" /\ pc' # "idle"
          \/ pc \notin {"idle", "done"} /\ pc' # "idle"
          \/ UNCHANGED <<pc, socket, timer, onAbort, result>>
      BY DEF vars, clientVars, Next, Announce, Dns4Fails, Dns6Fails, Resolved,
             TimerFires, SocketError, Abort, Finish, Exchanging, ClientReceives,
             ReceiveBad, ReceiveConnected, ReceiveAnnounced, TrackerReceives,
             TrackerConnects, TrackerAnnounces, TrackerRefuses, TrackerGarbles
    <2>6. \/ Scoped!Unmoved("announce") \/ Scoped!Begin("announce")
          \/ Scoped!Work("announce") \/ Scoped!Settle("announce")
      <3>1. CASE pc = "idle" /\ pc' # "idle"
        BY <2>2, <2>3, <2>4, <3>1 DEF Scoped!Begin
      <3>2. CASE pc \notin {"idle", "done"} /\ pc' # "idle"
        BY <2>2, <2>3, <2>4, <3>2 DEF Scoped!Work, Scoped!Settle
      <3>3. CASE UNCHANGED <<pc, socket, timer, onAbort, result>>
        BY <3>3 DEF Scoped!Unmoved, Status, Holdings
      <3> QED
        BY <2>5, <3>1, <3>2, <3>3
    <2> QED
      BY <2>1, <2>6 DEF Scoped!Next
  <1> QED
    BY Inductive, <1>1, <1>2, PTL DEF Spec, ImplementsScopedCalls, Scoped!Spec

-----------------------------------------------------------------------------
(* What Settles rests upon.  How often the timer can still fire: both      *)
(* schedules before the connect exchange, then what is left of them.       *)
TimersLeft ==
  CASE pc \in {"idle", "dns4", "dns6"} -> 2 * MaxAttempts
    [] pc = "connect" -> 2 * MaxAttempts - attempt
    [] pc = "announce" -> MaxAttempts - attempt
    [] OTHER -> 0

(* An exchange under way always has a timer, and nothing that arrives, not *)
(* even the reply that begins the second exchange, makes the timers left   *)
(* more; each that fires makes them fewer.  A client that only ever hears  *)
(* its own timers therefore gives up, whatever the schedule's length.      *)
THEOREM CountsDown ==
  Spec => /\ [](TimersLeft \in Nat /\ (Exchanging => timer))
          /\ [][/\ TimersLeft' <= TimersLeft
                /\ TimerFires => TimersLeft' < TimersLeft]_vars
  <1> USE UdpTrackerAssumption
  <1>1. IInv => TimersLeft \in Nat /\ (Exchanging => timer)
    <2> SUFFICES ASSUME IInv
                 PROVE  TimersLeft \in Nat /\ (Exchanging => timer)
      OBVIOUS
    <2>1. /\ pc \in {"idle", "dns4", "dns6", "connect", "announce", "done"}
          /\ attempt \in Nat /\ attempt < MaxAttempts
      BY DEF IInv, TypeOK
    <2>2. TimersLeft \in Nat
      BY <2>1 DEF TimersLeft
    <2> QED
      BY <2>2 DEF IInv, HoldsWhileExchanging
  <1>2. IInv /\ IInv' /\ [Next]_vars
          => [/\ TimersLeft' <= TimersLeft
              /\ TimerFires => TimersLeft' < TimersLeft]_vars
    <2> SUFFICES ASSUME IInv, IInv', Next
                 PROVE  /\ TimersLeft' <= TimersLeft
                        /\ TimerFires => TimersLeft' < TimersLeft
      OBVIOUS
    <2>1. /\ pc \in {"idle", "dns4", "dns6", "connect", "announce", "done"}
          /\ pc' \in {"idle", "dns4", "dns6", "connect", "announce", "done"}
          /\ attempt \in Nat /\ attempt < MaxAttempts
          /\ attempt' \in Nat /\ attempt' < MaxAttempts
      BY DEF IInv, TypeOK
    <2>2. CASE TimerFires
      <3>1. \/ pc' = pc /\ pc \in {"connect", "announce"} /\ attempt' = attempt + 1
            \/ pc' = "done" /\ pc \in {"connect", "announce"}
        BY <2>2 DEF TimerFires, Exchanging, SendAttempt, Finish
      <3> QED
        BY <2>1, <3>1 DEF TimersLeft
    <2>3. CASE ~ TimerFires
      <3>1. \/ pc' = "done"
            \/ /\ pc \in {"idle", "dns4", "dns6"}
               /\ pc' \in {"dns4", "dns6", "connect"}
            \/ pc = "connect" /\ pc' = "announce"
            \/ pc' = pc /\ attempt' = attempt
        BY <2>3
        DEF Next, Announce, Dns4Fails, Dns6Fails, Resolved, SocketError, Abort,
            Finish, clientVars, ClientReceives, ReceiveBad, ReceiveConnected,
            ReceiveAnnounced, TrackerReceives, TrackerConnects, TrackerAnnounces,
            TrackerRefuses, TrackerGarbles
      <3>2. CASE pc' = "done"
        BY <2>1, <2>3, <3>2 DEF TimersLeft
      <3>3. CASE /\ pc \in {"idle", "dns4", "dns6"}
                 /\ pc' \in {"dns4", "dns6", "connect"}
        BY <2>1, <2>3, <3>3 DEF TimersLeft
      <3>4. CASE pc = "connect" /\ pc' = "announce"
        BY <2>1, <2>3, <3>4 DEF TimersLeft
      <3>5. CASE pc' = pc /\ attempt' = attempt
        BY <2>1, <2>3, <3>5 DEF TimersLeft
      <3> QED
        BY <3>1, <3>2, <3>3, <3>4, <3>5
    <2> QED
      BY <2>2, <2>3
  <1> QED
    BY Inductive, <1>1, <1>2, PTL DEF Spec

=============================================================================
