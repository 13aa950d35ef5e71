----------------------------- MODULE UdpTracker -----------------------------
(***************************************************************************)
(* announceUdp (tracker/udp-tracker.js): one announce to one UDP tracker,  *)
(* a connect exchange followed by an announce exchange, each resent on a   *)
(* schedule, over a network that loses, delays, duplicates and reorders.   *)
(*                                                                         *)
(* An exchange settles in one event; the promise callbacks it queues, up   *)
(* to the next exchange or to the closing of the socket, belong to the     *)
(* same step.  A transaction id stands for the random bytes drawn for one  *)
(* exchange: those of different exchanges differ.                          *)
(***************************************************************************)
EXTENDS Naturals

CONSTANTS MaxAttempts,  \* the length of the retransmit schedule
          Ids           \* the connection ids a tracker can issue

ASSUME UdpTrackerAssumption == MaxAttempts \in Nat \ {0}

VARIABLES
  pc,       \* "idle", "dns4", "dns6", "connect", "announce", "done"
  socket,   \* "none", "open", "closed"
  attempt,  \* of the exchange under way
  timer,    \* is its retransmit timer armed?
  onAbort,  \* is its abort listener registered?
  connId,   \* the set of the connection ids it was given: none or one
  result,   \* "none", "peers", or why the announce was rejected
  aborted,  \* signal.aborted
  net,      \* the datagrams ever sent: any may arrive, any number of times
  sent,     \* per exchange, how many requests were sent
  issued,   \* tracker: the connection ids it gave this client
  served,   \* tracker: has it taken this announce?
  garbled   \* tracker: has it sent a malformed reply?

clientVars == <<pc, socket, attempt, timer, onAbort, connId, result, sent>>
trackerVars == <<issued, served, garbled>>
vars == <<clientVars, aborted, net, trackerVars>>

Reasons == {"badUrl", "dns", "socketError", "trackerError", "protocol",
            "timeout", "aborted"}

(* The transaction id of an exchange; "other" is that of datagrams meant   *)
(* for no exchange of this call.                                           *)
Txns == {"connect", "announce", "other"}

Requests == [kind : {"connect", "announce"}, txn : Txns, id : SUBSET Ids]
Replies == [kind : {"connected", "announced", "error", "garbage"},
            txn : Txns, id : SUBSET Ids]

TypeOK ==
  /\ pc \in {"idle", "dns4", "dns6", "connect", "announce", "done"}
  /\ socket \in {"none", "open", "closed"}
  /\ attempt \in 0 .. MaxAttempts - 1
  /\ timer \in BOOLEAN
  /\ onAbort \in BOOLEAN
  /\ connId \in SUBSET Ids
  /\ result \in Reasons \cup {"none", "peers"}
  /\ aborted \in BOOLEAN
  /\ net \subseteq Requests \cup Replies
  /\ sent \in [{"connect", "announce"} -> Nat]
  /\ issued \subseteq Ids
  /\ served \in BOOLEAN
  /\ garbled \in BOOLEAN

Reply(kind, txn, id) == [kind |-> kind, txn |-> txn, id |-> id]

(* Replies to somebody else's requests, which reach this socket as well.   *)
Strays ==
  {Reply("connected", "other", {i}) : i \in Ids} \cup {Reply("announced", "other", {})}

Init ==
  /\ pc = "idle"
  /\ socket = "none"
  /\ attempt = 0
  /\ timer = FALSE
  /\ onAbort = FALSE
  /\ connId = {}
  /\ result = "none"
  /\ aborted = FALSE
  /\ net = Strays
  /\ sent = [e \in {"connect", "announce"} |-> 0]
  /\ issued = {}
  /\ served = FALSE
  /\ garbled = FALSE

SendUntimed(e, n, id) ==                                             \* mutant
  /\ attempt' = n
  /\ timer' = (n = 0)
  /\ net' = net \cup {[kind |-> e, txn |-> e, id |-> id]}
  /\ sent' = [sent EXCEPT ![e] = @ + 1]

-----------------------------------------------------------------------------
(* sendAttempt: a request of exchange e goes out and its timer is armed.   *)
SendAttempt(e, n, id) ==
  /\ attempt' = n
  /\ timer' = TRUE
  /\ net' = net \cup {[kind |-> e, txn |-> e, id |-> id]}
  /\ sent' = [sent EXCEPT ![e] = @ + 1]

FinishOpen(r) ==                                                     \* mutant
  /\ pc' = "done"
  /\ result' = r
  /\ timer' = FALSE
  /\ onAbort' = FALSE
  /\ socket' = IF r = "peers" THEN "closed" ELSE socket
  /\ UNCHANGED <<attempt, connId, sent>>

(* The exchange under way is rejected: its listeners and its timer go, and *)
(* announceUdp's finally block closes the socket.                          *)
Finish(r) ==
  /\ pc' = "done"
  /\ result' = r
  /\ timer' = FALSE
  /\ onAbort' = FALSE
  /\ socket' = IF socket = "open" THEN "closed" ELSE socket
  /\ UNCHANGED <<attempt, connId, sent>>

(* announceUdp(url): parse the URL, then look the host up.                 *)
Announce ==
  /\ pc = "idle"
  /\ \/ Finish("badUrl")
     \/ /\ pc' = "dns4"
        /\ UNCHANGED <<socket, attempt, timer, onAbort, connId, result, sent>>
  /\ UNCHANGED <<aborted, net, trackerVars>>

(* No IPv4 address: look for an IPv6 one.                                  *)
Dns4Fails ==
  /\ pc = "dns4"
  /\ pc' = "dns6"
  /\ UNCHANGED <<socket, attempt, timer, onAbort, connId, result, sent>>
  /\ UNCHANGED <<aborted, net, trackerVars>>

Dns6Fails ==
  /\ pc = "dns6"
  /\ Finish("dns")
  /\ UNCHANGED <<aborted, net, trackerVars>>

ResolvedUnchecked ==                                                 \* mutant
  /\ pc \in {"dns4", "dns6"}
  /\ pc' = "connect"
  /\ socket' = "open"
  /\ onAbort' = TRUE
  /\ SendAttempt("connect", 0, {})
  /\ UNCHANGED <<connId, result>>
  /\ UNCHANGED <<aborted, trackerVars>>

(* An address: the socket is made and the connect exchange begun, unless   *)
(* the signal was aborted during the lookup, which does not listen to it.  *)
Resolved ==
  /\ pc \in {"dns4", "dns6"}
  /\ IF aborted
       THEN /\ pc' = "done"
            /\ result' = "aborted"
            /\ socket' = "closed"
            /\ UNCHANGED <<attempt, timer, onAbort, connId, sent, net>>
       ELSE /\ pc' = "connect"
            /\ socket' = "open"
            /\ onAbort' = TRUE
            /\ SendAttempt("connect", 0, {})
            /\ UNCHANGED <<connId, result>>
  /\ UNCHANGED <<aborted, trackerVars>>

Exchanging == pc \in {"connect", "announce"}

AttemptsLeftOffByOne(n) == n < MaxAttempts                           \* mutant

(* The retransmit timer: send again, or give the exchange up.              *)
AttemptsLeft(n) == n + 1 < MaxAttempts

TimerFires ==
  /\ Exchanging
  /\ timer
  /\ IF AttemptsLeft(attempt)
       THEN /\ SendAttempt(pc, attempt + 1, connId)
            /\ UNCHANGED <<pc, socket, onAbort, connId, result>>
       ELSE Finish("timeout") /\ UNCHANGED net
  /\ UNCHANGED <<aborted, trackerVars>>

(* A send callback or the socket reports an error.                         *)
SocketError ==
  /\ Exchanging
  /\ Finish("socketError")
  /\ UNCHANGED <<aborted, net, trackerVars>>

MatchesAny(m, e) == m.txn \in Txns /\ e \in Txns                     \* mutant

(* A reply is looked at only if it has the exchange's transaction id.      *)
Matches(m, e) == m.txn = e

(* A datagram arrives that is no reply to this exchange: keep waiting.  It *)
(* changes nothing, so it needs no action.  One that is, but is an error   *)
(* or not what the exchange expects, rejects the announce.                 *)
Expected == IF pc = "connect" THEN "connected" ELSE "announced"

ReceiveBad(m) ==
  /\ Exchanging
  /\ Matches(m, pc)
  /\ m.kind # Expected
  /\ Finish(IF m.kind = "error" THEN "trackerError" ELSE "protocol")
  /\ UNCHANGED <<aborted, net, trackerVars>>

(* The connect exchange resolves with the connection id, and the announce  *)
(* exchange begins.                                                        *)
ReceiveConnected(m) ==
  /\ pc = "connect"
  /\ Matches(m, pc)
  /\ m.kind = "connected"
  /\ pc' = "announce"
  /\ connId' = m.id
  /\ SendAttempt("announce", 0, m.id)
  /\ UNCHANGED <<socket, onAbort, result, aborted, trackerVars>>

(* The announce exchange resolves with the peers.                          *)
ReceiveAnnounced(m) ==
  /\ pc = "announce"
  /\ Matches(m, pc)
  /\ m.kind = "announced"
  /\ Finish("peers")
  /\ UNCHANGED <<aborted, net, trackerVars>>

(* The client that started the announce is destroyed.                      *)
Abort ==
  /\ ~ aborted
  /\ aborted' = TRUE
  /\ IF Exchanging /\ onAbort THEN Finish("aborted") ELSE UNCHANGED clientVars
  /\ UNCHANGED <<net, trackerVars>>

-----------------------------------------------------------------------------
(* The tracker answers each copy of a request it receives, or does not:    *)
(* a connect with an id, an announce that carries an id it issued with     *)
(* peers, anything with an error, or with a reply that makes no sense.     *)
TrackerConnects(m) ==
  /\ m.kind = "connect"
  /\ \E i \in Ids :
       /\ net' = net \cup {Reply("connected", m.txn, {i})}
       /\ issued' = issued \cup {i}
  /\ UNCHANGED <<clientVars, aborted, served, garbled>>

TrackerAnnounces(m) ==
  /\ m.kind = "announce"
  /\ m.id \subseteq issued
  /\ net' = net \cup {Reply("announced", m.txn, {})}
  /\ served' = TRUE
  /\ UNCHANGED <<clientVars, aborted, issued, garbled>>

TrackerRefuses(m) ==
  /\ m.kind \in {"connect", "announce"}
  /\ net' = net \cup {Reply("error", m.txn, {})}
  /\ UNCHANGED <<clientVars, aborted, trackerVars>>

TrackerGarbles(m) ==
  /\ m.kind \in {"connect", "announce"}
  /\ net' = net \cup {Reply("garbage", m.txn, {})}
  /\ garbled' = TRUE
  /\ UNCHANGED <<clientVars, aborted, issued, served>>

ClientReceives(m) ==
  /\ m.kind \notin {"connect", "announce"}
  /\ ReceiveBad(m) \/ ReceiveConnected(m) \/ ReceiveAnnounced(m)

TrackerReceives(m) ==
  \/ TrackerConnects(m)
  \/ TrackerAnnounces(m)
  \/ TrackerRefuses(m)
  \/ TrackerGarbles(m)

Next ==
  \/ Announce
  \/ Dns4Fails
  \/ Dns6Fails
  \/ Resolved
  \/ TimerFires
  \/ SocketError
  \/ Abort
  \/ \E m \in net : ClientReceives(m) \/ TrackerReceives(m)

Spec == Init /\ [][Next]_vars

(* The resolver answers and timers fire.  Nothing is assumed of the        *)
(* network, of the tracker or of the signal.                               *)
Fairness ==
  /\ WF_vars(Dns4Fails \/ Dns6Fails \/ Resolved)
  /\ WF_vars(TimerFires)

FairSpec == Spec /\ Fairness

-----------------------------------------------------------------------------
(* An aborted announce has no exchange under way, even if the abort came   *)
(* while the host was looked up.                                           *)
NoExchangeOnceAborted == aborted => ~ Exchanging

(* Peers are returned only when the tracker has taken this very announce:  *)
(* neither somebody else's reply nor a late reply to the connect request   *)
(* passes for an answer.                                                   *)
AnswerIsForThisAnnounce == result = "peers" => served

(* An announce is rejected as malformed only if the tracker did send       *)
(* something malformed: reordered and duplicated replies do no harm.       *)
OnlyGarbageIsMisread == result = "protocol" => garbled

(* Every announce request carries a connection id that the tracker issued. *)
AnnouncesWithIssuedId ==
  \A m \in net : m.kind = "announce" => m.id # {} /\ m.id \subseteq issued

(* No exchange sends more requests than the schedule has attempts.         *)
AttemptsBounded == \A e \in DOMAIN sent : sent[e] <= MaxAttempts

(* The announce settles whatever the tracker and the network do.           *)
Settles == pc # "idle" ~> pc = "done"

(* An announce is a scoped call: "nothing survives past one call".         *)
Announcing == {"announce"}

Status ==
  [a \in Announcing |->
     CASE pc = "idle" -> "idle"
       [] pc = "done" -> (IF result = "peers" THEN "resolved" ELSE "rejected")
       [] OTHER -> "running"]

Holdings ==
  [a \in Announcing |->
     (IF socket = "open" THEN {"socket"} ELSE {})
       \cup (IF timer THEN {"timer"} ELSE {})
       \cup (IF onAbort THEN {"listener"} ELSE {})]

Scoped == INSTANCE ScopedCalls WITH
            Calls <- Announcing,
            Resources <- {"socket", "timer", "listener"},
            status <- Status,
            held <- Holdings

ImplementsScopedCalls == Scoped!Spec

=============================================================================
