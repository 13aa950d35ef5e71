-------------------------- MODULE MetadataExchange --------------------------
(***************************************************************************)
(* fetchMetadataFromPeer (metadata-exchange.js): one call dials one peer,  *)
(* speaks the wire protocol and settles with the metadata or an error.     *)
(* All the calls of one resolution share one AbortSignal.                  *)
(*                                                                         *)
(* Node runs each event callback to completion, so a callback is a step.   *)
(* The outcome stands for the promise and the settled flag together: the   *)
(* code sets the flag and settles the promise in one callback.             *)
(***************************************************************************)
CONSTANT Calls      \* the calls to fetchMetadataFromPeer

VARIABLES
  socket,     \* per call: "none", "connecting", "open", "ended", "destroyed"
  wire,       \* per call: "none", "open", "destroyed"
  onAbort,    \* the calls whose abort listener is registered on the signal
  aborted,    \* signal.aborted
  outcome,    \* per call: "idle", "running", "resolved", "rejected"
  verifying,  \* the calls whose assembled metadata ut_metadata is hashing
  silent      \* environment: the calls whose peer has gone silent for good

vars == <<socket, wire, onAbort, aborted, outcome, verifying, silent>>

(* The types; and a wire is only ever made by the 'connect' handler.       *)
TypeOK ==
  /\ socket \in [Calls -> {"none", "connecting", "open", "ended", "destroyed"}]
  /\ wire \in [Calls -> {"none", "open", "destroyed"}]
  /\ onAbort \subseteq Calls
  /\ aborted \in BOOLEAN
  /\ outcome \in [Calls -> {"idle", "running", "resolved", "rejected"}]
  /\ verifying \subseteq Calls
  /\ silent \subseteq Calls
  /\ \A c \in Calls : wire[c] # "none" => socket[c] \notin {"none", "connecting"}

Init ==
  /\ socket = [c \in Calls |-> "none"]
  /\ wire = [c \in Calls |-> "none"]
  /\ onAbort = {}
  /\ aborted = FALSE
  /\ outcome = [c \in Calls |-> "idle"]
  /\ verifying = {}
  /\ silent = {}

-----------------------------------------------------------------------------
(* Destroying a connection removes its listeners first, so nothing it does *)
(* afterwards reaches the call.  The listeners on ut_metadata stay.        *)
Cleanup(S) ==
  /\ onAbort' = onAbort \ S
  /\ wire' = [c \in Calls |->
                IF c \in S /\ wire[c] # "none" THEN "destroyed" ELSE wire[c]]
  /\ socket' = [c \in Calls |->
                  IF c \in S /\ socket[c] # "none" THEN "destroyed" ELSE socket[c]]

SettleUnguarded(S, o) ==                                             \* mutant
  /\ outcome' = [c \in Calls |-> IF c \in S THEN o ELSE outcome[c]]
  /\ Cleanup(S)

(* fail and succeed: whoever comes first settles the call, and tears the   *)
(* connection down in the same step; the others find it settled.           *)
Settle(S, o) ==
  LET live == {c \in S : outcome[c] = "running"}
  IN /\ outcome' = [c \in Calls |-> IF c \in live THEN o ELSE outcome[c]]
     /\ Cleanup(live)

-----------------------------------------------------------------------------
(* The call itself.  With the signal already aborted it is rejected before *)
(* it opens anything.                                                      *)
FetchAborted(c) ==
  /\ aborted
  /\ outcome[c] = "idle"
  /\ outcome' = [outcome EXCEPT ![c] = "rejected"]
  /\ UNCHANGED <<socket, wire, onAbort, aborted, verifying, silent>>

FetchUnchecked(c) ==                                                 \* mutant
  /\ outcome[c] = "idle"
  /\ outcome' = [outcome EXCEPT ![c] = "running"]
  /\ onAbort' = onAbort \cup {c}
  /\ socket' = [socket EXCEPT ![c] = "connecting"]
  /\ UNCHANGED <<wire, aborted, verifying, silent>>

FetchConnects(c) ==
  /\ ~ aborted
  /\ outcome[c] = "idle"
  /\ outcome' = [outcome EXCEPT ![c] = "running"]
  /\ onAbort' = onAbort \cup {c}
  /\ socket' = [socket EXCEPT ![c] = "connecting"]
  /\ UNCHANGED <<wire, aborted, verifying, silent>>

Fetch(c) == FetchAborted(c) \/ FetchConnects(c)

(* 'connect': the wire is piped to the socket and the request is sent.     *)
SocketConnect(c) ==
  /\ socket[c] = "connecting"
  /\ c \notin silent
  /\ socket' = [socket EXCEPT ![c] = "open"]
  /\ wire' = [wire EXCEPT ![c] = "open"]
  /\ UNCHANGED <<onAbort, aborted, outcome, verifying, silent>>

SocketTimeoutOpenOnly(c) ==                                          \* mutant
  /\ socket[c] = "open"
  /\ Settle({c}, "rejected")
  /\ UNCHANGED <<aborted, verifying, silent>>

(* 'timeout': Node's idle timer, set when the socket is made, covers the   *)
(* connection attempt and the open connection.                             *)
SocketTimeout(c) ==
  /\ socket[c] \in {"connecting", "open"}
  /\ Settle({c}, "rejected")
  /\ UNCHANGED <<aborted, verifying, silent>>

(* 'error' of the socket: refused, unreachable, reset.                     *)
SocketError(c) ==
  /\ socket[c] \in {"connecting", "open"}
  /\ c \notin silent
  /\ Settle({c}, "rejected")
  /\ UNCHANGED <<aborted, verifying, silent>>

(* 'error' of the wire: the peer broke the protocol.                       *)
WireError(c) ==
  /\ wire[c] = "open"
  /\ socket[c] = "open"
  /\ c \notin silent
  /\ Settle({c}, "rejected")
  /\ UNCHANGED <<aborted, verifying, silent>>

(* The peer closes the connection in good order.  Node closes the socket   *)
(* and stops its idle timer; no handler of the call is registered for it.  *)
PeerCloses(c) ==
  /\ socket[c] = "open"
  /\ c \notin silent
  /\ socket' = [socket EXCEPT ![c] = "ended"]
  /\ UNCHANGED <<wire, onAbort, aborted, outcome, verifying, silent>>

(* The last piece arrives and ut_metadata starts to hash what it has.      *)
LastPiece(c) ==
  /\ socket[c] = "open"
  /\ wire[c] = "open"
  /\ c \notin silent
  /\ verifying' = verifying \cup {c}
  /\ UNCHANGED <<socket, wire, onAbort, aborted, outcome, silent>>

(* 'metadata': the hash is the infohash.  The verdict may come after the   *)
(* call has settled, since cleanup leaves ut_metadata's listeners in place. *)
Metadata(c) ==
  /\ c \in verifying
  /\ verifying' = verifying \ {c}
  /\ Settle({c}, "resolved")
  /\ UNCHANGED <<aborted, silent>>

(* 'warning': it is not.  The call goes on waiting.                        *)
Warning(c) ==
  /\ c \in verifying
  /\ verifying' = verifying \ {c}
  /\ UNCHANGED <<socket, wire, onAbort, aborted, outcome, silent>>

(* controller.abort() runs every registered listener in one step.          *)
Abort ==
  /\ ~ aborted
  /\ aborted' = TRUE
  /\ Settle(onAbort, "rejected")
  /\ UNCHANGED <<verifying, silent>>

(* Environment: the peer never answers or sends anything again.            *)
GoSilent(c) ==
  /\ socket[c] \in {"connecting", "open"}
  /\ silent' = silent \cup {c}
  /\ UNCHANGED <<socket, wire, onAbort, aborted, outcome, verifying>>

(* What happens to a call that has begun, without the caller's doing.      *)
Event(c) ==
  \/ SocketConnect(c)
  \/ SocketTimeout(c)
  \/ SocketError(c)
  \/ WireError(c)
  \/ PeerCloses(c)
  \/ LastPiece(c)
  \/ Metadata(c)
  \/ Warning(c)
  \/ GoSilent(c)

Next ==
  \/ \E c \in Calls : Fetch(c) \/ Event(c)
  \/ Abort

Spec == Init /\ [][Next]_vars

(* Node fires the idle timer of a connection on which nothing happens, and *)
(* the hash of assembled metadata is always computed.  Nothing is assumed  *)
(* of the peer or of the caller.                                           *)
Fairness ==
  \A c \in Calls :
    /\ WF_vars(c \in silent /\ SocketTimeout(c))
    /\ WF_vars(Metadata(c) \/ Warning(c))

FairSpec == Spec /\ Fairness

-----------------------------------------------------------------------------
(* A call that is not running holds no connection, no wire and no listener *)
(* on the shared signal: "this function never leaves a dangling connection *)
(* behind".                                                                *)
NoDanglingConnection ==
  \A c \in Calls :
    outcome[c] # "running" =>
      /\ socket[c] \in {"none", "destroyed"}
      /\ wire[c] \in {"none", "destroyed"}
      /\ c \notin onAbort

(* After the abort no call is left running, not even one that was made     *)
(* after it: a listener put on an aborted signal is never called.          *)
AbortSettlesAll ==
  aborted => \A c \in Calls : outcome[c] # "running"

(* The exchange is a scoped call: it settles once, with everything it held *)
(* released in the step that settles it.                                   *)
Holdings ==
  [c \in Calls |->
     (IF socket[c] \in {"connecting", "open", "ended"} THEN {"socket"} ELSE {})
       \cup (IF wire[c] = "open" THEN {"wire"} ELSE {})
       \cup (IF c \in onAbort THEN {"listener"} ELSE {})]

Scoped == INSTANCE ScopedCalls WITH
            Resources <- {"socket", "wire", "listener"},
            status <- outcome,
            held <- Holdings

ImplementsScopedCalls == Scoped!Spec

(* An exchange with a peer that goes silent, before or after it accepted   *)
(* the connection, is failed by the per-connection timeout.                *)
SilentPeerTimesOut ==
  \A c \in Calls :
    (c \in silent /\ outcome[c] = "running") ~> (outcome[c] # "running")

(* What the comment in the 'warning' handler says: the per-connection      *)
(* timeout fails the exchange if nothing else happens.  It does not when   *)
(* the peer has closed the connection, since a closed socket has no timer. *)
TimeoutFailsIdleExchange ==
  \A c \in Calls :
    (outcome[c] = "running" /\ (c \in silent \/ socket[c] = "ended"))
      ~> (outcome[c] # "running")

=============================================================================
