----------------------- MODULE MetadataExchange_proofs -----------------------
(***************************************************************************)
(* Theorems about MetadataExchange for any set of calls: the types, the    *)
(* two safety invariants and the refinement of ScopedCalls.                *)
(*                                                                         *)
(* The strengthening the invariants need: a call that runs has its abort   *)
(* listener registered, hence the abort reaches every call that runs; and  *)
(* a call that has not begun has opened nothing yet.                       *)
(***************************************************************************)
EXTENDS MetadataExchange, TLAPS

ListenerWhileRunning ==
  \A c \in Calls : outcome[c] = "running" => c \in onAbort

UntouchedWhileIdle ==
  \A c \in Calls : outcome[c] = "idle" => socket[c] = "none" /\ wire[c] = "none"

IInv ==
  /\ TypeOK
  /\ ListenerWhileRunning
  /\ UntouchedWhileIdle
  /\ NoDanglingConnection
  /\ AbortSettlesAll

(* What settling does to each call: it leaves it alone, or it settles it   *)
(* and leaves it with nothing.                                             *)
LEMMA SettleEffect ==
  ASSUME TypeOK, NEW S \in SUBSET Calls, NEW o \in {"resolved", "rejected"},
         Settle(S, o)
  PROVE  /\ socket' \in [Calls -> {"none", "connecting", "open", "ended", "destroyed"}]
         /\ wire' \in [Calls -> {"none", "open", "destroyed"}]
         /\ onAbort' \subseteq onAbort
         /\ outcome' \in [Calls -> {"idle", "running", "resolved", "rejected"}]
         /\ \A c \in Calls :
              IF c \in S /\ outcome[c] = "running"
                THEN /\ outcome'[c] = o
                     /\ socket'[c] \in {"none", "destroyed"}
                     /\ wire'[c] \in {"none", "destroyed"}
                     /\ c \notin onAbort'
                ELSE /\ outcome'[c] = outcome[c]
                     /\ socket'[c] = socket[c]
                     /\ wire'[c] = wire[c]
                     /\ c \in onAbort' <=> c \in onAbort
         /\ \A c \in Calls : wire'[c] # "none" => socket'[c] \notin {"none", "connecting"}
  BY DEF TypeOK, Settle, Cleanup

(* Settling some calls preserves the invariant.                            *)
LEMMA SettleInv ==
  ASSUME IInv, NEW S \in SUBSET Calls, NEW o \in {"resolved", "rejected"},
         Settle(S, o), aborted' = aborted,
         verifying' \subseteq verifying, silent' = silent
  PROVE  IInv'
  <1>1. TypeOK'
    BY SettleEffect DEF IInv, TypeOK
  <1>2. ListenerWhileRunning' /\ UntouchedWhileIdle'
    BY SettleEffect DEF IInv, ListenerWhileRunning, UntouchedWhileIdle
  <1>3. NoDanglingConnection'
    BY SettleEffect DEF IInv, NoDanglingConnection
  <1>4. AbortSettlesAll'
    BY SettleEffect DEF IInv, AbortSettlesAll
  <1> QED
    BY <1>1, <1>2, <1>3, <1>4 DEF IInv

LEMMA InitInv == Init => IInv
  BY DEF Init, IInv, TypeOK, ListenerWhileRunning, UntouchedWhileIdle,
         NoDanglingConnection, AbortSettlesAll

LEMMA FetchInv ==
  ASSUME IInv, NEW c \in Calls, Fetch(c)
  PROVE  IInv'
  <1>1. CASE FetchAborted(c)
    BY <1>1 DEF IInv, TypeOK, ListenerWhileRunning, UntouchedWhileIdle,
                NoDanglingConnection, AbortSettlesAll, FetchAborted
  <1>2. CASE FetchConnects(c)
    BY <1>2 DEF IInv, TypeOK, ListenerWhileRunning, UntouchedWhileIdle,
                NoDanglingConnection, AbortSettlesAll, FetchConnects
  <1> QED
    BY <1>1, <1>2 DEF Fetch

LEMMA EventInv ==
  ASSUME IInv, NEW c \in Calls, Event(c)
  PROVE  IInv'
  <1>1. CASE SocketConnect(c)
    \* the socket is connecting, so the call is running
    BY <1>1 DEF IInv, TypeOK, ListenerWhileRunning, UntouchedWhileIdle,
                NoDanglingConnection, AbortSettlesAll, SocketConnect
  <1>2. CASE SocketTimeout(c)
    BY <1>2, SettleInv DEF SocketTimeout
  <1>3. CASE SocketError(c)
    BY <1>3, SettleInv DEF SocketError
  <1>4. CASE WireError(c)
    BY <1>4, SettleInv DEF WireError
  <1>5. CASE PeerCloses(c)
    BY <1>5 DEF IInv, TypeOK, ListenerWhileRunning, UntouchedWhileIdle,
                NoDanglingConnection, AbortSettlesAll, PeerCloses
  <1>6. CASE LastPiece(c)
    BY <1>6 DEF IInv, TypeOK, ListenerWhileRunning, UntouchedWhileIdle,
                NoDanglingConnection, AbortSettlesAll, LastPiece
  <1>7. CASE Metadata(c)
    BY <1>7, SettleInv DEF Metadata
  <1>8. CASE Warning(c)
    BY <1>8 DEF IInv, TypeOK, ListenerWhileRunning, UntouchedWhileIdle,
                NoDanglingConnection, AbortSettlesAll, Warning
  <1>9. CASE GoSilent(c)
    BY <1>9 DEF IInv, TypeOK, ListenerWhileRunning, UntouchedWhileIdle,
                NoDanglingConnection, AbortSettlesAll, GoSilent
  <1> QED
    BY <1>1, <1>2, <1>3, <1>4, <1>5, <1>6, <1>7, <1>8, <1>9 DEF Event

LEMMA AbortInv ==
  ASSUME IInv, Abort
  PROVE  IInv'
  <1>1. /\ onAbort \in SUBSET Calls
        /\ Settle(onAbort, "rejected")
    BY DEF Abort, IInv, TypeOK
  <1>2. TypeOK'
    BY <1>1, SettleEffect DEF IInv, TypeOK, Abort
  <1>3. \A c \in Calls : outcome'[c] # "running"
    \* every running call has its listener on the signal
    BY <1>1, SettleEffect DEF IInv, ListenerWhileRunning
  <1>4. ListenerWhileRunning' /\ AbortSettlesAll'
    BY <1>3 DEF ListenerWhileRunning, AbortSettlesAll
  <1>5. NoDanglingConnection' /\ UntouchedWhileIdle'
    BY <1>1, SettleEffect DEF IInv, NoDanglingConnection, UntouchedWhileIdle
  <1> QED
    BY <1>2, <1>4, <1>5 DEF IInv

LEMMA NextInv == IInv /\ [Next]_vars => IInv'
  <1> SUFFICES ASSUME IInv, [Next]_vars
               PROVE  IInv'
    OBVIOUS
  <1>1. CASE \E c \in Calls : Fetch(c)
    BY <1>1, FetchInv
  <1>2. CASE \E c \in Calls : Event(c)
    BY <1>2, EventInv
  <1>3. CASE Abort
    BY <1>3, AbortInv
  <1>4. CASE UNCHANGED vars
    BY <1>4 DEF vars, IInv, TypeOK, ListenerWhileRunning,
                UntouchedWhileIdle, NoDanglingConnection, AbortSettlesAll
  <1> QED
    BY <1>1, <1>2, <1>3, <1>4 DEF Next

(* IInv is an inductive invariant of the specification.                    *)
THEOREM Inductive == Spec => []IInv
  BY InitInv, NextInv, PTL DEF Spec

(* Every variable keeps its type, for any set of calls.                    *)
THEOREM TypeCorrect == Spec => []TypeOK
  <1>1. IInv => TypeOK
    BY DEF IInv
  <1> QED
    BY <1>1, Inductive, PTL

(* fetchMetadataFromPeer "never leaves a dangling connection behind",      *)
(* however many calls share the signal.                                    *)
THEOREM NothingDangles == Spec => []NoDanglingConnection
  <1>1. IInv => NoDanglingConnection
    BY DEF IInv
  <1> QED
    BY <1>1, Inductive, PTL

(* The abort settles every call, whether made before or after it.          *)
THEOREM AbortReachesAll == Spec => []AbortSettlesAll
  <1>1. IInv => AbortSettlesAll
    BY DEF IInv
  <1> QED
    BY <1>1, Inductive, PTL

-----------------------------------------------------------------------------
(* A call whose observable state a step leaves alone is unmoved.           *)
LEMMA StillUnmoved ==
  ASSUME NEW c \in Calls, outcome'[c] = outcome[c], socket'[c] = socket[c],
         wire'[c] = wire[c], c \in onAbort' <=> c \in onAbort
  PROVE  Scoped!Unmoved(c)
  BY DEF Scoped!Unmoved, Holdings

(* A running call that goes on running has worked.                         *)
LEMMA StillRunning ==
  ASSUME NEW c \in Calls, outcome[c] = "running", outcome'[c] = "running"
  PROVE  Scoped!Work(c)
  BY DEF Scoped!Work, Holdings

(* A step that settles some calls is a step of the abstract calls.         *)
LEMMA SettleRefines ==
  ASSUME IInv, NEW S \in SUBSET Calls, NEW o \in {"resolved", "rejected"},
         Settle(S, o)
  PROVE  Scoped!Next
  <1>1. ASSUME NEW c \in Calls
        PROVE  Scoped!Unmoved(c) \/ Scoped!Settle(c)
    <2>1. CASE c \in S /\ outcome[c] = "running"
      <3>1. /\ outcome'[c] = o
            /\ socket'[c] \in {"none", "destroyed"}
            /\ wire'[c] \in {"none", "destroyed"}
            /\ c \notin onAbort'
        BY <2>1, SettleEffect DEF IInv
      <3>2. Holdings'[c] = {}
        BY <3>1 DEF Holdings
      <3> QED
        BY <2>1, <3>1, <3>2 DEF Scoped!Settle, Scoped!Settled
    <2>2. CASE ~ (c \in S /\ outcome[c] = "running")
      BY <2>2, SettleEffect, StillUnmoved DEF IInv
    <2> QED
      BY <2>1, <2>2
  <1>2. DOMAIN outcome' = Calls /\ DOMAIN Holdings' = Calls
    BY SettleEffect DEF IInv, Holdings
  <1> QED
    BY <1>1, <1>2 DEF Scoped!Next

LEMMA FetchRefines ==
  ASSUME IInv, NEW d \in Calls, Fetch(d)
  PROVE  Scoped!Next
  <1>1. DOMAIN outcome' = Calls /\ DOMAIN Holdings' = Calls
    BY DEF IInv, TypeOK, Holdings, Fetch, FetchAborted, FetchConnects
  <1>2. ASSUME NEW c \in Calls, c # d
        PROVE  Scoped!Unmoved(c)
    BY <1>2, StillUnmoved DEF IInv, TypeOK, Fetch, FetchAborted, FetchConnects
  <1>3. Scoped!Begin(d)
    <2>1. CASE FetchAborted(d)
      <3>1. /\ outcome[d] = "idle"
            /\ outcome'[d] = "rejected"
        BY <2>1 DEF FetchAborted, IInv, TypeOK
      <3>2. Holdings'[d] = {}
        BY <2>1 DEF FetchAborted, IInv, NoDanglingConnection, Holdings
      <3> QED
        BY <3>1, <3>2 DEF Scoped!Begin, Scoped!Settled
    <2>2. CASE FetchConnects(d)
      <3>1. /\ outcome[d] = "idle"
            /\ outcome'[d] = "running"
        BY <2>2 DEF FetchConnects, IInv, TypeOK
      <3>2. Holdings'[d] \in SUBSET {"socket", "wire", "listener"}
        BY DEF Holdings
      <3> QED
        BY <3>1, <3>2 DEF Scoped!Begin
    <2> QED
      BY <2>1, <2>2 DEF Fetch
  <1> QED
    BY <1>1, <1>2, <1>3 DEF Scoped!Next

(* The steps of a running call that do not settle it.                      *)
LEMMA WorkRefines ==
  ASSUME IInv, NEW d \in Calls,
         \/ SocketConnect(d) \/ PeerCloses(d) \/ LastPiece(d)
         \/ Warning(d) \/ GoSilent(d)
  PROVE  Scoped!Next
  <1>1. outcome' = outcome /\ onAbort' = onAbort
    BY DEF SocketConnect, PeerCloses, LastPiece, Warning, GoSilent
  <1>2. DOMAIN outcome' = Calls /\ DOMAIN Holdings' = Calls
    BY <1>1 DEF IInv, TypeOK, Holdings
  <1>3. ASSUME NEW c \in Calls
        PROVE  Scoped!Unmoved(c) \/ Scoped!Work(c)
    <2>1. CASE outcome[c] = "running"
      BY <1>1, <2>1, StillRunning
    <2>2. CASE outcome[c] # "running"
      \* its socket is neither connecting nor open, so it is not the one
      <3>1. socket'[c] = socket[c] /\ wire'[c] = wire[c]
        BY <2>2 DEF IInv, TypeOK, NoDanglingConnection, SocketConnect,
                    PeerCloses, LastPiece, Warning, GoSilent
      <3> QED
        BY <1>1, <3>1, StillUnmoved
    <2> QED
      BY <2>1, <2>2
  <1> QED
    BY <1>2, <1>3 DEF Scoped!Next

LEMMA NextRefines == IInv /\ [Next]_vars => [Scoped!Next]_(Scoped!vars)
  <1> SUFFICES ASSUME IInv, [Next]_vars
               PROVE  Scoped!Next \/ UNCHANGED Scoped!vars
    BY DEF Scoped!vars
  <1>1. CASE \E c \in Calls : Fetch(c)
    BY <1>1, FetchRefines
  <1>2. ASSUME NEW c \in Calls, Event(c)
        PROVE  Scoped!Next
    <2>1. CASE \/ SocketTimeout(c) \/ SocketError(c) \/ WireError(c)
               \/ Metadata(c)
      <3>1. \E o \in {"resolved", "rejected"} : Settle({c}, o)
        BY <2>1 DEF SocketTimeout, SocketError, WireError, Metadata
      <3> QED
        BY <3>1, SettleRefines
    <2>2. CASE \/ SocketConnect(c) \/ PeerCloses(c) \/ LastPiece(c)
               \/ Warning(c) \/ GoSilent(c)
      BY <2>2, WorkRefines
    <2> QED
      BY <1>2, <2>1, <2>2 DEF Event
  <1>3. CASE Abort
    BY <1>3, SettleRefines DEF Abort, IInv, TypeOK
  <1>4. CASE UNCHANGED vars
    BY <1>4 DEF vars, Scoped!vars, Holdings
  <1> QED
    BY <1>1, <1>2, <1>3, <1>4 DEF Next

(* fetchMetadataFromPeer implements a scoped call: it settles once and has *)
(* let go of socket, wire and listener in the step that settles it.        *)
THEOREM Refinement == Spec => ImplementsScopedCalls
  <1>1. Init => Scoped!Init
    BY DEF Init, Scoped!Init, Holdings
  <1> QED
    BY <1>1, NextRefines, Inductive, PTL DEF Spec, Scoped!Spec, ImplementsScopedCalls

-----------------------------------------------------------------------------
(* A running call with a silent peer has a connection, whose idle timer    *)
(* counts: it has not been closed under it.                                *)
SilentIsTimed ==
  \A c \in Calls :
    c \in silent /\ outcome[c] = "running" => socket[c] \in {"connecting", "open"}

(* What SilentPeerTimesOut rests upon: the idle timer of a call whose peer *)
(* has gone silent goes on counting for as long as the call runs.          *)
THEOREM SilenceTimed == Spec => []SilentIsTimed
  <1>1. Init => SilentIsTimed
    BY DEF Init, SilentIsTimed
  <1>2. IInv /\ SilentIsTimed /\ [Next]_vars => SilentIsTimed'
    <2> SUFFICES ASSUME IInv, SilentIsTimed, [Next]_vars
                 PROVE  SilentIsTimed'
      OBVIOUS
    <2>1. CASE \E c \in Calls : Fetch(c)
      BY <2>1 DEF IInv, TypeOK, SilentIsTimed, Fetch, FetchAborted, FetchConnects
    <2>2. ASSUME NEW S \in SUBSET Calls, NEW o \in {"resolved", "rejected"},
                 Settle(S, o), silent' = silent
          PROVE  SilentIsTimed'
      BY <2>2, SettleEffect DEF IInv, SilentIsTimed
    <2>3. CASE Abort
      BY <2>2, <2>3 DEF Abort, IInv, TypeOK
    <2>4. ASSUME NEW c \in Calls, Event(c)
          PROVE  SilentIsTimed'
      <3>1. CASE \/ SocketTimeout(c) \/ SocketError(c) \/ WireError(c)
                 \/ Metadata(c)
        BY <2>2, <3>1 DEF SocketTimeout, SocketError, WireError, Metadata
      <3>2. CASE \/ SocketConnect(c) \/ PeerCloses(c) \/ LastPiece(c)
                 \/ Warning(c) \/ GoSilent(c)
        BY <3>2 DEF IInv, TypeOK, SilentIsTimed, SocketConnect, PeerCloses,
                    LastPiece, Warning, GoSilent
      <3> QED
        BY <2>4, <3>1, <3>2 DEF Event
    <2>5. CASE UNCHANGED vars
      BY <2>5 DEF vars, SilentIsTimed
    <2> QED
      BY <2>1, <2>3, <2>4, <2>5 DEF Next
  <1> QED
    BY <1>1, <1>2, Inductive, PTL DEF Spec

=============================================================================
