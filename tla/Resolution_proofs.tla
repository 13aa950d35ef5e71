-------------------------- MODULE Resolution_proofs --------------------------
(***************************************************************************)
(* Theorems about Resolution for any calls, peers and budgets: its types,  *)
(* ReleasedOnceDecided, DialsDeduped, VerdictGenuine and OneExchangeWins;  *)
(* that it implements ScopedCalls; and that it implements its two parts,   *)
(* MetadataExchange and PeerDiscovery.                                     *)
(*                                                                         *)
(* The exchanges' own invariant and what their steps do to it come from    *)
(* MetadataExchange_proofs, instantiated as Exch.                          *)
(***************************************************************************)
EXTENDS Resolution, TLAPS

Exch == INSTANCE MetadataExchange_proofs

OwnTypeOK ==
  /\ Discovery!TypeOK
  /\ pc \in {"called", "identifying", "awaitDht", "racing", "parsing", "done"}
  /\ budget \in Budgets
  /\ elapsed \in 0 .. MaxElapsed
  /\ timer \in {"none", "armed", "fired", "cleared"}
  /\ jobs \subseteq Calls
  /\ race \in {"pending", "won", "expired"}
  /\ result \in {"none", "info", "timeout", "error"}
  /\ dials \subseteq Calls \X Peers
  /\ pc = "done" <=> result # "none"

(* Nothing is started before the DHT is there ...                          *)
NothingStarted ==
  pc \in {"called", "identifying", "awaitDht"} =>
    /\ \A c \in Calls : outcome[c] = "idle"
    /\ ~ dhtListener
    /\ dhtInterval = "none"
    /\ tracker = "none"
    /\ ~ destroyed
    /\ timer = "none"

(* ... and nothing runs after the race.                                    *)
NothingRuns ==
  pc \in {"parsing", "done"} =>
    /\ \A c \in Calls : outcome[c] # "running"
    /\ ~ dhtListener
    /\ dhtInterval # "armed"
    /\ tracker # "running"
    /\ timer # "armed"

(* Every dialled peer has been seen, and only the swarm's peers are.       *)
DialsSeen ==
  /\ \A d \in dials : d[2] \in seen
  /\ seen \subseteq Swarm

(* While the race is undecided, an exchange that has resolved has its      *)
(* callback queued; once the budget has won, none has resolved.            *)
WinsQueued ==
  /\ pc = "racing" /\ race = "pending" =>
       \A c \in Calls : outcome[c] = "resolved" => c \in jobs
  /\ race = "expired" =>
       /\ pc \in {"racing", "done"}
       /\ \A c \in Calls : outcome[c] # "resolved"
  /\ result = "timeout" => race = "expired"

(* The discovery lives exactly as long as the race does.                   *)
DiscoveryWhileRacing ==
  pc = "racing" => dhtInterval = "armed" /\ ~ destroyed

(* A queued callback is that of an exchange that has resolved, and only    *)
(* such a callback wins the race.                                          *)
WinsGenuine ==
  /\ \A c \in jobs : outcome[c] = "resolved"
  /\ race = "won" => \E c \in Calls : outcome[c] = "resolved"
  /\ pc = "parsing" \/ result = "info" => race = "won"

IInv ==
  /\ Exch!IInv
  /\ OwnTypeOK
  /\ NothingStarted
  /\ NothingRuns
  /\ DialsSeen
  /\ DialsDeduped
  /\ WinsQueued
  /\ DiscoveryWhileRacing
  /\ WinsGenuine
  /\ OneExchangeWins

-----------------------------------------------------------------------------
(* Exchange and Exch are the same module, so their actions are the same.   *)
LEMMA SameEvents ==
  ASSUME NEW c \in Calls, Exchange!Event(c)
  PROVE  Exch!Event(c)
  BY DEF Exchange!Event, Exch!Event,
       Exchange!SocketConnect, Exch!SocketConnect,
       Exchange!SocketTimeout, Exch!SocketTimeout,
       Exchange!SocketError, Exch!SocketError,
       Exchange!WireError, Exch!WireError,
       Exchange!PeerCloses, Exch!PeerCloses,
       Exchange!LastPiece, Exch!LastPiece,
       Exchange!Metadata, Exch!Metadata,
       Exchange!Warning, Exch!Warning,
       Exchange!GoSilent, Exch!GoSilent,
       Exchange!Settle, Exch!Settle, Exchange!Cleanup, Exch!Cleanup

(* What a step of an exchange can do to the outcomes: it starts nothing,   *)
(* and settles no exchange but itself, if it was running.                  *)
LEMMA EventOutcome ==
  ASSUME Exch!IInv, NEW c \in Calls, Exchange!Event(c)
  PROVE  /\ Exch!IInv'
         /\ \A d \in Calls :
              \/ outcome'[d] = outcome[d]
              \/ /\ d = c
                 /\ outcome[d] = "running"
                 /\ outcome'[d] \in {"resolved", "rejected"}
  <1>1. Exch!Event(c)
    BY SameEvents
  <1>2. Exch!IInv'
    BY <1>1, Exch!EventInv
  <1>3. \A d \in Calls :
          \/ outcome'[d] = outcome[d]
          \/ d = c /\ outcome[d] = "running" /\ outcome'[d] \in {"resolved", "rejected"}
    BY DEF Exchange!Event, Exchange!SocketConnect, Exchange!SocketTimeout,
           Exchange!SocketError, Exchange!WireError, Exchange!PeerCloses,
           Exchange!LastPiece, Exchange!Metadata, Exchange!Warning,
           Exchange!GoSilent, Exchange!Settle
  <1> QED
    BY <1>2, <1>3

LEMMA FetchOutcome ==
  ASSUME Exch!IInv, NEW c \in Calls, Exchange!Fetch(c)
  PROVE  /\ Exch!IInv'
         /\ \A d \in Calls :
              \/ outcome'[d] = outcome[d]
              \/ outcome[d] = "idle" /\ outcome'[d] \in {"running", "rejected"}
  <1>1. Exch!Fetch(c)
    BY DEF Exchange!Fetch, Exch!Fetch, Exchange!FetchAborted,
           Exch!FetchAborted, Exchange!FetchConnects, Exch!FetchConnects
  <1>2. Exch!IInv'
    BY <1>1, Exch!FetchInv
  <1>3. \A d \in Calls :
          \/ outcome'[d] = outcome[d]
          \/ outcome[d] = "idle" /\ outcome'[d] \in {"running", "rejected"}
    BY DEF Exch!IInv, Exch!TypeOK, Exchange!Fetch, Exchange!FetchAborted,
           Exchange!FetchConnects
  <1> QED
    BY <1>2, <1>3

LEMMA AbortOutcome ==
  ASSUME Exch!IInv, Exchange!Abort
  PROVE  /\ Exch!IInv'
         /\ \A d \in Calls :
              /\ outcome'[d] # "running"
              /\ \/ outcome'[d] = outcome[d]
                 \/ outcome[d] = "running" /\ outcome'[d] = "rejected"
  <1>1. Exch!Abort
    BY DEF Exchange!Abort, Exch!Abort, Exchange!Settle, Exch!Settle,
           Exchange!Cleanup, Exch!Cleanup
  <1>2. Exch!IInv'
    BY <1>1, Exch!AbortInv
  <1>3. \A d \in Calls : outcome'[d] # "running"
    BY <1>1, <1>2 DEF Exch!Abort, Exch!IInv, Exch!AbortSettlesAll
  <1>4. \A d \in Calls : \/ outcome'[d] = outcome[d]
                         \/ outcome[d] = "running" /\ outcome'[d] = "rejected"
    BY DEF Exchange!Abort, Exchange!Settle
  <1> QED
    BY <1>2, <1>3, <1>4

LEMMA ExchangeUnchanged ==
  ASSUME Exch!IInv, UNCHANGED exchangeVars
  PROVE  Exch!IInv'
  BY DEF exchangeVars, Exch!IInv, Exch!TypeOK, Exch!ListenerWhileRunning,
         Exch!UntouchedWhileIdle, Exch!NoDanglingConnection,
         Exch!AbortSettlesAll

-----------------------------------------------------------------------------
LEMMA InitInv == Init => IInv
  <1> SUFFICES ASSUME Init
               PROVE  IInv
    OBVIOUS
  <1>1. Exch!IInv
    BY DEF Init, Exchange!Init, Exch!IInv, Exch!TypeOK,
           Exch!ListenerWhileRunning, Exch!UntouchedWhileIdle,
           Exch!NoDanglingConnection, Exch!AbortSettlesAll
  <1>2. OwnTypeOK
    <2>1. elapsed \in 0 .. MaxElapsed
      BY ResolutionAssumption DEF ResolutionAssumption, Init
    <2>2. Discovery!TypeOK
      BY DEF Init, Discovery!Init, Discovery!TypeOK
    <2> QED
      BY <2>1, <2>2 DEF Init, OwnTypeOK
  <1>3. NothingStarted /\ NothingRuns /\ DialsSeen /\ DialsDeduped /\ WinsQueued
          /\ DiscoveryWhileRacing /\ WinsGenuine /\ OneExchangeWins
    BY DEF Init, Exchange!Init, Discovery!Init, NothingStarted, NothingRuns,
           DialsSeen, DialsDeduped, WinsQueued, DiscoveryWhileRacing, WinsGenuine,
           OneExchangeWins
  <1> QED
    BY <1>1, <1>2, <1>3 DEF IInv

(* Steps that change neither the exchanges nor the discovery.              *)
LEMMA OwnStepInv ==
  ASSUME IInv,
         UNCHANGED <<exchangeVars, discoveryVars>>,
         \/ Enter \/ DhtFails \/ Tick \/ TimerFires \/ Parse
         \/ \E c \in Calls : WinResolve(c)
  PROVE  IInv'
  <1> USE DEF IInv, exchangeVars, discoveryVars
  <1>1. Exch!IInv'
    BY ExchangeUnchanged
  <1>2. OwnTypeOK'
    BY ResolutionAssumption
       DEF ResolutionAssumption, OwnTypeOK, Discovery!TypeOK, Enter,
           ResolveInfoHash, ResolveMagnet, MagnetParsed, Validate, Refuse,
           DhtFails, Tick, TimerFires, Parse, WinResolve
  <1>3. NothingStarted' /\ NothingRuns'
    BY DEF NothingStarted, NothingRuns, Enter, ResolveInfoHash, ResolveMagnet,
           MagnetParsed, Validate, Refuse, DhtFails, Tick, TimerFires, Parse,
           WinResolve
  <1>4. DialsSeen' /\ DialsDeduped'
    BY DEF DialsSeen, DialsDeduped, Enter, ResolveInfoHash, ResolveMagnet,
           MagnetParsed, Validate, Refuse, DhtFails, Tick, TimerFires, Parse,
           WinResolve
  <1>5. WinsQueued'
    <2>1. CASE TimerFires
      \* the timer fires with no callback queued
      BY <2>1 DEF OwnTypeOK, WinsQueued, NothingStarted, NothingRuns,
                  TimerFires, Drained
    <2>2. CASE \E c \in Calls : WinResolve(c)
      BY <2>2 DEF OwnTypeOK, WinsQueued, NothingStarted, WinResolve
    <2>3. CASE Enter \/ DhtFails \/ Tick \/ Parse
      BY <2>3 DEF OwnTypeOK, WinsQueued, NothingStarted, Enter,
                  ResolveInfoHash, ResolveMagnet, MagnetParsed, Validate,
                  Refuse, DhtFails, Tick, Parse
    <2> QED
      BY <2>1, <2>2, <2>3
  <1>6. DiscoveryWhileRacing' /\ WinsGenuine'
    BY DEF OwnTypeOK, DiscoveryWhileRacing, WinsGenuine, Enter, ResolveInfoHash,
           ResolveMagnet, MagnetParsed, Validate, Refuse, DhtFails, Tick,
           TimerFires, Parse, WinResolve
  <1>7. OneExchangeWins'
    BY DEF OneExchangeWins
  <1> QED
    BY <1>1, <1>2, <1>3, <1>4, <1>5, <1>6, <1>7

LEMMA DhtReadyInv ==
  ASSUME IInv, DhtReady
  PROVE  IInv'
  <1> USE DEF IInv, DhtReady, discoveryVars, exchangeVars
  <1>1. Exch!IInv'
    BY ExchangeUnchanged
  <1>2. OwnTypeOK'
    BY DEF OwnTypeOK, Discovery!TypeOK, Discovery!Start
  <1>3. NothingStarted' /\ NothingRuns'
    BY DEF NothingStarted, NothingRuns
  <1>4. DialsSeen' /\ DialsDeduped'
    BY DEF DialsSeen, DialsDeduped, Discovery!Start
  <1>5. WinsQueued'
    BY DEF WinsQueued, NothingStarted
  <1>6. DiscoveryWhileRacing' /\ WinsGenuine'
    BY DEF DiscoveryWhileRacing, WinsGenuine, NothingStarted, Discovery!Start
  <1>7. OneExchangeWins'
    BY DEF OneExchangeWins
  <1> QED
    BY <1>1, <1>2, <1>3, <1>4, <1>5, <1>6, <1>7

(* A peer that is emitted was not seen before, and belongs to the swarm.   *)
LEMMA PeerFoundInv ==
  ASSUME IInv, NEW p \in Peers, PeerFound(p)
  PROVE  IInv'
  <1>1. /\ p \in Swarm
        /\ Discovery!EmitPeer(p)
        /\ dhtListener \/ tracker = "running"
    BY DEF PeerFound, Discovery!DhtPeer, Discovery!TrackerPeer, Discovery!TrackerPeers,
           Discovery!EmitPeer, Discovery!EmitPeers,
           Discovery!Accepts
  <1>2. pc = "racing" /\ Drained
    BY <1>1 DEF PeerFound, IInv, OwnTypeOK, NothingStarted, NothingRuns
  <1>3. \/ UNCHANGED <<dials, exchangeVars>>
        \/ /\ p \notin seen
           /\ \E c \in Calls : /\ Exchange!Fetch(c)
                               /\ dials' = dials \cup {<<c, p>>}
    BY DEF PeerFound, Dial, Discovery!Emits
  <1>4. /\ Exch!IInv'
        /\ \A d \in Calls :
              \/ outcome'[d] = outcome[d]
              \/ outcome[d] = "idle" /\ outcome'[d] \in {"running", "rejected"}
    <2>1. CASE UNCHANGED <<dials, exchangeVars>>
      BY <2>1, ExchangeUnchanged DEF IInv, exchangeVars
    <2>2. CASE \E c \in Calls : Exchange!Fetch(c)
      BY <2>2, FetchOutcome DEF IInv
    <2> QED
      BY <1>3, <2>1, <2>2
  <1>5. OwnTypeOK'
    BY <1>1, <1>3
       DEF IInv, OwnTypeOK, PeerFound, Discovery!TypeOK, Discovery!EmitPeer,
           Discovery!EmitPeers
  <1>6. NothingStarted' /\ NothingRuns'
    BY <1>2 DEF PeerFound, NothingStarted, NothingRuns
  <1>7. DialsSeen' /\ DialsDeduped'
    BY <1>1, <1>3
       DEF IInv, OwnTypeOK, DialsSeen, DialsDeduped, Discovery!EmitPeer,
           Discovery!EmitPeers
  <1>8. WinsQueued'
    BY <1>2, <1>4 DEF IInv, OwnTypeOK, WinsQueued, PeerFound, Drained
  <1>9. DiscoveryWhileRacing' /\ WinsGenuine'
    BY <1>1, <1>4 DEF IInv, OwnTypeOK, DiscoveryWhileRacing, WinsGenuine, PeerFound,
                      Discovery!EmitPeer, Discovery!EmitPeers
  <1>10. OneExchangeWins'
    BY <1>4 DEF IInv, OneExchangeWins
  <1> QED
    BY <1>4, <1>5, <1>6, <1>7, <1>8, <1>9, <1>10 DEF IInv

LEMMA DiscoveryRunsInv ==
  ASSUME IInv, DiscoveryRuns
  PROVE  IInv'
  <1> USE DEF IInv, DiscoveryRuns, ownVars
  <1>1. Exch!IInv'
    BY ExchangeUnchanged
  <1>2. UNCHANGED <<seen, dhtListener, dhtInterval, tracker, destroyed>>
        /\ lookup' \in BOOLEAN
    BY DEF Discovery!Relookup, Discovery!LookupEnds
  <1>3. OwnTypeOK'
    BY <1>2 DEF OwnTypeOK, Discovery!TypeOK
  <1>4. /\ NothingStarted' /\ NothingRuns' /\ DialsSeen' /\ DialsDeduped'
        /\ WinsQueued' /\ DiscoveryWhileRacing' /\ WinsGenuine' /\ OneExchangeWins'
    BY <1>2 DEF NothingStarted, NothingRuns, DialsSeen, DialsDeduped, WinsQueued,
                DiscoveryWhileRacing, WinsGenuine, OneExchangeWins, exchangeVars
  <1> QED
    BY <1>1, <1>3, <1>4

(* An exchange that resolves while the race is undecided gets its callback *)
(* queued; before and after the race none can resolve.  It is the first:   *)
(* an earlier one's callback would have run before this event.             *)
LEMMA ExchangeRunsInv ==
  ASSUME IInv, NEW c \in Calls, ExchangeRuns(c)
  PROVE  IInv'
  <1>1. /\ Exch!IInv'
        /\ \A d \in Calls :
              \/ outcome'[d] = outcome[d]
              \/ /\ d = c
                 /\ outcome[d] = "running"
                 /\ outcome'[d] \in {"resolved", "rejected"}
    BY EventOutcome DEF IInv, ExchangeRuns
  <1>2. OwnTypeOK'
    BY DEF IInv, ExchangeRuns, OwnTypeOK, Discovery!TypeOK, discoveryVars
  <1>3. NothingStarted' /\ NothingRuns'
    BY <1>1 DEF IInv, ExchangeRuns, NothingStarted, NothingRuns, discoveryVars
  <1>4. DialsSeen' /\ DialsDeduped'
    BY DEF IInv, ExchangeRuns, DialsSeen, DialsDeduped, discoveryVars
  <1>5. WinsQueued'
    BY <1>1 DEF IInv, ExchangeRuns, WinsQueued, NothingRuns, Drained
  <1>6. DiscoveryWhileRacing' /\ WinsGenuine'
    BY <1>1 DEF IInv, ExchangeRuns, DiscoveryWhileRacing, WinsGenuine, discoveryVars
  <1>7. OneExchangeWins'
    <2>1. CASE outcome[c] = "running"
      <3>1. pc = "racing" /\ race = "pending" /\ jobs = {}
        BY <2>1 DEF IInv, OwnTypeOK, NothingStarted, NothingRuns, ExchangeRuns, Drained
      <3>2. \A d \in Calls : outcome[d] # "resolved"
        BY <3>1 DEF IInv, WinsQueued
      <3> QED
        BY <1>1, <3>2 DEF OneExchangeWins
    <2>2. CASE outcome[c] # "running"
      BY <1>1, <2>2 DEF IInv, OneExchangeWins
    <2> QED
      BY <2>1, <2>2
  <1> QED
    BY <1>1, <1>2, <1>3, <1>4, <1>5, <1>6, <1>7 DEF IInv

LEMMA TeardownInv ==
  ASSUME IInv, Teardown
  PROVE  IInv'
  <1>1. /\ Exch!IInv'
        /\ \A d \in Calls :
              /\ outcome'[d] # "running"
              /\ \/ outcome'[d] = outcome[d]
                 \/ outcome[d] = "running" /\ outcome'[d] = "rejected"
    BY AbortOutcome DEF IInv, Teardown
  <1>2. OwnTypeOK'
    BY DEF IInv, Teardown, OwnTypeOK, Discovery!TypeOK, Discovery!Destroy
  <1>3. NothingStarted' /\ NothingRuns'
    BY <1>1 DEF IInv, Teardown, OwnTypeOK, NothingStarted, NothingRuns,
                Discovery!Destroy
  <1>4. DialsSeen' /\ DialsDeduped'
    BY DEF IInv, Teardown, DialsSeen, DialsDeduped, Discovery!Destroy
  <1>5. WinsQueued'
    BY <1>1 DEF IInv, OwnTypeOK, Teardown, WinsQueued
  <1>6. DiscoveryWhileRacing' /\ WinsGenuine'
    BY <1>1 DEF IInv, OwnTypeOK, Teardown, DiscoveryWhileRacing, WinsGenuine
  <1>7. OneExchangeWins'
    BY <1>1 DEF IInv, OneExchangeWins
  <1> QED
    BY <1>1, <1>2, <1>3, <1>4, <1>5, <1>6, <1>7 DEF IInv

LEMMA NextInv == IInv /\ [Next]_vars => IInv'
  <1> SUFFICES ASSUME IInv, [Next]_vars
               PROVE  IInv'
    OBVIOUS
  <1>1. CASE \/ Enter \/ DhtFails \/ Tick \/ TimerFires \/ Parse
             \/ \E c \in Calls : WinResolve(c)
    BY <1>1, OwnStepInv
       DEF Enter, ResolveInfoHash, ResolveMagnet, MagnetParsed, Validate,
           Refuse, DhtFails, Tick, TimerFires, Parse, WinResolve
  <1>2. CASE DhtReady
    BY <1>2, DhtReadyInv
  <1>3. CASE \E p \in Peers : PeerFound(p)
    BY <1>3, PeerFoundInv
  <1>4. CASE DiscoveryRuns
    BY <1>4, DiscoveryRunsInv
  <1>5. CASE \E c \in Calls : ExchangeRuns(c)
    BY <1>5, ExchangeRunsInv
  <1>6. CASE Teardown
    BY <1>6, TeardownInv
  <1>7. CASE UNCHANGED vars
    <2>1. Exch!IInv'
      BY <1>7, ExchangeUnchanged DEF IInv, vars
    <2>2. OwnTypeOK'
      BY <1>7 DEF IInv, vars, discoveryVars, ownVars, OwnTypeOK, Discovery!TypeOK
    <2>3. /\ NothingStarted' /\ NothingRuns' /\ DialsSeen' /\ DialsDeduped'
          /\ WinsQueued' /\ DiscoveryWhileRacing' /\ WinsGenuine' /\ OneExchangeWins'
      BY <1>7 DEF IInv, vars, exchangeVars, discoveryVars, ownVars,
                  NothingStarted, NothingRuns, DialsSeen, DialsDeduped, WinsQueued,
                  DiscoveryWhileRacing, WinsGenuine, OneExchangeWins
    <2> QED
      BY <2>1, <2>2, <2>3 DEF IInv
  <1> QED
    BY <1>1, <1>2, <1>3, <1>4, <1>5, <1>6, <1>7 DEF Next

(* IInv is an inductive invariant of the specification.                    *)
THEOREM Inductive == Spec => []IInv
  BY InitInv, NextInv, PTL DEF Spec

(* Every variable keeps its type, for any calls, peers and budgets.        *)
THEOREM TypeCorrect == Spec => []TypeOK
  <1>1. IInv => TypeOK
    BY DEF IInv, OwnTypeOK, TypeOK, Exch!IInv, Exch!TypeOK, Exchange!TypeOK
  <1> QED
    BY <1>1, Inductive, PTL

(* Whichever way the race is decided, the resolution has let go of every   *)
(* connection, listener and timer when it goes on to parse or to throw.    *)
THEOREM Released == Spec => []ReleasedOnceDecided
  <1>1. IInv => ReleasedOnceDecided
    <2> SUFFICES ASSUME IInv, pc \in {"parsing", "done"}
                 PROVE  ReleasedOnceDecided
      BY DEF ReleasedOnceDecided
    <2>1. \A c \in Calls : /\ outcome[c] # "running"
                           /\ socket[c] \in {"none", "destroyed"}
                           /\ wire[c] \in {"none", "destroyed"}
                           /\ c \notin onAbort
      BY DEF IInv, NothingRuns, Exch!IInv, Exch!NoDanglingConnection
    <2>2. onAbort = {}
      BY <2>1 DEF IInv, Exch!IInv, Exch!TypeOK
    <2> QED
      BY <2>1, <2>2 DEF IInv, NothingRuns, ReleasedOnceDecided
  <1> QED
    BY <1>1, Inductive, PTL

(* No peer is dialled twice and only the swarm's peers are dialled.        *)
THEOREM Deduped == Spec => []DialsDeduped
  <1>1. IInv => DialsDeduped
    BY DEF IInv
  <1> QED
    BY <1>1, Inductive, PTL

(* The timeout error is thrown only when no exchange has resolved, and     *)
(* only what an exchange has resolved with is parsed and returned.         *)
THEOREM Genuine == Spec => []VerdictGenuine
  <1>1. IInv => VerdictGenuine
    BY DEF IInv, WinsQueued, WinsGenuine, VerdictGenuine
  <1> QED
    BY <1>1, Inductive, PTL

(* At most one exchange ever wins, however many are hashing at once when   *)
(* the first is verified.                                                  *)
THEOREM OneWinner == Spec => []OneExchangeWins
  <1>1. IInv => OneExchangeWins
    BY DEF IInv
  <1> QED
    BY <1>1, Inductive, PTL

(* A resolution is a scoped call: it begins once, settles once, and what   *)
(* it opened is released before the step that settles it is over.          *)
THEOREM Refinement == Spec => ImplementsScopedCalls
  <1> USE DEF Scoped!Settled, Resolving
  <1>1. Init => Scoped!Init
    BY DEF Init, Exchange!Init, Discovery!Init, Scoped!Init, Status, Holdings
  <1>2. IInv /\ IInv' /\ [Next]_vars => [Scoped!Next]_(Scoped!vars)
    <2> SUFFICES ASSUME IInv, IInv', [Next]_vars
                 PROVE  Scoped!Next
      OBVIOUS
    <2> DEFINE held == Holdings["resolution"]
               status == Status["resolution"]
    <2>1. DOMAIN Status' = Resolving /\ DOMAIN Holdings' = Resolving
      BY DEF Status, Holdings
    <2>2. held' \in SUBSET {"exchange", "dht", "tracker", "timer"}
      BY DEF Holdings
    <2>3. /\ pc \in {"called", "done"} => held = {}
          /\ pc' \in {"called", "done"} => held' = {}
      BY DEF Holdings, IInv, NothingStarted, NothingRuns
    <2>4. /\ status = IF pc = "called" THEN "idle" ELSE
                      IF pc # "done" THEN "running" ELSE
                      IF result = "info" THEN "resolved" ELSE "rejected"
          /\ status' = IF pc' = "called" THEN "idle" ELSE
                       IF pc' # "done" THEN "running" ELSE
                       IF result' = "info" THEN "resolved" ELSE "rejected"
      BY DEF Status
    <2>5. \/ pc = "called" /\ pc' # "called"
          \/ pc \notin {"called", "done"} /\ pc' # "called"
          \/ pc \in {"called", "done"} /\ UNCHANGED <<pc, result>>
      BY DEF IInv, OwnTypeOK, vars, ownVars, Next, Enter, ResolveInfoHash,
             ResolveMagnet, MagnetParsed, Validate, Refuse, DhtFails,
             DhtReady, PeerFound, DiscoveryRuns, ExchangeRuns, WinResolve,
             Tick, TimerFires, Teardown, Parse
    <2>6. \/ Scoped!Unmoved("resolution") \/ Scoped!Begin("resolution")
          \/ Scoped!Work("resolution") \/ Scoped!Settle("resolution")
      <3>1. CASE pc = "called" /\ pc' # "called"
        BY <2>2, <2>3, <2>4, <3>1 DEF Scoped!Begin
      <3>2. CASE pc \notin {"called", "done"} /\ pc' # "called"
        BY <2>2, <2>3, <2>4, <3>2 DEF Scoped!Work, Scoped!Settle
      <3>3. CASE pc \in {"called", "done"} /\ UNCHANGED <<pc, result>>
        BY <2>3, <2>4, <3>3 DEF Scoped!Unmoved
      <3> QED
        BY <2>5, <3>1, <3>2, <3>3
    <2> QED
      BY <2>1, <2>6 DEF Scoped!Next
  <1> QED
    BY Inductive, <1>1, <1>2, PTL DEF Spec, ImplementsScopedCalls, Scoped!Spec

-----------------------------------------------------------------------------
(* Every step of the resolution is a step of its exchanges, and one that   *)
(* fetchMetadataFromPeer can make, or leaves them alone.                   *)
LEMMA ExchangeSteps == [Next]_vars => [Exch!Next]_(Exch!vars)
  <1> SUFFICES ASSUME Next, ~ UNCHANGED exchangeVars
               PROVE  Exch!Next
    BY DEF vars, exchangeVars, Exch!vars
  <1>1. CASE \E p \in Peers : PeerFound(p)
    <2>1. PICK c \in Calls : Exchange!Fetch(c)
      BY <1>1 DEF PeerFound, Dial
    <2>2. Exch!Fetch(c)
      BY <2>1 DEF Exchange!Fetch, Exch!Fetch, Exchange!FetchAborted,
                  Exch!FetchAborted, Exchange!FetchConnects, Exch!FetchConnects
    <2> QED
      BY <2>2 DEF Exch!Next
  <1>2. CASE \E c \in Calls : ExchangeRuns(c)
    <2>1. PICK c \in Calls : Exchange!Event(c)
      BY <1>2 DEF ExchangeRuns
    <2>2. Exch!Event(c)
      BY <2>1, SameEvents
    <2> QED
      BY <2>2 DEF Exch!Next
  <1>3. CASE Teardown
    BY <1>3 DEF Teardown, Exch!Next, Exchange!Abort, Exch!Abort, Exchange!Settle,
                Exch!Settle, Exchange!Cleanup, Exch!Cleanup
  <1>4. CASE \/ Enter \/ DhtFails \/ DhtReady \/ DiscoveryRuns \/ Tick
             \/ TimerFires \/ Parse \/ \E c \in Calls : WinResolve(c)
    BY <1>4 DEF Enter, DhtFails, DhtReady, DiscoveryRuns, Tick, TimerFires, Parse,
                WinResolve
  <1> QED
    BY <1>1, <1>2, <1>3, <1>4 DEF Next

(* A resolution runs the exchanges as MetadataExchange describes them: the *)
(* way it calls and aborts them is among those that module allows.         *)
THEOREM RunsExchanges == Spec => Exch!Spec
  <1>1. Init => Exch!Init
    BY DEF Init, Exchange!Init, Exch!Init
  <1> QED
    BY <1>1, ExchangeSteps, PTL DEF Spec, Exch!Spec

(* So each of its exchanges settles at most once and holds nothing then,   *)
(* whatever the discovery and the race do.                                 *)
THEOREM ExchangesScoped == Spec => Exch!ImplementsScopedCalls
  BY RunsExchanges, Exch!Refinement

(* A resolution runs its discovery as PeerDiscovery describes it: started  *)
(* once, destroyed once, and only after it has been started.               *)
THEOREM RunsDiscovery == Spec => Discovery!Spec
  <1>1. Init => Discovery!Init
    BY DEF Init
  <1>2. IInv /\ [Next]_vars => [Discovery!Next]_(Discovery!vars)
    <2> SUFFICES ASSUME IInv, Next, ~ UNCHANGED discoveryVars
                 PROVE  Discovery!Next
      BY DEF vars, discoveryVars, Discovery!vars
    <2>1. CASE DhtReady
      BY <2>1 DEF DhtReady, Discovery!Next
    <2>2. ASSUME NEW p \in Peers, PeerFound(p)
          PROVE  Discovery!Next
      <3>1. CASE Discovery!DhtPeer(p)
        BY <3>1 DEF Discovery!Next
      <3>2. CASE Discovery!TrackerPeer(p)
        <4>1. Discovery!TrackerPeers({p}) /\ {p} \in SUBSET Swarm
          BY <3>2 DEF Discovery!TrackerPeer, Discovery!TrackerPeers
        <4> QED
          BY <4>1 DEF Discovery!Next
      <3> QED
        BY <2>2, <3>1, <3>2 DEF PeerFound
    <2>3. CASE DiscoveryRuns
      BY <2>3 DEF DiscoveryRuns, Discovery!Next
    <2>4. CASE Teardown
      BY <2>4 DEF Teardown, Discovery!Next, IInv, DiscoveryWhileRacing
    <2>5. CASE \/ Enter \/ DhtFails \/ Tick \/ TimerFires \/ Parse
               \/ \E c \in Calls : ExchangeRuns(c) \/ WinResolve(c)
      BY <2>5 DEF Enter, DhtFails, Tick, TimerFires, Parse, ExchangeRuns, WinResolve
    <2> QED
      BY <2>1, <2>2, <2>3, <2>4, <2>5 DEF Next
  <1> QED
    BY <1>1, <1>2, Inductive, PTL DEF Spec, Discovery!Spec

-----------------------------------------------------------------------------
(* What RacingEnds rests upon.  As long as the race is undecided the       *)
(* budget's timer is armed, whatever peers, exchanges and lookups do, and  *)
(* no step puts it off: the budget is fixed and time only moves on.  So    *)
(* the one event that needs nobody's cooperation is always to come.        *)
THEOREM TimerWhileUndecided ==
  Spec => /\ [](pc = "racing" /\ race = "pending" => timer = "armed")
          /\ [][budget' = budget /\ elapsed' >= elapsed]_vars
  <1> DEFINE Armed == pc = "racing" /\ race = "pending" => timer = "armed"
  <1>1. Init => Armed
    BY DEF Init
  <1>2. Armed /\ [Next]_vars => Armed'
    <2> SUFFICES ASSUME Armed, [Next]_vars
                 PROVE  Armed'
      OBVIOUS
    <2>1. CASE Enter \/ DhtFails \/ DhtReady \/ Teardown \/ Parse
      BY <2>1 DEF Enter, ResolveInfoHash, ResolveMagnet, MagnetParsed, Validate,
                  Refuse, DhtFails, DhtReady, Teardown, Parse
    <2>2. CASE Tick \/ TimerFires \/ \E c \in Calls : WinResolve(c)
      BY <2>2 DEF Tick, TimerFires, WinResolve
    <2>3. CASE \/ \E p \in Peers : PeerFound(p)
               \/ \E c \in Calls : ExchangeRuns(c)
               \/ DiscoveryRuns \/ UNCHANGED vars
      BY <2>3 DEF PeerFound, ExchangeRuns, DiscoveryRuns, vars, ownVars
    <2> QED
      BY <2>1, <2>2, <2>3 DEF Next
  <1>3. IInv /\ [Next]_vars => [budget' = budget /\ elapsed' >= elapsed]_vars
    <2> SUFFICES ASSUME IInv, Next
                 PROVE  budget' = budget /\ elapsed' >= elapsed
      OBVIOUS
    <2>1. elapsed \in Nat
      BY ResolutionAssumption DEF IInv, OwnTypeOK
    <2>2. budget' = budget /\ (elapsed' = elapsed \/ elapsed' = elapsed + 1)
      BY DEF Next, Enter, DhtFails, DhtReady, PeerFound, DiscoveryRuns, ownVars,
             ExchangeRuns, WinResolve, Tick, TimerFires, Teardown, Parse
    <2> QED
      BY <2>1, <2>2
  <1> QED
    BY <1>1, <1>2, <1>3, Inductive, PTL DEF Spec

=============================================================================
