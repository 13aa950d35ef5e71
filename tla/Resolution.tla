----------------------------- MODULE Resolution -----------------------------
(***************************************************************************)
(* resolveMagnet, resolveInfoHash and the resolveByInfoHash they share     *)
(* (resolve-magnet.js): one resolution. It waits for the shared DHT,       *)
(* starts a PeerDiscovery, dials every peer it emits with                  *)
(* fetchMetadataFromPeer and races the first metadata against its budget.  *)
(*                                                                         *)
(* Composes PeerDiscovery and MetadataExchange, whose variables are its    *)
(* own.  Node drains the promise callbacks of one event before the next    *)
(* event: an event is taken only when Drained holds.                       *)
(***************************************************************************)
EXTENDS Naturals

CONSTANTS Calls,      \* the calls to fetchMetadataFromPeer
          Peers,      \* the peers the DHT and the trackers know
          Swarm,      \* those of them that have the infohash
          Budgets,    \* the values of timeoutSeconds callers pass
          MaxElapsed  \* bound on the seconds counted after the race began

ASSUME ResolutionAssumption ==
  /\ Swarm \subseteq Peers
  /\ Budgets \subseteq Nat
  /\ MaxElapsed \in Nat

VARIABLES
  socket, wire, onAbort, aborted, outcome, verifying, silent,
  seen, dhtListener, dhtInterval, tracker, destroyed, lookup,
  pc,       \* "called", "identifying", "awaitDht", "racing",
            \* "parsing", "done"
  budget,   \* timeoutSeconds
  elapsed,  \* whole seconds since the race began, up to MaxElapsed
  timer,    \* the budget's timer: "none", "armed", "fired", "cleared"
  jobs,     \* the resolved exchanges whose then-callback is queued
  race,     \* Promise.race: "pending", "won", "expired"
  result,   \* "none", "info", "timeout", "error"
  dials     \* <<call, peer>> for every exchange made

exchangeVars == <<socket, wire, onAbort, aborted, outcome, verifying, silent>>
discoveryVars == <<seen, dhtListener, dhtInterval, tracker, destroyed, lookup>>
ownVars == <<pc, budget, elapsed, timer, jobs, race, result, dials>>
vars == <<exchangeVars, discoveryVars, ownVars>>

Exchange == INSTANCE MetadataExchange
Discovery == INSTANCE PeerDiscovery

(* The types; and a resolution is done when it has a result.               *)
TypeOK ==
  /\ Exchange!TypeOK
  /\ Discovery!TypeOK
  /\ pc \in {"called", "identifying", "awaitDht", "racing", "parsing", "done"}
  /\ budget \in Budgets
  /\ elapsed \in 0 .. MaxElapsed
  /\ timer \in {"none", "armed", "fired", "cleared"}
  /\ jobs \subseteq Calls
  /\ race \in {"pending", "won", "expired"}
  /\ result \in {"none", "info", "timeout", "error"}
  /\ dials \subseteq Calls \X Peers
  /\ pc = "done" <=> result # "none"

Init ==
  /\ Exchange!Init
  /\ Discovery!Init
  /\ pc = "called"
  /\ budget \in Budgets
  /\ elapsed = 0
  /\ timer = "none"
  /\ jobs = {}
  /\ race = "pending"
  /\ result = "none"
  /\ dials = {}

-----------------------------------------------------------------------------
(* Everything a previous event has queued has run.                         *)
Drained == jobs = {} /\ ~ (pc = "racing" /\ race # "pending")

(* setTimeout takes a 32-bit signed number of milliseconds and replaces a  *)
(* larger one by 1: the seconds after which the timer of budget t is due.  *)
MaxTimerSeconds == 2147483

Due(t) == IF t > MaxTimerSeconds THEN 0 ELSE t

-----------------------------------------------------------------------------
(* The input or an option is refused before anything is opened.            *)
Refuse == pc' = "done" /\ result' = "error"

(* assertValidTimeoutSeconds: finite and positive.                         *)
Validate ==
  IF budget > 0 THEN pc' = "awaitDht" /\ UNCHANGED result ELSE Refuse

(* resolveInfoHash: 40 hexadecimal digits and a tracker, or nothing.       *)
ResolveInfoHash == pc = "called" /\ (Refuse \/ Validate)

(* resolveMagnet awaits parseTorrent, which may reject, and goes on in the *)
(* same way.                                                               *)
ResolveMagnet == pc = "called" /\ pc' = "identifying" /\ UNCHANGED result

MagnetParsed == pc = "identifying" /\ (Refuse \/ Validate)

(* resolve takes one of the two, or refuses what is neither.               *)
Enter ==
  /\ ResolveInfoHash \/ ResolveMagnet \/ MagnetParsed
  /\ UNCHANGED <<budget, elapsed, timer, jobs, race, dials>>
  /\ UNCHANGED <<exchangeVars, discoveryVars>>

(* getSharedDht rejects, or dht.address() throws because the DHT it gave   *)
(* has been destroyed since: the error goes to the caller as it is.        *)
DhtFails ==
  /\ pc = "awaitDht"
  /\ pc' = "done"
  /\ result' = "error"
  /\ UNCHANGED <<budget, elapsed, timer, jobs, race, dials>>
  /\ UNCHANGED <<exchangeVars, discoveryVars>>

DhtReadyUntimed ==                                                   \* mutant
  /\ pc = "awaitDht"
  /\ pc' = "racing"
  /\ timer' = "none"
  /\ Discovery!Start
  /\ UNCHANGED <<budget, elapsed, jobs, race, result, dials>>
  /\ UNCHANGED exchangeVars

(* The rest up to the next await runs in one step: the discovery is        *)
(* started and the budget's timer armed.                                   *)
DhtReady ==
  /\ pc = "awaitDht"
  /\ pc' = "racing"
  /\ timer' = "armed"
  /\ Discovery!Start
  /\ UNCHANGED <<budget, elapsed, jobs, race, result, dials>>
  /\ UNCHANGED exchangeVars

(* The 'peer' handler: nothing once aborted, otherwise a new exchange.     *)
Dial(p) ==
  IF aborted
    THEN UNCHANGED <<dials, exchangeVars>>
    ELSE \E c \in Calls : Exchange!Fetch(c) /\ dials' = dials \cup {<<c, p>>}

PeerFound(p) ==
  /\ Drained
  /\ Discovery!DhtPeer(p) \/ Discovery!TrackerPeer(p)
  /\ IF Discovery!Emits(p) THEN Dial(p) ELSE UNCHANGED <<dials, exchangeVars>>
  /\ UNCHANGED <<pc, budget, elapsed, timer, jobs, race, result>>

DiscoveryRuns ==
  /\ Drained
  /\ Discovery!Relookup \/ Discovery!LookupEnds
  /\ UNCHANGED <<exchangeVars, ownVars>>

(* An exchange moves on its own.  When it resolves, its then-callback is   *)
(* queued; when it is rejected, the catch-callback does nothing.           *)
ExchangeRuns(c) ==
  /\ Drained
  /\ Exchange!Event(c)
  /\ jobs' = {d \in Calls : outcome[d] # "resolved" /\ outcome'[d] = "resolved"}
  /\ UNCHANGED <<pc, budget, elapsed, timer, race, result, dials>>
  /\ UNCHANGED discoveryVars

WinDropped(c) ==                                                     \* mutant
  /\ c \in jobs
  /\ jobs' = jobs \ {c}
  /\ UNCHANGED <<pc, budget, elapsed, timer, race, result, dials>>
  /\ UNCHANGED <<exchangeVars, discoveryVars>>

(* then(winResolve): the first one resolves the winner and the race.       *)
WinResolve(c) ==
  /\ c \in jobs
  /\ jobs' = jobs \ {c}
  /\ race' = IF race = "pending" THEN "won" ELSE race
  /\ UNCHANGED <<pc, budget, elapsed, timer, result, dials>>
  /\ UNCHANGED <<exchangeVars, discoveryVars>>

(* Time passes while the race is on.                                       *)
Tick ==
  /\ Drained
  /\ pc = "racing"
  /\ elapsed < MaxElapsed
  /\ elapsed' = elapsed + 1
  /\ UNCHANGED <<pc, budget, timer, jobs, race, result, dials>>
  /\ UNCHANGED <<exchangeVars, discoveryVars>>

(* The budget's timer rejects timeoutPromise.                              *)
TimerFires ==
  /\ Drained
  /\ timer = "armed"
  /\ elapsed >= Due(budget)
  /\ timer' = "fired"
  /\ race' = IF race = "pending" THEN "expired" ELSE race
  /\ UNCHANGED <<pc, budget, elapsed, jobs, result, dials>>
  /\ UNCHANGED <<exchangeVars, discoveryVars>>

TeardownKeepsExchanges ==                                            \* mutant
  /\ pc = "racing"
  /\ race # "pending"
  /\ timer' = IF timer = "armed" THEN "cleared" ELSE timer
  /\ UNCHANGED exchangeVars
  /\ Discovery!Destroy
  /\ IF race = "won"
       THEN pc' = "parsing" /\ UNCHANGED result
       ELSE pc' = "done" /\ result' = "timeout"
  /\ UNCHANGED <<budget, elapsed, jobs, race, dials>>

TeardownKeepsDiscovery ==                                            \* mutant
  /\ pc = "racing"
  /\ race # "pending"
  /\ timer' = IF timer = "armed" THEN "cleared" ELSE timer
  /\ Exchange!Abort
  /\ UNCHANGED discoveryVars
  /\ IF race = "won"
       THEN pc' = "parsing" /\ UNCHANGED result
       ELSE pc' = "done" /\ result' = "timeout"
  /\ UNCHANGED <<budget, elapsed, jobs, race, dials>>

(* The race is settled: the finally block clears the timer, aborts every   *)
(* exchange and destroys the discovery; then the error is thrown or the    *)
(* metadata parsed.                                                        *)
Teardown ==
  /\ pc = "racing"
  /\ race # "pending"
  /\ timer' = IF timer = "armed" THEN "cleared" ELSE timer
  /\ Exchange!Abort
  /\ Discovery!Destroy
  /\ IF race = "won"
       THEN pc' = "parsing" /\ UNCHANGED result
       ELSE pc' = "done" /\ result' = "timeout"
  /\ UNCHANGED <<budget, elapsed, jobs, race, dials>>

(* parseTorrent reads the verified metadata, or rejects.                   *)
Parse ==
  /\ Drained
  /\ pc = "parsing"
  /\ pc' = "done"
  /\ result' \in {"info", "error"}
  /\ UNCHANGED <<budget, elapsed, timer, jobs, race, dials>>
  /\ UNCHANGED <<exchangeVars, discoveryVars>>

Next ==
  \/ Enter
  \/ DhtFails
  \/ DhtReady
  \/ \E p \in Peers : PeerFound(p)
  \/ DiscoveryRuns
  \/ \E c \in Calls : ExchangeRuns(c) \/ WinResolve(c)
  \/ Tick
  \/ TimerFires
  \/ Teardown
  \/ Parse

Spec == Init /\ [][Next]_vars

(* Promise callbacks run, time passes and a due timer fires; parseTorrent  *)
(* settles.  Nothing is assumed of the peers, the DHT and the trackers.    *)
Fairness ==
  /\ WF_vars(Tick)
  /\ WF_vars(TimerFires)
  /\ WF_vars(Teardown)
  /\ WF_vars(Parse)
  /\ \A c \in Calls : WF_vars(WinResolve(c))

FairSpec == Spec /\ Fairness

-----------------------------------------------------------------------------
(* Once the finally block has run, whichever way the race was decided, the *)
(* resolution holds nothing: no connection, wire or abort listener of any  *)
(* exchange, no listener or timer on the DHT, no tracker client, no        *)
(* budget timer ("Every socket and wire is destroyed as soon as one peer   *)
(* wins, the budget runs out, or an error occurs").                        *)
ReleasedOnceDecided ==
  pc \in {"parsing", "done"} =>
    /\ \A c \in Calls : /\ outcome[c] # "running"
                        /\ socket[c] \in {"none", "destroyed"}
                        /\ wire[c] \in {"none", "destroyed"}
    /\ onAbort = {}
    /\ ~ dhtListener
    /\ dhtInterval # "armed"
    /\ tracker # "running"
    /\ timer # "armed"

(* No peer is dialled twice, however many of the DHT's lookups and of the  *)
(* trackers' announces name it, and only peers of the swarm are dialled.   *)
DialsDeduped ==
  /\ \A d, e \in dials : d[2] = e[2] => d = e
  /\ \A d \in dials : d[2] \in Swarm

(* The verdict is genuine: the timeout error is only for a resolution none *)
(* of whose exchanges had verified the metadata, and only what one of them *)
(* has verified is parsed and returned.                                    *)
VerdictGenuine ==
  /\ result = "timeout" => \A c \in Calls : outcome[c] # "resolved"
  /\ pc = "parsing" \/ result = "info" =>
       \E c \in Calls : outcome[c] = "resolved"

(* One winner: the exchanges race, and several may be hashing when one     *)
(* peer's metadata is verified, but everything the first one sets off, the *)
(* abort of the others included, is done before the next event.            *)
OneExchangeWins ==
  \A c, d \in Calls : outcome[c] = "resolved" /\ outcome[d] = "resolved" => c = d

(* timeoutSeconds is the "total budget to keep retrying before giving up": *)
(* the resolution does not give up before it is spent.                     *)
BudgetHonoured == race = "expired" => elapsed >= budget

(* Every resolution that starts racing is over some day, although neither  *)
(* the peers nor the DHT ever have to answer.                              *)
RacingEnds == pc = "racing" ~> pc = "done"

(* A resolution is a scoped call of its own: it settles once, with nothing *)
(* open, and nothing is opened for it afterwards.                          *)
Resolving == {"resolution"}

Status ==
  [r \in Resolving |->
     CASE pc = "called" -> "idle"
       [] pc = "done" -> (IF result = "info" THEN "resolved" ELSE "rejected")
       [] OTHER -> "running"]

Holdings ==
  [r \in Resolving |->
     (IF \E c \in Calls : outcome[c] = "running" THEN {"exchange"} ELSE {})
       \cup (IF dhtListener \/ dhtInterval = "armed" THEN {"dht"} ELSE {})
       \cup (IF tracker = "running" THEN {"tracker"} ELSE {})
       \cup (IF timer = "armed" THEN {"timer"} ELSE {})]

Scoped == INSTANCE ScopedCalls WITH
            Calls <- Resolving,
            Resources <- {"exchange", "dht", "tracker", "timer"},
            status <- Status,
            held <- Holdings

ImplementsScopedCalls == Scoped!Spec

=============================================================================
