---------------------------- MODULE PeerSources ----------------------------
(***************************************************************************)
(* Where the peers of one resolution come from: buildTrackerList gives the *)
(* announce list, PeerDiscovery listens to the shared DHT and owns a       *)
(* TrackerClient, whose peers it passes on and which it destroys.          *)
(*                                                                         *)
(* Extends TrackerClient and composes it with PeerDiscovery and            *)
(* TrackerList.  Trackers are asked for the infohash, so the peers they    *)
(* name that can be connected to are the swarm.                            *)
(***************************************************************************)
EXTENDS TrackerClient, Sequences

CONSTANTS
  Key, Invalid,  \* see TrackerList
  Inputs,        \* what callers pass: magnet's trackers, others, denylist
  Followed       \* bound: the announce lists that are followed further

ASSUME InputsAssumption ==
  Inputs \subseteq [magnet : Seq(Urls), extra : Seq(Urls), denylist : Seq(Urls)]

VARIABLES
  given,         \* the set of the input that is still to be used: one or none
  announce,      \* the announce list
  seen, dhtListener, dhtInterval, tracker, lookup,
  over           \* _destroyed of the discovery

discoveryVars == <<seen, dhtListener, dhtInterval, tracker, over, lookup>>
allVars == <<vars, given, announce, discoveryVars>>

List == INSTANCE TrackerList
Discovery == INSTANCE PeerDiscovery WITH Swarm <- Usable, destroyed <- over

SourcesInit ==
  /\ Init
  /\ Discovery!Init
  /\ \E i \in Inputs : given = {i}
  /\ announce = <<>>

-----------------------------------------------------------------------------
(* resolveByInfoHash builds the list first.                                *)
BuildList ==
  /\ \E i \in given :
       announce' = List!BuildTrackerList(i.magnet, i.extra, i.denylist)
  /\ given' = {}
  /\ UNCHANGED <<vars, discoveryVars>>

(* PeerDiscovery.start: a tracker client only if there are trackers.       *)
StartSources ==
  /\ given = {}
  /\ announce \in Followed
  /\ Discovery!Start
  /\ IF announce = <<>>
       THEN tracker' = "none" /\ UNCHANGED vars
       ELSE tracker' = "running" /\ StartWith({announce[i] : i \in DOMAIN announce})
  /\ UNCHANGED <<given, announce>>

(* The DHT's side of the discovery.                                        *)
DhtRuns ==
  /\ \/ Discovery!Relookup
     \/ Discovery!LookupEnds
     \/ \E p \in Peers : Discovery!DhtPeer(p)
  /\ UNCHANGED <<vars, given, announce>>

(* The trackers' side.  A peer of an answer that is new to the client is   *)
(* emitted by it, and passed on by the discovery.                          *)
Quietly == UNCHANGED <<given, announce, discoveryVars>>

TrackerAnswers(u) ==
  /\ Answered(u)
  /\ Discovery!EmitPeers(seenPeers' \ seenPeers)
  /\ UNCHANGED <<given, announce>>

TrackerRuns ==
  /\ Tick \/ \E u \in Urls : TimerFires(u) \/ Fails(u)
  /\ Quietly

DestroyDhtOnly ==                                                    \* mutant
  /\ dhtInterval # "none"
  /\ Discovery!Destroy
  /\ UNCHANGED <<vars, given, announce>>

(* PeerDiscovery.destroy, by the resolution that has started it.           *)
DestroySources ==
  /\ dhtInterval # "none"
  /\ Discovery!Destroy
  /\ IF tracker = "running" THEN Destroy ELSE UNCHANGED vars
  /\ UNCHANGED <<given, announce>>

SourcesNext ==
  \/ BuildList
  \/ StartSources
  \/ DhtRuns
  \/ \E u \in Urls : TrackerAnswers(u)
  \/ TrackerRuns
  \/ DestroySources

SourcesSpec == SourcesInit /\ [][SourcesNext]_allVars

(* The fairness of the two parts.                                          *)
SourcesFairness ==
  /\ WF_allVars(Tick /\ Quietly)
  /\ \A u \in Urls :
       /\ WF_allVars(TimerFires(u) /\ Quietly)
       /\ WF_allVars((aborted \/ u \in Malformed) /\ Fails(u) /\ Quietly)
  /\ WF_allVars(Discovery!Relookup /\ UNCHANGED <<vars, given, announce>>)
  /\ \A p \in Usable :
       SF_allVars(Discovery!DhtPeer(p) /\ UNCHANGED <<vars, given, announce>>)

SourcesFairSpec == SourcesSpec /\ SourcesFairness

-----------------------------------------------------------------------------
(* The list that is announced to is the one buildTrackerList promises.     *)
ListAsPromised ==
  [][\A i \in given :
       given' = {} =>
         List!IsTrackerList(announce', i.magnet, i.extra, i.denylist)]_allVars

(* The client lives no longer than the discovery that owns it: no loop of  *)
(* it runs for good once the discovery is destroyed.                       *)
ClientRestsWithDiscovery ==
  over ~> (\A u \in Urls : loop[u] \in {"none", "stopped"})

(* A peer the first lookup misses is found by a later one, whatever the    *)
(* trackers do.                                                            *)
RelookupFindsPeer == Discovery!RelookupFindsPeer

(* With a real tracker client as its source, the discovery does what       *)
(* PeerDiscovery says: in particular only peers of the swarm come out of   *)
(* it, and none once it is destroyed.                                      *)
ImplementsDiscovery == Discovery!Spec

=============================================================================
