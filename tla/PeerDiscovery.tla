--------------------------- MODULE PeerDiscovery ---------------------------
(***************************************************************************)
(* PeerDiscovery (peer-discovery.js): the peers of one infohash, from the  *)
(* shared DHT and from a tracker client, each emitted once.                *)
(*                                                                         *)
(* A peer stands for its "host:port" key.  The DHT is shared, so its       *)
(* 'peer' events also carry the peers of other lookups' infohashes.        *)
(***************************************************************************)
CONSTANTS Peers,      \* the peers the DHT and the trackers know
          Swarm       \* those of them that have this infohash

VARIABLES
  seen,         \* _seen: the peers emitted so far
  dhtListener,  \* is _dhtPeerListener registered on the DHT?
  dhtInterval,  \* the re-lookup timer: "none", "armed", "cleared"
  tracker,      \* the tracker client: "none", "running", "destroyed"
  destroyed,    \* _destroyed
  lookup        \* environment: is a lookup of this infohash under way?

vars == <<seen, dhtListener, dhtInterval, tracker, destroyed, lookup>>

TypeOK ==
  /\ seen \subseteq Peers
  /\ dhtListener \in BOOLEAN
  /\ dhtInterval \in {"none", "armed", "cleared"}
  /\ tracker \in {"none", "running", "destroyed"}
  /\ destroyed \in BOOLEAN
  /\ lookup \in BOOLEAN

Init ==
  /\ seen = {}
  /\ dhtListener = FALSE
  /\ dhtInterval = "none"
  /\ tracker = "none"
  /\ destroyed = FALSE
  /\ lookup = FALSE

StartWithoutInterval ==                                              \* mutant
  /\ dhtInterval = "none"
  /\ dhtListener' = TRUE
  /\ dhtInterval' = "cleared"
  /\ lookup' = TRUE
  /\ tracker' \in {"none", "running"}
  /\ UNCHANGED <<seen, destroyed>>

-----------------------------------------------------------------------------
(* start(): listen, look up at once, then periodically; the tracker client *)
(* exists only when there are trackers.                                    *)
Start ==
  /\ dhtInterval = "none"
  /\ dhtListener' = TRUE
  /\ dhtInterval' = "armed"
  /\ lookup' = TRUE
  /\ tracker' \in {"none", "running"}
  /\ UNCHANGED <<seen, destroyed>>

(* _lookupDht, from the interval.                                          *)
Relookup ==
  /\ dhtInterval = "armed"
  /\ ~ destroyed
  /\ lookup' = TRUE
  /\ UNCHANGED <<seen, dhtListener, dhtInterval, tracker, destroyed>>

LookupEnds ==
  /\ lookup
  /\ lookup' = FALSE
  /\ UNCHANGED <<seen, dhtListener, dhtInterval, tracker, destroyed>>

EmitsAlways(p) == p \in Peers                                        \* mutant

(* _emitPeer: emitted when new to this discovery.                          *)
Emits(p) == p \notin seen

EmitPeers(S) ==
  /\ seen' = seen \cup S
  /\ UNCHANGED <<dhtListener, dhtInterval, tracker, destroyed, lookup>>

EmitPeer(p) == EmitPeers({p})

(* Which of the DHT's 'peer' events for this infohash ("ours") or for the  *)
(* one of another lookup ("other") the listener takes.                     *)
Accepts(infoHash) == infoHash = "ours"

DhtPeer(p) ==
  \E infoHash \in {"ours", "other"} :
    /\ infoHash = "ours" => p \in Swarm /\ lookup
    /\ dhtListener
    /\ Accepts(infoHash)
    /\ EmitPeer(p)

(* The 'peer' events of the tracker client, which announces this infohash: *)
(* it emits the new peers of one answer in one step.                       *)
TrackerPeers(S) ==
  /\ tracker = "running"
  /\ S \subseteq Swarm
  /\ EmitPeers(S)

TrackerPeer(p) == TrackerPeers({p})

(* destroy(): only what belongs to this call; the shared DHT stays open.   *)
Destroy ==
  /\ ~ destroyed
  /\ destroyed' = TRUE
  /\ dhtListener' = FALSE
  /\ dhtInterval' = IF dhtInterval = "armed" THEN "cleared" ELSE dhtInterval
  /\ tracker' = IF tracker = "running" THEN "destroyed" ELSE tracker
  /\ UNCHANGED <<seen, lookup>>

(* The callers destroy only what they have started.                        *)
Next ==
  \/ Start
  \/ Relookup
  \/ LookupEnds
  \/ \E p \in Peers : DhtPeer(p)
  \/ \E S \in SUBSET Swarm : TrackerPeers(S)
  \/ dhtInterval # "none" /\ Destroy

Spec == Init /\ [][Next]_vars

(* The interval keeps firing, and a peer of the swarm does not escape      *)
(* every one of an unbounded number of lookups.                            *)
Fairness ==
  /\ WF_vars(Relookup)
  /\ \A p \in Swarm : SF_vars(DhtPeer(p))

FairSpec == Spec /\ Fairness

-----------------------------------------------------------------------------
(* Only peers of this infohash are emitted, although the DHT is shared by  *)
(* every resolution of the process.                                        *)
OwnSwarmOnly == seen \subseteq Swarm

(* Once destroyed, a discovery reports no peer any more, from any source.  *)
QuietOnceDestroyed == [][destroyed => UNCHANGED seen]_vars

(* A peer that the first lookup misses is found by a later one, unless the *)
(* discovery is destroyed before.                                          *)
RelookupFindsPeer ==
  \A p \in Swarm : dhtListener ~> (p \in seen \/ destroyed)

=============================================================================
