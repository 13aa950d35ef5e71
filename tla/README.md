# torrent-resolve in TLA+

A verification development kept beside `torrent-resolve`, a Node.js library that
turns a magnet URI, an infohash or an HTTPS `.torrent` URL into torrent metadata.
It models the parts of the library in which callbacks, timers, promises, datagrams
and crashes interleave; TLC checks the models on small instances, TLAPS proves the
most important of the invariants for every value of the constants.

Paths below are relative to the library's repository (`src/...` are its sources).

## 1. The system

| Component | State it keeps | Operations | Talks to |
|---|---|---|---|
| Dispatch (`index.js`, `validate.js`) | none | `resolve`, the validators | picks one of the three resolvers |
| Resolution (`resolve-magnet.js`) | AbortController, winner promise, budget timer | `resolveMagnet`, `resolveInfoHash`, `resolveByInfoHash` | awaits the shared DHT, owns a PeerDiscovery and the exchanges |
| Tracker list (`trackers.js`) | none (pure) | `buildTrackerList` | called once by a resolution |
| Peer discovery (`peer-discovery.js`) | peers seen, DHT listener, re-lookup interval, tracker client | `start`, `_lookupDht`, `_emitPeer`, `destroy` | listens to the shared DHT, owns a TrackerClient, emits `'peer'` to the resolution |
| Metadata exchange (`metadata-exchange.js`) | per call: socket, wire, abort listener, settled flag | `fetchMetadataFromPeer` and its event handlers | one TCP peer; the resolution's AbortSignal |
| Shared DHT (`shared-dht.js`) | module variables: instance, promise, cache path | `getSharedDht`, `createDht`, `shutdownSharedDht` | `bittorrent-dht`, the cache file |
| DHT cache file (`shared-dht.js`) | a file and temporary files | `persistDhtCache`, `readCacheFile` | the file system, other processes |
| Tracker client (`tracker/index.js`) | a timer per URL, peers seen, AbortController | `start`, `_scheduleAnnounce`, `_announceOne`, `_emitPeer`, `destroy` | one announce at a time per URL |
| UDP tracker (`tracker/udp-tracker.js`) | per call: socket, retransmit timer, transaction and connection id | `announceUdp` | DNS, datagrams |
| HTTP tracker (`tracker/http-tracker.js`) | per call: a fetch and a capped body | `announceHttp` | `fetch` |
| Codecs (`tracker/compact-peers.js`, `tracker/url-encode.js`) | none (pure) | decode peer lists, percent-encode bytes | the two tracker kinds |
| Torrent file (`torrent-file.js`) | per call: a fetch and a capped body | `resolveTorrentFile` | `fetch` |
| Errors, file list, client identity | none | error classes, path separators, peer ids | everything |

How they interact: a resolution awaits the process-wide DHT, starts a discovery on it
and dials every peer the discovery emits. Each dial is an exchange of its own; all
exchanges of a resolution listen to one AbortSignal. The first metadata to arrive is
raced against the budget's timer. When the race is decided the `finally` block clears
the timer, aborts the exchanges and destroys the discovery, which takes its listener
off the shared DHT and destroys its tracker client. The shared DHT stays open until
`shutdownSharedDht`.

What is hard about it:

* everything is asynchronous: events that were under way when something was torn down
  arrive afterwards (a hash that was being computed, an announce, a lookup, a DNS answer);
* several exchanges, lookups and announces report to one resolution, and several
  resolutions and shutdowns share one DHT through three module variables that are read
  and written on both sides of an `await`;
* peers, trackers and the network answer late, twice, wrongly or never, and the library's
  own timers are the only thing that ends it;
* a cache file is written by several processes that may die at any moment.

Which properties make each component right is said with its module below; `PROJECT.json`
lists every hazard at its line with the properties that would catch it.

## 2. How the code becomes a model

Node.js runs one callback to its end before the next one starts, so **a step is one
callback**, or the code of an `async` function from one `await` to the next. What a
callback calls synchronously is part of the step: `fail` settles the promise, removes
the listener and destroys socket and wire in one step, and `controller.abort()` settles
every exchange whose listener is registered in one step.

Promise callbacks that an event queues run before the next event. Where that order
matters (Resolution) the queue is in the state, and an event is taken only when `Drained`
holds, which says that the queue is empty.

Data is abstracted to what the properties tell apart: a peer is its `host:port` key, a
datagram its kind, transaction id and connection id, a routing table the name of the
writer it is from. Code outside the repository (`bittorrent-dht`, `ut_metadata`, the file
system, Node's timers, trackers, peers) is modelled by what the library sees of it, with
no assumption that it behaves, and is marked external in the map.

Definitions marked `mutant` are plausible bugs, each placed just before the definition it
mutates. No specification uses them: they exist to show that a property fails when
the code is wrong.

## 3. Modules

| Module | Models | Checked by run |
|---|---|---|
| `ScopedCalls` | abstract: what every asynchronous operation promises its caller | refined by four modules |
| `MetadataExchange` | `fetchMetadataFromPeer` | `exchange`, `exchange_closed` |
| `PeerDiscovery` | `PeerDiscovery` | `resolution`, `sources` |
| `Resolution` | `resolve`, `resolveMagnet`, `resolveInfoHash`, `resolveByInfoHash`, composing the two above | `resolution`, `resolution_budget` |
| `SharedDht` | `getSharedDht`, `createDht`, `shutdownSharedDht` and those who wait for the DHT | `dht`, `dht_twodhts`, `dht_cache` |
| `AtomicCache` | abstract: a file that holds one complete table | refined by `DhtCache` |
| `DhtCache` | `persistDhtCache` against a file system | `cachefile` |
| `TrackerClient` | the announce loops of `tracker/index.js` | `sources`, `trackers_retry` |
| `TrackerList` | `buildTrackerList` | `sources` |
| `PeerSources` | the list, the client and the discovery composed | `sources` |
| `UdpTracker` | `announceUdp` | `udp` |
| `CompactPeers` | `decodeCompactPeers4`, `decodeCompactPeers6` | `download` |
| `Download` | `announceHttp` and `resolveTorrentFile` | `download` |
| `MCResolution`, `MCPeerSources`, `MCDownload` | TLC instances of the modules they are named after | |
| `*_proofs` | TLAPS proofs of the module they are named after; those of `PeerDiscovery` and `TrackerList` are in `PeerSources_proofs` | |

**ScopedCalls** is the promise that the sources repeat in their comments ("never leaves a
dangling connection behind", "nothing survives past one call"): a call settles at most
once, what it settled with never changes, and it lets go of everything it opened in the
step that settles it. `MetadataExchange`, `Resolution`, `UdpTracker` and `Download` are each
shown to implement it, with a mapping from their sockets, wires, timers, listeners and bodies to
what the call holds.

**MetadataExchange.** Per call: `socket`, `wire`, whether `onAbort` is registered, and
`outcome`, which is the promise and the `settled` flag in one. One action per event handler:
connect, timeout, error of socket and of wire, metadata, warning, abort. `verifying` is the
hash that `ut_metadata` computes asynchronously: `cleanup` takes the listeners off the
wire but not off `ut_metadata`, so a verdict can arrive after the call has settled, and the
guard in `succeed` is what makes that harmless. `silent` is a peer that never does
anything again; `"ended"` is a connection the peer closed in good order, for which the code has
no handler. Properties: an
abort leaves no call running, not even one made after it; the calls are scoped calls; a silent
peer is failed by the idle timer.

**PeerDiscovery.** `start`, the interval, the two sources of peers, `destroy`. The DHT is shared,
so its `'peer'` events come for this infohash ("ours") or for that of another resolution. On its own
it is the specification that `PeerSources` implements: only peers of the own swarm are emitted, each
once, and none once it is destroyed.

**Resolution** composes both with `INSTANCE`, sharing their variables, and adds the way in (`Enter`: a
raw infohash goes on in the same step, a magnet after parse-torrent has settled, and either may be
refused; which text is which is a choice), the wait for the DHT, the race with the budget's timer,
the queued `then` callbacks (`jobs`), the `finally` block (`Teardown`) and the parsing. `Due` is what
`setTimeout` makes of a budget: a delay of more than 2^31 - 1 ms becomes 1 ms. `dials` is a record of
which call dialled which peer. `DhtFails` covers a rejected promise and a DHT that was destroyed
before it is used. `dht.address()` throws on a closed socket before anything is opened, and
`discovery.start()` follows in the same synchronous stretch: it cannot meet a DHT that was closed in
between, although it stands outside the `try` block.

**SharedDht.** The three module variables, the creations and the shutdowns, cut at every `await`.
An instance stands for the DHT object, the `createDht` call that makes it and the promise of
that call. A promise stays fulfilled after its instance was closed, so a caller may receive a
closed instance it was already waiting for, and then `dht.address()` throws (`Receive`). `cut` is a
history variable: who was waiting for, or using, the shared instance when a shutdown took it.
`DeadOnlyIfCut` says that nobody else ever comes to a dead one, and `WaitEnds` that the wait, which
no budget bounds, ends all the same.
`hasty` is a history variable: it records that a shutdown was called while a creation was
under way, which is exactly when the claims about one DHT stop being true.

**DhtCache / AtomicCache.** Each writer (a process) opens its temporary file, writes it in chunks,
renames it. Any step may fail and the process may die between any two steps. The detailed file
system implements a register that holds nothing or one complete table.

**TrackerClient.** Per URL a loop that is scheduled, announcing or stopped, with a clock
(`wait`) relative to now so that time needs no bound. The announce is abstracted to an answer
or a failure that comes when it likes, possibly after `destroy`. An answer names an interval, which
may be 0, or none (`NoInterval`).

**TrackerList** folds over the spellings as the code does and states apart from it what its comment
promises (`IsTrackerList`: a set of spellings and their order, not a loop). What `normalize` makes of
a spelling (`Key`) and whether the URL parser takes it (`Invalid`) are independent facts about it,
since they come from different functions. One consequence is worth knowing: a spelling that is
invalid still hides a valid one of the same key that comes later (a non-breaking space before a URL
is trimmed by `normalize` and refused by the parser).

**PeerSources** extends `TrackerClient` and puts `PeerDiscovery` and `TrackerList` beside it: the list
is built, the discovery starts the client if there is a list, an announce's peers go through the
client's filter and deduplication and then through the discovery's in the same step, and
`PeerDiscovery.destroy` destroys the client. The composition implements `PeerDiscovery`, whose
tracker source was free to report any peer of the swarm at any time.

**UdpTracker.** The URL, the two DNS lookups, the connect and the announce exchange with their
retransmissions, and a tracker that answers any copy of a request it gets, or garbles it, or not.
The network is the set of datagrams ever sent: a datagram may arrive any number of times, in any
order, or never. A transaction id stands for the random bytes drawn for an exchange; those of two
exchanges are taken to differ, which the code makes overwhelmingly likely and does not guarantee.

**CompactPeers** is the two decoders on sequences of bytes, with the encodings of BEP 23 and BEP 7,
written from the other side, as their reference. A host is the numbers its text is made of.

**Download** is one module for two functions because they share the reading loop line by line. They
differ in what they do with the response (an announce wants exactly a 200 and cancels anything else,
a download takes any 2xx, leaves an error's body alone and looks at `content-length`), in the
signals they listen to and in what they make of the body. `content-length` and the size of the body
are independent, as a server's are, and a body arrives in chunks of any size. `Verdict` is the
order in which `announceHttp` looks at an answer. What a signal does depends on where it strikes
(`Interrupted`): it ends a fetch or a read, and is without effect on a cancel or a parse; a body
nobody reads is let go by it.

## 4. Runs

| Run | Instance | Distinct states | What it shows |
|---|---|---|---|
| `exchange` | 3 calls | 5,913 | abort reaches all, scoped calls (so no dangling connection), silent peers time out |
| `exchange_closed` | 1 call | few | *violated*: a peer that closes the connection in good order is not timed out |
| `resolution` | 3 calls, 2 peers of the swarm, 1 foreign, budgets 0 to 2 | 76,379 | released once decided, dials deduplicated, genuine verdicts, one exchange wins at most, ends, scoped call |
| `resolution_budget` | budget 2147484 | few | *violated*: such a budget expires at once |
| `dht` | 2 instances, 2 callers, 2 closers, 2 cache files | 191,745 | dead instances only for those a shutdown cut off, taken once, saved where it came from, one DHT and no orphan unless hasty, taken instances are closed, every wait ends |
| `dht_twodhts` | 2 instances, 1 caller, 1 closer | few | *violated*: a shutdown during a creation leads to two DHTs |
| `dht_cache` | the same | few | *violated*: a malformed cache file makes the creation fail |
| `cachefile` | 3 writers, 2 chunks each | 4,963 | atomic register, no litter except from broken writes |
| `sources` | 5 URLs (one tracker in 3 spellings, one of them invalid; another tracker; a URL of another protocol), 2 usable peers and 1 with port 0 | 45,474 | the list as promised, never hammered, own clock, quiet and at rest once destroyed, late peers are found, implements `PeerDiscovery` |
| `trackers_retry` | 1 tracker, the real bounds in seconds | few | *violated*: a failed announce is retried after 30 minutes |
| `udp` | 3 attempts per exchange, 2 connection ids | 9,163 | replies never misread, issued ids only, attempts bounded, scoped call, settles |
| `download` | cap 3, bodies of 0, 2, 3 and 4 bytes, 619 answers | 29,769 | exact cap, whole bodies only, signals heard, own errors first, peers as answered, scoped call, settles and lets go |

Why the bounds are enough to be interesting:

* `exchange`: with three calls, one abort meets calls in three different stages (not begun,
  connecting, hashing). The proofs remove the bound altogether.
* `resolution`: one exchange more than there are peers, so that a second dial of a peer would find a
  call to make; two exchanges can be hashing at once, so that a second could win; `MaxElapsed` reaches the largest
  budget.
* `dht`: two callers share a creation, two shutdowns overlap, the second instance is created
  while the first is being closed, with another cache file. `Instances` are not reused, so that an
  instance is an object and not a slot.
* `cachefile`: two chunks are the least that can be mixed, three writers the least for which a
  third observes what two others leave.
* `sources`: floor 1, ceiling 3, default 3, with answers of none, 0 (below the floor), 2 and 4 (above
  the ceiling). `Inputs` are all combinations of up to two URLs of the magnet, two of the caller and one
  denied: enough for a spelling to be met again, denied or invalid, and for the order to matter.
  `Followed` names the announce lists whose discovery is then started (none, two trackers, one that
  cannot be announced to and one that can): the list is checked for every input, the clocks for these three.
* `download`: a cap with bodies one below, at and one above it and an empty one; two peers per
  list, so that an order and a last entry exist, with ports and addresses whose bytes differ.
* `udp`: three attempts, so that there is a first, a middle and a last one. The default schedule
  of the code has one; longer ones are an option.

Deadlock is checked in the runs of `SharedDht`; all other models may come to their end
(a settled call, a destroyed client) and say so in their configuration.

### Fairness

Nothing is assumed of peers, trackers, the network, other processes or the library's user. What is
assumed, per module, is in its `Fairness` definition:

* timers that are armed fire (`SocketTimeout` of a silent connection, `TimerFires`, `Tick`,
  `Relookup`): Node's event loop guarantees this as long as the process lives. Some of the
  library's timers are `unref`ed and do not keep the process alive; a process that ends needs no answer;
* queued promise callbacks run (`WinResolve`, `Teardown`), and work that the process itself does
  ends: hashing, parsing, binding and closing a socket, reading and writing a file, a DNS lookup (one
  way or the other);
* an aborted announce ends (`PeerSources`): every kind of announce listens to the signal, or, in
  DNS, reads it afterwards, which `UdpTracker` and `Download` show for the two kinds. A URL that is
  no tracker's is refused by the announce itself, which ends too;
* the timeout of a request fires, and a body that was cancelled lets go (`Download`). A server
  need never send anything;
* a caller whose promise has been settled goes on (`Receive`), and a creation gets on, one way or the
  other (`SharedDht`);
* one strong fairness: in `PeerSources`, a peer of the swarm does not escape every one of
  infinitely many lookups. It is an assumption about the DHT and the only way a statement about
  finding peers can be made at all; nothing else depends on it.

### Disagreements between the code and what is said about it

Each is a run that TLC must find violated, and a finding in `PROJECT.json`.

1. `exchange_closed`. The comment in the `'warning'` handler relies on the per-connection timeout
   to fail an exchange "if nothing else happens". A connection that the peer closes has no
   timer any more and no handler is registered for the close, so the exchange stays pending until
   the resolution is over. It holds no live connection, so this costs memory rather than sockets.
2. `resolution_budget`. `timeoutSeconds` has no upper limit, the timer has: from 2147484 seconds on a
   resolution times out at once.
3. `dht_twodhts`. `shutdownSharedDht` during a creation forgets the promise but cannot stop the
   creation. The next `getSharedDht` creates a second DHT; whichever publishes first is overwritten
   and never closed.
4. `dht_cache`. The cache file's array is checked, its entries are not: `addNode` throws on an entry
   such as `null`, and the rejected promise is then handed out to everybody until the next shutdown.
   The comment in the `catch` block that sees it (line 81) says that only `listen` could get there.
5. `trackers_retry`. The single 5-second attempt of the UDP client is justified by a re-announce
   every 15 seconds that no longer exists; a failed announce is retried after 30 minutes.

## 5. Proofs

| Theorem | States |
|---|---|
| `MetadataExchange_proofs!TypeCorrect` | `Spec => []TypeOK` |
| `MetadataExchange_proofs!NothingDangles` | `Spec => []NoDanglingConnection` |
| `MetadataExchange_proofs!AbortReachesAll` | `Spec => []AbortSettlesAll` |
| `MetadataExchange_proofs!Refinement` | `Spec => ImplementsScopedCalls` |
| `MetadataExchange_proofs!SilenceTimed` | a running call with a silent peer has a connection whose idle timer counts |
| `Resolution_proofs!TypeCorrect` | `Spec => []TypeOK` |
| `Resolution_proofs!Released` | `Spec => []ReleasedOnceDecided` |
| `Resolution_proofs!Deduped` | `Spec => []DialsDeduped` |
| `Resolution_proofs!Genuine` | `Spec => []VerdictGenuine` |
| `Resolution_proofs!OneWinner` | `Spec => []OneExchangeWins` |
| `Resolution_proofs!Refinement` | `Spec => ImplementsScopedCalls` |
| `Resolution_proofs!RunsExchanges`, `RunsDiscovery` | `Spec => Exch!Spec`, `Spec => Discovery!Spec`: the composition implements its two parts |
| `Resolution_proofs!ExchangesScoped` | `Spec => Exch!ImplementsScopedCalls` |
| `Resolution_proofs!TimerWhileUndecided` | while the race is undecided the timer is armed, and no step puts it off |
| `PeerSources_proofs!BuildsTrackerList` | `List!IsTrackerList(List!BuildTrackerList(m, e, d), m, e, d)` for all `m`, `e` in `Seq(Urls)` and every `d` |
| `PeerSources_proofs!OwnSwarm` | `Discovery!Spec => []Discovery!OwnSwarmOnly` |
| `PeerSources_proofs!DiscoveryQuiet` | `Discovery!Spec => Discovery!QuietOnceDestroyed` |
| `PeerSources_proofs!AnnounceListRight` | `SourcesSpec => ListAsPromised` |
| `PeerSources_proofs!Refinement` | `SourcesSpec => ImplementsDiscovery` |
| `PeerSources_proofs!SourcesLeaveAlone`, `SourcesQuiet` | `SourcesSpec => NeverHammered`, `SourcesSpec => QuietOnceDestroyed` |
| `PeerSources_proofs!SourcesOwnSwarm`, `SourcesQuietOnceOver` | the discovery's two theorems, of the composition |
| `PeerSources_proofs!ClientCutOff` | once the discovery is over the client has no timer, and what it still announces is aborted |
| `SharedDht_proofs!TypeCorrect` | `Spec => []TypeOK` |
| `SharedDht_proofs!PromiseUsable` | `Spec => []ReadyNeverClosed` |
| `SharedDht_proofs!CutOffKnown` | `Spec => []DeadOnlyIfCut` |
| `SharedDht_proofs!OneCloser` | `Spec => []TakenOnce` |
| `SharedDht_proofs!SavedRight` | `Spec => []SavedWhereItCameFrom` |
| `SharedDht_proofs!OneDhtIfPatient` | `Spec => []OneDhtUnlessHasty` |
| `SharedDht_proofs!NoOrphanIfPatient` | `Spec => []NoOrphanUnlessHasty` |
| `SharedDht_proofs!WaitIsForSomething` | who waits, waits for a creation that has begun; instances only move forward |
| `SharedDht_proofs!SeenThrough` | what is being closed has a shutdown that closes it, which keeps it until it is closed |
| `DhtCache_proofs!TypeCorrect` | `Spec => []TypeOK` |
| `DhtCache_proofs!NoLitter` | `Spec => []LitterOnlyFromBrokenWrites` |
| `DhtCache_proofs!Refinement` | `Spec => ImplementsAtomicCache` |
| `TrackerClient_proofs!TypeCorrect` | `Spec => []TypeOK` |
| `TrackerClient_proofs!NoTimerOnceDestroyed` | `Spec => []NothingScheduledOnceDestroyed` |
| `TrackerClient_proofs!ReportsUsable` | `Spec => []OnlyUsablePeers` |
| `TrackerClient_proofs!LeavesAlone` | `Spec => NeverHammered` |
| `TrackerClient_proofs!Quiet` | `Spec => QuietOnceDestroyed` |
| `TrackerClient_proofs!NoneForgotten` | no loop stops before the client is destroyed |
| `TrackerClient_proofs!OnlyItselfDelays` | a timer only runs down, and ends in its own announce or with the client |
| `UdpTracker_proofs!TypeCorrect` | `Spec => []TypeOK` |
| `UdpTracker_proofs!AbortHeard` | `Spec => []NoExchangeOnceAborted` |
| `UdpTracker_proofs!AnswerGenuine` | `Spec => []AnswerIsForThisAnnounce` |
| `UdpTracker_proofs!NotMisread` | `Spec => []OnlyGarbageIsMisread` |
| `UdpTracker_proofs!IdsIssued` | `Spec => []AnnouncesWithIssuedId` |
| `UdpTracker_proofs!Bounded` | `Spec => []AttemptsBounded` |
| `UdpTracker_proofs!Refinement` | `Spec => ImplementsScopedCalls` |
| `UdpTracker_proofs!CountsDown` | an exchange has a timer, and there are fewer to come with each that fires and never more |
| `Download_proofs!TypeCorrect` | `Spec => []TypeOK` |
| `Download_proofs!Capped` | `Spec => []CapExact` |
| `Download_proofs!WholeBodyFirst` | `Spec => []VerdictOnWholeBody` |
| `Download_proofs!SignalsHeard` | `Spec => []SignalHeard` |
| `Download_proofs!OwnErrorsFirst` | `Spec => []OwnErrorBeforeBody` |
| `Download_proofs!PeersCorrect` | `Spec => []PeersAsAnswered` |
| `Download_proofs!Refinement` | `Spec => ImplementsScopedCalls` |
| `Download_proofs!TimeoutLetsGo` | after the timeout nothing is fetched or read and no body is open |

**MetadataExchange.** Neither safety invariant is inductive alone. A call that is running has its
listener registered (`ListenerWhileRunning`): without this, the abort could miss it. A call that
has not begun owns nothing (`UntouchedWhileIdle`): without this, a rejected late call could be left
with a socket. With the two added, `IInv` is preserved by every action; there is one lemma for the
call, one for the events and one for the abort, because Resolution uses them again. The refinement
is proved from `IInv`: each step moves the calls that settled to `Settle`, the one that began to
`Begin`, and leaves the others unmoved.

**Resolution.** `IInv` takes the exchanges' invariant over through an instance of
`MetadataExchange_proofs` and adds: nothing is started before the DHT is there, nothing runs after the
race (`NothingRuns`, from which `Released` follows), every dialled peer has been seen and only
swarm peers are (`DialsSeen`, from which `Deduped` follows), and the accounting that a timeout needs
(`WinsQueued`): while the race is undecided an exchange that has resolved has its callback
queued, so that by `Drained` the timer cannot fire, and once the budget has won no exchange
resolves, because `Teardown` comes before the next event. The refinement needs `NothingStarted` and
`NothingRuns` only: a resolution that has not begun or is over holds nothing. The other half of
`VerdictGenuine`, that what is parsed was verified, is `WinsGenuine`: a queued callback is that of an
exchange that has resolved. `RunsExchanges` and `RunsDiscovery` say that the composition adds no
behaviour to its parts, so that what is proved of them by themselves holds in it: a resolution only
ever calls and aborts exchanges, and starts its discovery once and destroys it after that
(`DiscoveryWhileRacing`). `OneExchangeWins` needs the same accounting: an event settles no exchange
but its own (`EventOutcome`), and when one resolves, an earlier one would still have its callback
queued or have had the others aborted. `BudgetHonoured` is not proved, since it does not hold for
every budget the validation lets through: `resolution_budget` is the counterexample.

**PeerSources, PeerDiscovery and TrackerList.** Three arguments in one module.

* *The list.* `BuildTrackerList` is a left fold, which the community modules define by a recursive
  function on the set of positions. `BuildIsFold` opens it up, `FoldExists` shows that a function
  satisfying that recursion exists, and `BuildUnfolds` that the list comes out of the loop round by round.
  `RoundKeepsList` is the loop's invariant (the list has, in order, the first valid, undenied spelling
  of each key so far, and `seen` the keys so far), and `BuildsTrackerList` is what it says at the end. The
  two inductions are over the number of rounds; they use `SetInduction`, which states induction as a fact
  about a set of numbers (from `WFMin` of the library) because the library's own theorem takes a
  formula as its parameter, which the installed provers cannot instantiate.
* *The discovery by itself.* `OwnSwarmOnly` is inductive; the quiet after `destroy` needs
  `CutOffOnceOver`: both sources are off, and `start()` cannot follow `destroy()`.
* *The composition.* Each of its steps is a step of a tracker client or leaves the client alone
  (`SourcesSteps`), so that `SourcesSpec => Spec` and everything in `TrackerClient_proofs` holds of it.
  To that `SourcesInv` adds how the two lives hang together (`OneLife`: what the discovery thinks of its
  client is what the client is). `Refinement` needs it for one
  case above all: an announce that ends after `destroy` must be no step of the discovery at all. Along
  the refinement the discovery's theorems come down to the composition.

**SharedDht.** The properties relate the module variables to what closers hold, so the invariant says
how they hang together: the shared instance is live and `sharedCache` is its file (`SharedIsLive`),
the promise is for an instance no one has begun to close (`PromiseIsOpen`, from which
`ReadyNeverClosed` follows), and what a closer has taken is neither the shared instance nor behind
the promise and is taken by that closer alone (`ClosersOwn`, `TakenByOne`). It is the synchronous
forgetting of both variables in `shutdownSharedDht` that keeps these. `PromiseLeads` is what one DHT
depends on: unless a shutdown was hasty, the promise leads to every open instance that is not taken.
`DeadOnlyIfCut` is kept by `Shutdown` because the instance it takes is the shared one, so that those it
hits are those `NoteCut` records, and by `GetSharedDht` because the promise it hands out is open.
`SeenThrough` is `ClosersOwn` turned round: it says of an instance that it has a closer, not of a
closer that it has an instance.

**DhtCache.** A complete cache file follows from what the temporary files hold: `OwnTmp` says that a
writer's file is exactly the part of its table written so far, all of it when it is renamed. `TmpPath`
being the writer's own is what makes this inductive. The refinement maps the file to the name of the
writer whose table it holds; only `Rename` saves, every other end of a writer gives up, and the
opening and the chunks are no steps of the register at all.

**TrackerClient.** `NeverHammered` speaks of the moment a timer fires and needs to know what the timer was
set to: `Timed` says that the time since the last announce and the time left on the timer add up to
what is owed to the tracker, or that the ceiling is over. It rests on `ClampBounds`, a lemma
about `clampReannounceIntervalMs`.

**UdpTracker.** The invariant describes what can be in the network at all, since any of it may arrive
at any time: a request carries its own exchange's transaction id (`RequestsMatch`), a reply that of
the request it answers (`ConnectsIssued`, `AnswersServed`), garbage only after the tracker garbled
something (`GarbageGarbled`). With `IdIssued`, a datagram that passes the client's checks is the
genuine reply. `HoldsWhileExchanging` (socket, timer and abort listener exist exactly during an
exchange) gives the refinement, and `Counted` ties the requests sent to the attempt number. `CountsDown` is
the variant of a termination argument (`TimersLeft`): twice the schedule at first, less with every timer
that fires, and no more when the second exchange begins.

**Download.** The invariant adds to the properties what the steps in between need: the lock is held
exactly while a body is read or cancelled after reading, what is buffered is what was read and is no
more than the body has, and a response is there from the moment it is looked at. `PeersCorrect` rests
on the decoders: `RoundTrip4` and `RoundTrip6` say that decoding an encoded list gives the list back,
for lists of every length. They are proved without induction, byte by byte: `Place` says which
entry and which byte in it a position is, and `WordOfBytes` that two bytes make the number they are
of. `DamagedThrows` says that a list cut short is not a whole number of entries.

Assumptions used: `ResolutionAssumption` (the swarm is a set of known peers,
budgets are naturals), `NoneAssumption` (the null of the code is no instance and no file),
`DhtCacheAssumption` (a table has at least one chunk, no file is not a content),
`TrackerClientAssumption` (the floor is positive, the default is between floor and ceiling),
`UdpTrackerAssumption` (the schedule has at least one attempt), `InputsAssumption` (the magnet's, the
caller's and the denied URLs are lists of spellings), `DownloadAssumption` (cap and sizes are
naturals) and `AnswersAssumption` (what trackers answer is of the form `Answer`). TLC evaluates each on its run.

Every safety invariant, action property and refinement that a passing run checks is proved. Only
model-checked are the properties about liveness and fairness, which are beyond the prover. For all but
one of them what they rest upon is proved instead: that the timer, the announce or the shutdown which
has to bring the end about is there in every state in which the end is still to come, and that no step
of anybody else takes it away or puts it off. What is left to TLC is the step from there, under
fairness, to the end.

| Model-checked | Safety part, proved |
|---|---|
| `SilentPeerTimesOut` | `MetadataExchange_proofs!SilenceTimed` |
| `RacingEnds` | `Resolution_proofs!TimerWhileUndecided` |
| `WaitEnds` | `SharedDht_proofs!WaitIsForSomething` |
| `ShutdownCloses` | `SharedDht_proofs!SeenThrough` |
| `OwnClock` | `TrackerClient_proofs!NoneForgotten`, `OnlyItselfDelays` |
| `ClientRestsWithDiscovery` | `PeerSources_proofs!ClientCutOff` |
| `Settles` | `UdpTracker_proofs!CountsDown` |
| `SettlesReleased` | `Download_proofs!TimeoutLetsGo` |
| `RelookupFindsPeer` | none: it rests on what the DHT does |

## 6. What is not modelled

* What is inside `bittorrent-dht`, `bittorrent-protocol`, `ut_metadata`, `parse-torrent`, `bencode` and
  `fetch`. What parse-torrent makes of a body or a magnet is a choice between success and error.
* What `bittorrent-dht` does with a lookup on an instance that was closed under a running resolution
  (`peer-discovery.js` line 67). `DeadOnlyIfCut` says which resolutions can come to it: those that were
  running when the shutdown came.
* The request URL of an announce (`url-encode.js`, `buildRequestUrl`), `normalizeFiles`,
  `client-identity.js`: formatting and constants, without control.
* Error classes and messages. One thing about them was seen on the way and is stated as the boundary
  of `OwnErrorBeforeBody`: an error, a timeout or an abort during the reading of a body, and a decoder
  that throws, reach the caller as they are and not as a `TorrentResolveError`.
* Warnings (they change no state), the returned record's fields, the regular expressions of dispatch.
* The test-only options (`reannounceIntervalMs`, `reannounceClampMs`), except that the bounds are constants.
* `scripts/`, `types/`, `test/` and CI: not part of the library.

## 7. Plan

Done in this order: the abstract `ScopedCalls`; `MetadataExchange`, `PeerDiscovery` and their
composition `Resolution` (the behaviour every user sees); `SharedDht` (the state every call
shares); `DhtCache`; `TrackerClient`; `UdpTracker`; the proofs of each of them; `CompactPeers` and
`Download` with their proofs; `TrackerList` and the composition `PeerSources`; the wait for the
shared DHT in `SharedDht`; the ways into a resolution.

Then the proofs of the compositions (`PeerSources`, and that `Resolution` implements its parts), of
`buildTrackerList` for all inputs, and of the safety parts of the liveness properties.

Next:

1. `Process`: several whole resolutions over one `SharedDht`. What it would add to `DeadOnlyIfCut` and
   `WaitEnds` is how a resolution that lost its DHT goes on with its trackers alone.
2. The announces put under the tracker client: `UdpTracker` and `Download` as the announces that
   `TrackerClient` abstracts to an answer or a failure, so that its assumption on aborted announces
   becomes a consequence of `AbortHeard` and `SignalsHeard`.
