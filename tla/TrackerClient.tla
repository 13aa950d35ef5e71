--------------------------- MODULE TrackerClient ---------------------------
(***************************************************************************)
(* TrackerClient (tracker/index.js): one self-scheduling announce loop per *)
(* tracker URL, each timed from its own tracker's last answer.             *)
(*                                                                         *)
(* Time counts in units of the instance's choice.  wait and since are      *)
(* clocks relative to now, so that time itself needs no bound.             *)
(***************************************************************************)
EXTENDS Integers, FiniteSets

CONSTANTS
  Urls,       \* the URLs that may be in the announce list
  Malformed,  \* those announceOne cannot announce to: no URL, no protocol
  Peers,      \* the peers trackers name
  Usable,     \* those with a host and a port in 1 .. 65535
  Intervals,  \* what trackers answer with: intervals and NoInterval
  Floor,      \* MIN_REANNOUNCE_INTERVAL_MS
  Ceiling,    \* MAX_REANNOUNCE_INTERVAL_MS
  Default     \* DEFAULT_REANNOUNCE_INTERVAL_MS

(* Stands for an answer without an interval, and for no answer.            *)
NoInterval == -1
NoAnswer == -2

ASSUME TrackerClientAssumption ==
  /\ Malformed \subseteq Urls
  /\ Usable \subseteq Peers
  /\ Intervals \subseteq Nat \cup {NoInterval}
  /\ Floor \in Nat \ {0} /\ Ceiling \in Nat /\ Default \in Nat
  /\ Floor <= Default /\ Default <= Ceiling

VARIABLES
  loop,       \* per URL: "none", "scheduled", "announcing", "stopped"
  wait,       \* per URL: until the timer is due
  since,      \* per URL: since the last announce ended, up to Ceiling
  last,       \* per URL: the interval of its last answer, or NoAnswer
  seenPeers,  \* _seenPeers: the peers emitted
  destroyed,  \* _destroyed
  aborted     \* the controller's signal.aborted

vars == <<loop, wait, since, last, seenPeers, destroyed, aborted>>

TypeOK ==
  /\ loop \in [Urls -> {"none", "scheduled", "announcing", "stopped"}]
  /\ wait \in [Urls -> 0 .. Ceiling]
  /\ since \in [Urls -> 0 .. Ceiling]
  /\ last \in [Urls -> Intervals \cup {NoAnswer}]
  /\ seenPeers \subseteq Peers
  /\ destroyed \in BOOLEAN
  /\ aborted \in BOOLEAN

Init ==
  /\ loop = [u \in Urls |-> "none"]
  /\ wait = [u \in Urls |-> 0]
  /\ since = [u \in Urls |-> Ceiling]
  /\ last = [u \in Urls |-> NoAnswer]
  /\ seenPeers = {}
  /\ destroyed = FALSE
  /\ aborted = FALSE

-----------------------------------------------------------------------------
(* clampReannounceIntervalMs; an answer without interval gets the default. *)
AtLeast(a, b) == IF a < b THEN b ELSE a
AtMost(a, b) == IF a > b THEN b ELSE a

ClampCeilingOnly(interval) ==                                        \* mutant
  IF interval = NoInterval THEN Default ELSE AtMost(interval, Ceiling)

Clamp(interval) ==
  IF interval = NoInterval THEN Default ELSE AtMost(AtLeast(interval, Floor), Ceiling)

(* _scheduleAnnounce: a timer, unless the client has been destroyed.       *)
ScheduleAnnounce(u, delay) ==
  IF destroyed
    THEN loop' = [loop EXCEPT ![u] = "stopped"] /\ UNCHANGED wait
    ELSE /\ loop' = [loop EXCEPT ![u] = "scheduled"]
         /\ wait' = [wait EXCEPT ![u] = delay]

(* start(): every tracker of the list at once.                             *)
StartWith(announceUrls) ==
  /\ ~ destroyed
  /\ \A u \in Urls : loop[u] = "none"
  /\ loop' = [u \in Urls |-> IF u \in announceUrls THEN "scheduled" ELSE "none"]
  /\ UNCHANGED <<wait, since, last, seenPeers, destroyed, aborted>>

Start == \E announceUrls \in SUBSET Urls : StartWith(announceUrls)

(* Time passes, but not beyond a timer that is due: Node fires it first.   *)
Tick ==
  /\ \A u \in Urls : ~ (loop[u] = "scheduled" /\ wait[u] = 0)
  /\ \E u \in Urls : wait[u] > 0 \/ since[u] < Ceiling
  /\ wait' = [u \in Urls |-> AtLeast(wait[u] - 1, 0)]
  /\ since' = [u \in Urls |-> AtMost(since[u] + 1, Ceiling)]
  /\ UNCHANGED <<loop, last, seenPeers, destroyed, aborted>>

TimerFiresInRounds(u) ==                                             \* mutant
  /\ loop[u] = "scheduled"
  /\ wait[u] = 0
  /\ \A v \in Urls : loop[v] # "announcing"
  /\ loop' = [loop EXCEPT ![u] = "announcing"]
  /\ UNCHANGED <<wait, since, last, seenPeers, destroyed, aborted>>

(* The timer of one URL fires and its announce begins.                     *)
TimerFires(u) ==
  /\ loop[u] = "scheduled"
  /\ wait[u] = 0
  /\ loop' = [loop EXCEPT ![u] = "announcing"]
  /\ UNCHANGED <<wait, since, last, seenPeers, destroyed, aborted>>

(* _emitPeer for each peer of an answer: those that can be connected to    *)
(* and are new.                                                            *)
EmitPeers(answer) == seenPeers' = seenPeers \cup (answer \cap Usable)

AnsweredUnguarded(u) ==                                              \* mutant
  /\ loop[u] = "announcing"
  /\ u \notin Malformed
  /\ \E answer \in SUBSET Peers, interval \in Intervals :
       /\ EmitPeers(answer)
       /\ ScheduleAnnounce(u, Clamp(interval))
       /\ last' = [last EXCEPT ![u] = interval]
  /\ since' = [since EXCEPT ![u] = 0]
  /\ UNCHANGED <<destroyed, aborted>>

(* The announce is answered.  The answer may have been under way when the  *)
(* client was destroyed: its peers are then dropped.                       *)
Answered(u) ==
  /\ loop[u] = "announcing"
  /\ u \notin Malformed
  /\ \E answer \in SUBSET Peers, interval \in Intervals :
       /\ IF destroyed THEN UNCHANGED seenPeers ELSE EmitPeers(answer)
       /\ ScheduleAnnounce(u, Clamp(interval))
       /\ last' = [last EXCEPT ![u] = interval]
  /\ since' = [since EXCEPT ![u] = 0]
  /\ UNCHANGED <<destroyed, aborted>>

(* The announce fails: silence, an error, the abort, a URL it cannot use.  *)
Fails(u) ==
  /\ loop[u] = "announcing"
  /\ ScheduleAnnounce(u, Default)
  /\ last' = [last EXCEPT ![u] = NoAnswer]
  /\ since' = [since EXCEPT ![u] = 0]
  /\ UNCHANGED <<seenPeers, destroyed, aborted>>

DestroyWithoutAbort ==                                               \* mutant
  /\ ~ destroyed
  /\ destroyed' = TRUE
  /\ UNCHANGED aborted
  /\ loop' = [u \in Urls |-> IF loop[u] = "announcing" THEN loop[u] ELSE "stopped"]
  /\ UNCHANGED <<wait, since, last, seenPeers>>

(* destroy(): the timers are cleared and the announces aborted.            *)
Destroy ==
  /\ ~ destroyed
  /\ destroyed' = TRUE
  /\ aborted' = TRUE
  /\ loop' = [u \in Urls |-> IF loop[u] = "announcing" THEN loop[u] ELSE "stopped"]
  /\ UNCHANGED <<wait, since, last, seenPeers>>

Next ==
  \/ Start
  \/ Tick
  \/ \E u \in Urls : TimerFires(u) \/ Answered(u) \/ Fails(u)
  \/ Destroy

Spec == Init /\ [][Next]_vars

(* Timers fire.  An announce that is aborted is over soon, and so is one   *)
(* that cannot be made; any other may last as long as it likes.            *)
Fairness ==
  /\ WF_vars(Tick)
  /\ \A u \in Urls :
       /\ WF_vars(TimerFires(u))
       /\ WF_vars((aborted \/ u \in Malformed) /\ Fails(u))

FairSpec == Spec /\ Fairness

-----------------------------------------------------------------------------
(* A tracker is never announced to again before the time its last answer   *)
(* asked for is over, within the floor and the ceiling: "a tracker that    *)
(* asked for a long interval isn't hammered at some shorter one".          *)
NeverHammered ==
  [][\A u \in Urls :
       loop[u] = "scheduled" /\ loop'[u] = "announcing" =>
         /\ since[u] >= Floor
         /\ since[u] >= last[u] \/ since[u] = Ceiling]_vars

(* Nothing is left on a timer once the client is destroyed, and no announce *)
(* that ends afterwards puts anything back.                                *)
NothingScheduledOnceDestroyed ==
  destroyed => \A u \in Urls : loop[u] # "scheduled"

(* No peer is reported by a destroyed client, even when an answer was on   *)
(* its way; and only peers that can be connected to are ever reported.     *)
QuietOnceDestroyed == [][destroyed => UNCHANGED seenPeers]_vars

OnlyUsablePeers == seenPeers \subseteq Usable

(* "A slow or dead tracker only ever delays itself": a tracker whose turn  *)
(* is set is announced to, although every other announce may hang.         *)
OwnClock ==
  \A u \in Urls :
    loop[u] = "scheduled" ~> (loop[u] = "announcing" \/ destroyed)

(* A destroyed client comes to rest: every loop stops.                     *)
RestsOnceDestroyed == destroyed ~> (\A u \in Urls : loop[u] = "stopped")

(* What the comment on the UDP retransmit schedule relies on: a tracker    *)
(* whose announce failed is tried again 15 seconds later.                  *)
FailureRetriedIn15s ==
  [][\A u \in Urls :
       loop[u] = "announcing" /\ loop'[u] = "scheduled" /\ last'[u] = NoAnswer
         => wait'[u] <= 15]_vars

=============================================================================
