---------------------------- MODULE ScopedCalls ----------------------------
(***************************************************************************)
(* What every asynchronous operation of the library promises its caller,   *)
(* whatever resources it opens on the way: a call that has not begun or    *)
(* has settled holds nothing, a call settles at most once, and what it     *)
(* settled with never changes.  Several calls may move in one step, since  *)
(* one AbortSignal settles all the calls that listen to it.                *)
(***************************************************************************)
CONSTANTS Calls,      \* the identities of the calls
          Resources   \* the kinds of thing a call can hold open

VARIABLES status,     \* per call: not begun, running, or how it settled
          held        \* per call: what it holds open

vars == <<status, held>>

Settled == {"resolved", "rejected"}

TypeOK ==
  /\ status \in [Calls -> {"idle", "running"} \cup Settled]
  /\ held \in [Calls -> SUBSET Resources]

Init ==
  /\ status = [c \in Calls |-> "idle"]
  /\ held = [c \in Calls |-> {}]

Unmoved(c) == status'[c] = status[c] /\ held'[c] = held[c]

(* A call begins, and may settle at once (its signal was already aborted). *)
Begin(c) ==
  /\ status[c] = "idle"
  /\ \/ status'[c] = "running" /\ held'[c] \in SUBSET Resources
     \/ status'[c] \in Settled /\ held'[c] = {}

(* It opens and closes things while it runs ... *)
Work(c) ==
  /\ status[c] = "running"
  /\ status'[c] = "running"
  /\ held'[c] \in SUBSET Resources

(* ... and lets go of all of them in the step that settles it. *)
Settle(c) ==
  /\ status[c] = "running"
  /\ status'[c] \in Settled
  /\ held'[c] = {}

Next ==
  /\ DOMAIN status' = Calls
  /\ DOMAIN held' = Calls
  /\ \A c \in Calls : Unmoved(c) \/ Begin(c) \/ Work(c) \/ Settle(c)

Spec == Init /\ [][Next]_vars

=============================================================================
