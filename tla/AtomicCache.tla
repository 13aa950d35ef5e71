---------------------------- MODULE AtomicCache ----------------------------
(***************************************************************************)
(* What the users of a dhtCacheFile may rely on: the file holds nothing or *)
(* exactly one complete routing table, and each writer replaces it at most *)
(* once, with its own table.                                               *)
(***************************************************************************)
CONSTANTS Writers,  \* the writers; each has one routing table to save
          Nothing   \* there is no file

VARIABLES content,  \* whose table the file holds
          over      \* the writers that have written or given up

vars == <<content, over>>

TypeOK ==
  /\ content \in Writers \cup {Nothing}
  /\ over \subseteq Writers

Init ==
  /\ content = Nothing
  /\ over = {}

Save(w) ==
  /\ w \notin over
  /\ content' = w
  /\ over' = over \cup {w}

GiveUp(w) ==
  /\ w \notin over
  /\ over' = over \cup {w}
  /\ UNCHANGED content

Next == \E w \in Writers : Save(w) \/ GiveUp(w)

Spec == Init /\ [][Next]_vars

=============================================================================
