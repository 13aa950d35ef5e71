---------------------------- MODULE MCResolution ----------------------------
(* TLC instances of Resolution.  There is one exchange more than there are *)
(* peers, so that a second dial of a peer would find a call to make.       *)
EXTENDS Resolution, TLC

CallSymmetry == Permutations(Calls)

(* One second more than setTimeout can be told to wait.                    *)
HugeBudget == {2147484}
=============================================================================
