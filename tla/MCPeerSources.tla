--------------------------- MODULE MCPeerSources ---------------------------
(* An instance of PeerSources with two trackers, one of which is spelled   *)
(* in three ways, and a URL that is valid and cannot be announced to.      *)
EXTENDS PeerSources

CONSTANTS u1, v1, n1, u2, ws

MCKey == [u \in Urls |-> IF u \in {v1, n1} THEN u1 ELSE u]

Lists(S, n) == UNION {[1 .. k -> S] : k \in 0 .. n}

MCInputs ==
  [magnet : Lists(Urls, 2), extra : Lists({u1, v1, u2}, 2), denylist : Lists({v1, u2}, 1)]

(* None, one below the floor, one in between, one above the ceiling.       *)
MCIntervals == {NoInterval, 0, 2, 4}

(* No tracker, two, and one with a URL that is no tracker's.              *)
MCFollowed == {<<>>, <<u1, u2>>, <<ws, u2>>}
=============================================================================
