---------------------------- MODULE TrackerList ----------------------------
(***************************************************************************)
(* buildTrackerList (trackers.js): the announce list of a resolution, from *)
(* the magnet's trackers, the caller's and a denylist.                     *)
(*                                                                         *)
(* A URL is a spelling.  What normalize makes of it, and whether the URL   *)
(* parser accepts it, are facts about it: NBSP before a URL is trimmed by  *)
(* the former and rejected by the latter.                                  *)
(***************************************************************************)
EXTENDS Sequences, SequencesExt

CONSTANTS Key,      \* per spelling, the trimmed lower-case form of it
          Invalid   \* the spellings isValidTrackerUrl rejects

BuildBySpelling(magnetAnnounce, extraTrackers, denylist) ==          \* mutant
  LET denied == {Key[denylist[i]] : i \in DOMAIN denylist}
      Consider(list, url) ==
        IF url \in {list[i] : i \in DOMAIN list} \cup Invalid \/ Key[url] \in denied
          THEN list
          ELSE Append(list, url)
  IN FoldLeft(Consider, <<>>, magnetAnnounce \o extraTrackers)

(* Each spelling in turn: skipped if its key has been seen, then noted as  *)
(* seen, then skipped if it is denied or invalid.                          *)
BuildTrackerList(magnetAnnounce, extraTrackers, denylist) ==
  LET denied == {Key[denylist[i]] : i \in DOMAIN denylist}
      Consider(acc, url) ==
        [seen |-> acc.seen \cup {Key[url]},
         list |-> IF Key[url] \in acc.seen \cup denied \/ url \in Invalid
                    THEN acc.list
                    ELSE Append(acc.list, url)]
      start == [seen |-> {}, list |-> <<>>]
  IN FoldLeft(Consider, start, magnetAnnounce \o extraTrackers).list

-----------------------------------------------------------------------------
(* "Deduped, denylist-filtered, syntactically-valid tracker URLs, in       *)
(* first-seen order": of every key that is not denied the first spelling,  *)
(* if it is valid, and nothing else.  A later valid spelling does not      *)
(* stand in for an invalid first one.                                      *)
First(all, i) == \A j \in 1 .. i - 1 : Key[all[j]] # Key[all[i]]

IsTrackerList(list, magnetAnnounce, extraTrackers, denylist) ==
  LET all == magnetAnnounce \o extraTrackers
      Kept(i) == /\ First(all, i)
                 /\ \A j \in DOMAIN denylist : Key[denylist[j]] # Key[all[i]]
                 /\ all[i] \notin Invalid
  IN /\ {list[k] : k \in DOMAIN list} = {all[i] : i \in {j \in DOMAIN all : Kept(j)}}
     /\ \A k, l \in DOMAIN list : k < l =>
          \E i, j \in DOMAIN all :
            i < j /\ Kept(i) /\ Kept(j) /\ all[i] = list[k] /\ all[j] = list[l]

=============================================================================
