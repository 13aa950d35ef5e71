------------------------- MODULE PeerSources_proofs -------------------------
(***************************************************************************)
(* Theorems about PeerSources and the two parts of it that have no module  *)
(* of proofs of their own: TrackerList and PeerDiscovery.                  *)
(*                                                                         *)
(* First the announce list is the promised one for all lists of spellings; *)
(* then the discovery is correct by itself; then the composition runs a    *)
(* tracker client and implements the discovery, and inherits what has been *)
(* proved about each.                                                      *)
(***************************************************************************)
EXTENDS PeerSources, TrackerClient_proofs, SequenceTheorems, WellFoundedInduction

(* Induction over the naturals as a fact about sets: the theorem of the    *)
(* library takes the formula as an operator, which no prover here can      *)
(* instantiate.                                                            *)
LEMMA SetInduction ==
  ASSUME NEW S, 0 \in S, \A n \in Nat : n \in S => n + 1 \in S
  PROVE  Nat \subseteq S
<1> DEFINE T == Nat \ S
           R == OpToRel(<, Nat)
<1> SUFFICES ASSUME T # {} PROVE FALSE
  OBVIOUS
<1>1. PICK x \in T : \A y \in T : <<y, x>> \notin R
  BY NatLessThanWellFounded, WFMin, T \subseteq Nat
<1>2. x \in Nat /\ x # 0 /\ x - 1 \in Nat
  OBVIOUS
<1>3. x - 1 \in T
  BY <1>2, (x - 1) + 1 = x
<1>4. <<x - 1, x>> \in R
  BY <1>2, x - 1 < x DEF OpToRel
<1> QED BY <1>1, <1>3, <1>4

-----------------------------------------------------------------------------
(* One round of buildTrackerList's loop, what it begins with and the keys  *)
(* of the denylist, as BuildTrackerList has them in its LET.               *)
Consider(acc, url, denied) ==
  [seen |-> acc.seen \cup {Key[url]},
   list |-> IF Key[url] \in acc.seen \cup denied \/ url \in Invalid
              THEN acc.list
              ELSE Append(acc.list, url)]

EmptyAcc == [seen |-> {}, list |-> <<>>]

Denied(denylist) == {Key[denylist[i]] : i \in DOMAIN denylist}

(* f[s] is what the loop has made of the spellings at the positions s.     *)
IsFold(f, D, all, denied) ==
  f = [s \in SUBSET D |->
         IF s = {} THEN EmptyAcc
         ELSE Consider(f[s \ {List!Max(s)}], all[List!Max(s)], denied)]

(* FoldLeft is such a function at all positions.                           *)
LEMMA BuildIsFold ==
  ASSUME NEW m, NEW e, NEW d
  PROVE  List!BuildTrackerList(m, e, d) =
           (CHOOSE f : IsFold(f, DOMAIN (m \o e), m \o e, Denied(d)))[DOMAIN (m \o e)].list
  BY Zenon DEF List!BuildTrackerList, List!FoldLeft, List!MapThenFoldSet, IsFold, Consider, EmptyAcc, Denied

(* The last of the positions is the greatest.                              *)
LEMMA LastOfPrefix ==
  ASSUME NEW n \in Nat, NEW s \in SUBSET (1 .. n + 1), n + 1 \in s
  PROVE  List!Max(s) = n + 1 /\ s \ {n + 1} \in SUBSET (1 .. n)
<1> DEFINE IsMax(x) == x \in s /\ \A y \in s : x >= y
<1>1. IsMax(n + 1) /\ \A x : IsMax(x) => x = n + 1
  <2>1. \A y \in s : n + 1 >= y
    OBVIOUS
  <2>2. \A x \in s : (\A y \in s : x >= y) => x = n + 1
    OBVIOUS
  <2> QED BY <2>1, <2>2
<1>2. List!Max(s) = CHOOSE x : IsMax(x)
  BY Zenon DEF List!Max
<1> HIDE DEF IsMax
<1>3. List!Max(s) = n + 1
  BY <1>1, <1>2
<1>4. s \ {n + 1} \in SUBSET (1 .. n)
  OBVIOUS
<1> QED BY <1>3, <1>4

(* There is such a function: the one for n + 1 positions extends the one   *)
(* for n.                                                                  *)
LEMMA FoldExists ==
  ASSUME NEW all, NEW denied, NEW N \in Nat
  PROVE  \E f : IsFold(f, 1 .. N, all, denied)
<1> DEFINE S == {n \in Nat : \E f : IsFold(f, 1 .. n, all, denied)}
<1>1. 0 \in S
  <2> DEFINE f == [s \in SUBSET (1 .. 0) |-> EmptyAcc]
  <2>1. \A s \in SUBSET (1 .. 0) : s = {}
    OBVIOUS
  <2>2. IsFold(f, 1 .. 0, all, denied)
    BY <2>1 DEF IsFold
  <2> QED BY <2>2
<1>2. ASSUME NEW n \in Nat, n \in S PROVE n + 1 \in S
  <2>1. PICK f : IsFold(f, 1 .. n, all, denied)
    BY <1>2
  <2> DEFINE g == [s \in SUBSET (1 .. n + 1) |->
                     IF n + 1 \in s THEN Consider(f[s \ {n + 1}], all[n + 1], denied) ELSE f[s]]
  <2>2. ASSUME NEW s \in SUBSET (1 .. n + 1)
        PROVE  g[s] = IF s = {} THEN EmptyAcc
                      ELSE Consider(g[s \ {List!Max(s)}], all[List!Max(s)], denied)
    <3>1. CASE n + 1 \in s
      <4>1. /\ List!Max(s) = n + 1
            /\ s \ {n + 1} \in SUBSET (1 .. n)
        BY <3>1, LastOfPrefix
      <4>2. g[s] = Consider(f[s \ {n + 1}], all[n + 1], denied)
        BY <3>1
      <4>3. s \ {n + 1} \in SUBSET (1 .. n + 1)
        BY <4>1
      <4>4. g[s \ {n + 1}] = f[s \ {n + 1}]
        BY <4>3
      <4> HIDE DEF g
      <4> QED BY <3>1, <4>1, <4>2, <4>4
    <3>2. CASE n + 1 \notin s
      <4>1. s \in SUBSET (1 .. n)
        BY <3>2
      <4>2. f[s] = IF s = {} THEN EmptyAcc
                   ELSE Consider(f[s \ {List!Max(s)}], all[List!Max(s)], denied)
        <5>1. f = [t \in SUBSET (1 .. n) |->
                    IF t = {} THEN EmptyAcc
                    ELSE Consider(f[t \ {List!Max(t)}], all[List!Max(t)], denied)]
          BY <2>1 DEF IsFold
        <5> QED BY <4>1, <5>1, Zenon
      <4>3. g[s] = f[s]
        BY <3>2
      <4>4. \A x : g[s \ {x}] = f[s \ {x}]
        BY <3>2
      <4> HIDE DEF g
      <4> QED BY <4>2, <4>3, <4>4
    <3> QED BY <3>1, <3>2
  <2>3. IsFold(g, 1 .. n + 1, all, denied)
    <3>1. g = [s \in SUBSET (1 .. n + 1) |-> g[s]]
      OBVIOUS
    <3> HIDE DEF g
    <3> QED BY <2>2, <3>1 DEF IsFold
  <2> QED BY <2>3
<1> HIDE DEF S
<1>3. N \in S
  BY <1>1, <1>2, SetInduction
<1> QED BY <1>3 DEF S

(* So the list comes out of the loop, one round after the other.           *)
LEMMA BuildUnfolds ==
  ASSUME NEW m \in Seq(Urls), NEW e \in Seq(Urls), NEW d
  PROVE  \E acc :
           /\ acc[0] = EmptyAcc
           /\ \A n \in 0 .. Len(m \o e) - 1 :
                acc[n + 1] = Consider(acc[n], (m \o e)[n + 1], Denied(d))
           /\ List!BuildTrackerList(m, e, d) = acc[Len(m \o e)].list
<1> DEFINE all == m \o e
           f == CHOOSE g : IsFold(g, 1 .. Len(all), all, Denied(d))
           acc == [n \in 0 .. Len(all) |-> f[1 .. n]]
<1>1. Len(all) \in Nat /\ DOMAIN all = 1 .. Len(all)
  BY ConcatProperties, LenProperties
<1>2. IsFold(f, 1 .. Len(all), all, Denied(d))
  BY <1>1, FoldExists
<1>3. List!BuildTrackerList(m, e, d) = f[1 .. Len(all)].list
  BY <1>1, BuildIsFold
<1> HIDE DEF f, all
<1>4. \A s \in SUBSET (1 .. Len(all)) :
        f[s] = IF s = {} THEN EmptyAcc
               ELSE Consider(f[s \ {List!Max(s)}], all[List!Max(s)], Denied(d))
  <2>1. f = [s \in SUBSET (1 .. Len(all)) |->
               IF s = {} THEN EmptyAcc
               ELSE Consider(f[s \ {List!Max(s)}], all[List!Max(s)], Denied(d))]
    BY <1>2 DEF IsFold
  <2> HIDE DEF EmptyAcc
  <2> QED BY <2>1
<1>5. acc[0] = EmptyAcc
  <2>1. f[{}] = EmptyAcc
    BY <1>4
  <2>2. 1 .. 0 = {}
    OBVIOUS
  <2> QED BY <1>1, <2>1, <2>2
<1>6. ASSUME NEW n \in 0 .. Len(all) - 1
      PROVE  acc[n + 1] = Consider(acc[n], all[n + 1], Denied(d))
  <2>1. n \in Nat /\ n + 1 \in 0 .. Len(all) /\ n \in 0 .. Len(all)
    BY <1>1
  <2>2. 1 .. n + 1 \in SUBSET (1 .. Len(all)) /\ 1 .. n + 1 # {}
    <3>1. n + 1 \in 1 .. n + 1
      BY <2>1
    <3>2. \A i \in 1 .. n + 1 : i \in 1 .. Len(all)
      BY <1>1, <2>1
    <3> QED BY <3>1, <3>2
  <2>3. List!Max(1 .. n + 1) = n + 1
    BY <2>1, LastOfPrefix
  <2>4. (1 .. n + 1) \ {n + 1} = 1 .. n
    BY <2>1
  <2>5. f[1 .. n + 1] = Consider(f[1 .. n], all[n + 1], Denied(d))
    BY <1>4, <2>2, <2>3, <2>4
  <2>6. acc[n + 1] = f[1 .. n + 1] /\ acc[n] = f[1 .. n]
    BY <2>1
  <2> HIDE DEF acc
  <2> QED BY <2>5, <2>6
<1>7. List!BuildTrackerList(m, e, d) = acc[Len(all)].list
  BY <1>1, <1>3
<1> HIDE DEF acc
<1> QED BY <1>5, <1>6, <1>7 DEF all

-----------------------------------------------------------------------------
(* The spellings the list is to consist of.                                *)
Kept(all, d, i) ==
  /\ List!First(all, i)
  /\ \A j \in DOMAIN d : Key[d[j]] # Key[all[i]]
  /\ all[i] \notin Invalid

(* The list consists of the kept spellings among the first n, in order.    *)
ListUpTo(list, all, d, n) ==
  /\ list \in Seq(Urls)
  /\ \E pos \in [1 .. Len(list) -> 1 .. n] :
       /\ \A k \in 1 .. Len(list) : Kept(all, d, pos[k]) /\ list[k] = all[pos[k]]
       /\ \A k, l \in 1 .. Len(list) : k < l => pos[k] < pos[l]
       /\ \A i \in 1 .. n : Kept(all, d, i) => \E k \in 1 .. Len(list) : pos[k] = i

(* What the loop has seen by then.                                         *)
Keys(all, n) == {Key[all[i]] : i \in 1 .. n}

(* A round keeps the loop's invariant.                                     *)
LEMMA RoundKeepsList ==
  ASSUME NEW all \in Seq(Urls), NEW d, NEW n \in 0 .. Len(all) - 1, NEW acc,
         acc.seen = Keys(all, n), ListUpTo(acc.list, all, d, n)
  PROVE  LET next == Consider(acc, all[n + 1], Denied(d))
         IN next.seen = Keys(all, n + 1) /\ ListUpTo(next.list, all, d, n + 1)
<1> DEFINE next == Consider(acc, all[n + 1], Denied(d))
<1>1. /\ n \in Nat /\ n + 1 \in 1 .. Len(all) /\ all[n + 1] \in Urls
  BY LenProperties, ElementOfSeq
<1>2. next.seen = Keys(all, n + 1)
  BY <1>1 DEF Consider, Keys
<1>3. Kept(all, d, n + 1) <=>
        ~ (Key[all[n + 1]] \in acc.seen \cup Denied(d) \/ all[n + 1] \in Invalid)
  <2>1. List!First(all, n + 1) <=> Key[all[n + 1]] \notin acc.seen
    BY <1>1 DEF List!First, Keys
  <2>2. (\A j \in DOMAIN d : Key[d[j]] # Key[all[n + 1]]) <=> Key[all[n + 1]] \notin Denied(d)
    BY DEF Denied
  <2> QED BY <2>1, <2>2 DEF Kept
<1>4. PICK pos \in [1 .. Len(acc.list) -> 1 .. n] :
       /\ \A k \in 1 .. Len(acc.list) : Kept(all, d, pos[k]) /\ acc.list[k] = all[pos[k]]
       /\ \A k, l \in 1 .. Len(acc.list) : k < l => pos[k] < pos[l]
       /\ \A i \in 1 .. n : Kept(all, d, i) => \E k \in 1 .. Len(acc.list) : pos[k] = i
  BY DEF ListUpTo
<1>5. acc.list \in Seq(Urls) /\ Len(acc.list) \in Nat
  BY LenProperties DEF ListUpTo
<1>6. CASE ~ Kept(all, d, n + 1)
  <2>1. next.list = acc.list
    BY <1>3, <1>6 DEF Consider
  <2>2. pos \in [1 .. Len(acc.list) -> 1 .. n + 1]
    BY <1>1
  <2>3. \A i \in 1 .. n + 1 : Kept(all, d, i) => \E k \in 1 .. Len(acc.list) : pos[k] = i
    BY <1>1, <1>4, <1>6
  <2>4. ListUpTo(acc.list, all, d, n + 1)
    BY <1>4, <1>5, <2>2, <2>3 DEF ListUpTo
  <2> QED BY <1>2, <2>1, <2>4
<1>7. CASE Kept(all, d, n + 1)
  <2> DEFINE len == Len(acc.list)
             pos2 == [k \in 1 .. len + 1 |-> IF k = len + 1 THEN n + 1 ELSE pos[k]]
  <2>1. next.list = Append(acc.list, all[n + 1])
    BY <1>3, <1>7 DEF Consider
  <2>2. /\ next.list \in Seq(Urls)
        /\ Len(next.list) = len + 1
        /\ \A k \in 1 .. len : next.list[k] = acc.list[k]
        /\ next.list[len + 1] = all[n + 1]
    BY <1>1, <1>5, <2>1, AppendProperties
  <2>3. pos2 \in [1 .. len + 1 -> 1 .. n + 1]
    BY <1>1, <1>5
  <2>4. /\ pos2[len + 1] = n + 1
        /\ \A k \in 1 .. len : pos2[k] = pos[k] /\ pos[k] \in 1 .. n
    <3>1. len + 1 \in 1 .. len + 1
      BY <1>5
    <3>2. \A k \in 1 .. len : k \in 1 .. len + 1 /\ k # len + 1
      BY <1>5
    <3> QED BY <3>1, <3>2
  <2> HIDE DEF pos2, next
  <2>5. \A k \in 1 .. len + 1 : k \in 1 .. len \/ k = len + 1
    BY <1>5
  <2>6. \A k \in 1 .. len + 1 : Kept(all, d, pos2[k]) /\ next.list[k] = all[pos2[k]]
    BY <1>4, <1>7, <2>2, <2>4, <2>5
  <2>7. \A k, l \in 1 .. len + 1 : k < l => pos2[k] < pos2[l]
    <3> SUFFICES ASSUME NEW k \in 1 .. len + 1, NEW l \in 1 .. len + 1, k < l
                 PROVE  pos2[k] < pos2[l]
      OBVIOUS
    <3>1. k \in 1 .. len
      BY <1>5
    <3>2. CASE l \in 1 .. len
      BY <1>4, <2>4, <3>1, <3>2
    <3>3. CASE l = len + 1
      BY <1>1, <2>4, <3>1, <3>3
    <3> QED BY <2>5, <3>2, <3>3
  <2>8. \A i \in 1 .. n + 1 : Kept(all, d, i) => \E k \in 1 .. len + 1 : pos2[k] = i
    <3>1. \A i \in 1 .. n : Kept(all, d, i) => \E k \in 1 .. len + 1 : pos2[k] = i
      BY <1>4, <1>5, <2>4
    <3>2. len + 1 \in 1 .. len + 1
      BY <1>5
    <3> QED BY <1>1, <2>4, <3>1, <3>2
  <2>9. ListUpTo(next.list, all, d, n + 1)
    <3> DEFINE dom == 1 .. Len(next.list)
               Good(q) ==
                 /\ \A k \in dom : Kept(all, d, q[k]) /\ next.list[k] = all[q[k]]
                 /\ \A k, l \in dom : k < l => q[k] < q[l]
                 /\ \A i \in 1 .. n + 1 : Kept(all, d, i) => \E k \in dom : q[k] = i
    <3>1. dom = 1 .. len + 1
      BY <2>2
    <3>2. Good(pos2)
      BY <2>6, <2>7, <2>8, <3>1
    <3> HIDE DEF dom, Good
    <3>3. \E q \in [dom -> 1 .. n + 1] : Good(q)
      BY <2>3, <3>1, <3>2
    <3> QED BY <2>2, <3>3, Zenon DEF ListUpTo, Good, dom
  <2> QED BY <1>2, <2>9 DEF next
<1> QED BY <1>6, <1>7

(* buildTrackerList returns what its comment promises, for all lists of    *)
(* spellings, whatever their keys and whichever of them are invalid.       *)
THEOREM BuildsTrackerList ==
  ASSUME NEW m \in Seq(Urls), NEW e \in Seq(Urls), NEW d
  PROVE  List!IsTrackerList(List!BuildTrackerList(m, e, d), m, e, d)
<1> DEFINE all == m \o e
<1>1. all \in Seq(Urls) /\ Len(all) \in Nat /\ DOMAIN all = 1 .. Len(all)
  BY ConcatProperties, LenProperties
<1>2. PICK acc :
           /\ acc[0] = EmptyAcc
           /\ \A n \in 0 .. Len(all) - 1 : acc[n + 1] = Consider(acc[n], all[n + 1], Denied(d))
           /\ List!BuildTrackerList(m, e, d) = acc[Len(all)].list
  BY BuildUnfolds
<1> HIDE DEF all
<1> DEFINE Right(n) == acc[n].seen = Keys(all, n) /\ ListUpTo(acc[n].list, all, d, n)
           S == {n \in Nat : n <= Len(all) => Right(n)}
<1>3. 0 \in S
  <2>1. acc[0].seen = Keys(all, 0)
    BY <1>2 DEF EmptyAcc, Keys
  <2>2. acc[0].list = <<>> /\ Len(<<>>) = 0 /\ <<>> \in Seq(Urls)
    BY <1>2, EmptySeq DEF EmptyAcc
  <2>3. ListUpTo(<<>>, all, d, 0)
    <3> DEFINE pos == [k \in 1 .. 0 |-> 0]
    <3>1. pos \in [1 .. Len(<<>>) -> 1 .. 0]
      BY <2>2
    <3>2. \A i : i \notin 1 .. 0
      OBVIOUS
    <3> HIDE DEF pos
    <3>3. \E q \in [1 .. 0 -> 1 .. 0] : TRUE
      BY <2>2, <3>1
    <3> QED BY <2>2, <3>2, <3>3 DEF ListUpTo
  <2> QED BY <2>1, <2>2, <2>3
<1>4. ASSUME NEW n \in Nat, n \in S PROVE n + 1 \in S
  <2> SUFFICES ASSUME n + 1 <= Len(all) PROVE Right(n + 1)
    OBVIOUS
  <2>1. n \in 0 .. Len(all) - 1 /\ Right(n)
    BY <1>1, <1>4
  <2> QED BY <1>1, <1>2, <2>1, RoundKeepsList
<1> HIDE DEF S
<1>5. Len(all) \in S
  BY <1>1, <1>3, <1>4, SetInduction
<1>6. ListUpTo(List!BuildTrackerList(m, e, d), all, d, Len(all))
  BY <1>1, <1>2, <1>5 DEF S
<1> DEFINE list == List!BuildTrackerList(m, e, d)
<1>7. DOMAIN list = 1 .. Len(list)
  BY <1>6, LenProperties DEF ListUpTo
<1> HIDE DEF list
<1>8. PICK pos \in [1 .. Len(list) -> 1 .. Len(all)] :
       /\ \A k \in 1 .. Len(list) : Kept(all, d, pos[k]) /\ list[k] = all[pos[k]]
       /\ \A k, l \in 1 .. Len(list) : k < l => pos[k] < pos[l]
       /\ \A i \in 1 .. Len(all) : Kept(all, d, i) => \E k \in 1 .. Len(list) : pos[k] = i
  BY <1>6 DEF ListUpTo, list
<1>9. {list[k] : k \in DOMAIN list} = {all[i] : i \in {j \in DOMAIN all : Kept(all, d, j)}}
  <2>1. ASSUME NEW k \in DOMAIN list
        PROVE  list[k] \in {all[i] : i \in {j \in DOMAIN all : Kept(all, d, j)}}
    <3>1. /\ pos[k] \in DOMAIN all /\ Kept(all, d, pos[k])
          /\ list[k] = all[pos[k]]
      BY <1>1, <1>7, <1>8
    <3> QED BY <3>1
  <2>2. ASSUME NEW i \in DOMAIN all, Kept(all, d, i)
        PROVE  all[i] \in {list[k] : k \in DOMAIN list}
    <3>1. PICK k \in DOMAIN list : pos[k] = i
      BY <1>1, <1>7, <1>8, <2>2
    <3> QED BY <1>7, <1>8, <3>1
  <2> QED BY <2>1, <2>2
<1>10. \A k, l \in DOMAIN list : k < l =>
          \E i, j \in DOMAIN all :
            i < j /\ Kept(all, d, i) /\ Kept(all, d, j) /\ all[i] = list[k] /\ all[j] = list[l]
  BY <1>1, <1>7, <1>8
<1> QED BY <1>9, <1>10 DEF List!IsTrackerList, Kept, all, list

-----------------------------------------------------------------------------
(* PeerDiscovery by itself.  Once it is destroyed, both sources of peers   *)
(* are cut off and so is the timer that would ask one of them again; and   *)
(* before start() there are none.                                          *)
CutOffOnceOver ==
  over => ~ dhtListener /\ dhtInterval = "cleared" /\ tracker # "running"

DiscoveryInv ==
  /\ dhtInterval \in {"none", "armed", "cleared"}
  /\ CutOffOnceOver
  /\ Discovery!OwnSwarmOnly

LEMMA DiscoveryInitInv == Discovery!Init => DiscoveryInv
  BY DEF Discovery!Init, DiscoveryInv, CutOffOnceOver, Discovery!OwnSwarmOnly

(* Every step of a discovery keeps the invariant.                          *)
LEMMA DiscoveryNextInv ==
  DiscoveryInv /\ [Discovery!Next]_(Discovery!vars) => DiscoveryInv'
<1> SUFFICES ASSUME DiscoveryInv, [Discovery!Next]_(Discovery!vars)
             PROVE  DiscoveryInv'
  OBVIOUS
<1> USE DEF DiscoveryInv, CutOffOnceOver, Discovery!OwnSwarmOnly
<1>1. CASE Discovery!Start
  BY <1>1 DEF Discovery!Start
<1>2. CASE Discovery!Relookup
  BY <1>2 DEF Discovery!Relookup
<1>3. CASE Discovery!LookupEnds
  BY <1>3 DEF Discovery!LookupEnds
<1>4. ASSUME NEW p \in Peers, Discovery!DhtPeer(p)
      PROVE  DiscoveryInv'
  BY <1>4 DEF Discovery!DhtPeer, Discovery!Accepts, Discovery!EmitPeer, Discovery!EmitPeers
<1>5. ASSUME NEW S \in SUBSET Usable, Discovery!TrackerPeers(S)
      PROVE  DiscoveryInv'
  BY <1>5 DEF Discovery!TrackerPeers, Discovery!EmitPeers
<1>6. CASE dhtInterval # "none" /\ Discovery!Destroy
  BY <1>6 DEF Discovery!Destroy
<1>7. CASE UNCHANGED Discovery!vars
  BY <1>7 DEF Discovery!vars
<1> QED BY <1>1, <1>2, <1>3, <1>4, <1>5, <1>6, <1>7 DEF Discovery!Next

(* The invariant holds in every reachable state of a discovery.            *)
THEOREM DiscoveryInductive == Discovery!Spec => []DiscoveryInv
  BY DiscoveryInitInv, DiscoveryNextInv, PTL DEF Discovery!Spec

(* Only peers of this infohash are emitted, whatever the shared DHT and    *)
(* the trackers report and in whatever order.                              *)
THEOREM OwnSwarm == Discovery!Spec => []Discovery!OwnSwarmOnly
<1>1. DiscoveryInv => Discovery!OwnSwarmOnly
  BY DEF DiscoveryInv
<1> QED BY <1>1, DiscoveryInductive, PTL

(* A destroyed discovery reports no peer any more.                         *)
THEOREM DiscoveryQuiet == Discovery!Spec => Discovery!QuietOnceDestroyed
<1>1. DiscoveryInv /\ [Discovery!Next]_(Discovery!vars)
        => [over => UNCHANGED seen]_(Discovery!vars)
  BY DEF DiscoveryInv, CutOffOnceOver, Discovery!Next, Discovery!Start,
         Discovery!Relookup, Discovery!LookupEnds, Discovery!DhtPeer,
         Discovery!TrackerPeers, Discovery!Destroy
<1> QED
  BY <1>1, DiscoveryInductive, PTL DEF Discovery!Spec, Discovery!QuietOnceDestroyed

-----------------------------------------------------------------------------
(* Every step of the composition is one of its tracker client, or leaves   *)
(* the client alone.                                                       *)
LEMMA SourcesSteps == [SourcesNext]_allVars => [Next]_vars
<1> SUFFICES ASSUME SourcesNext PROVE [Next]_vars
  BY DEF allVars, vars
<1>1. CASE BuildList
  BY <1>1 DEF BuildList
<1>2. CASE StartSources
  <2>1. CASE announce = <<>>
    BY <1>2, <2>1 DEF StartSources
  <2>2. CASE announce # <<>>
    <3> DEFINE S == {announce[i] : i \in DOMAIN announce}
    <3>1. StartWith(S)
      BY <1>2, <2>2 DEF StartSources
    <3>2. StartWith(S \cap Urls)
      BY <3>1 DEF StartWith
    <3> QED BY <3>2 DEF Next, Start
  <2> QED BY <2>1, <2>2
<1>3. CASE DhtRuns
  BY <1>3 DEF DhtRuns
<1>4. CASE \E u \in Urls : TrackerAnswers(u)
  BY <1>4 DEF TrackerAnswers, Next
<1>5. CASE TrackerRuns
  BY <1>5 DEF TrackerRuns, Next
<1>6. CASE DestroySources
  BY <1>6 DEF DestroySources, Next
<1> QED BY <1>1, <1>2, <1>3, <1>4, <1>5, <1>6 DEF SourcesNext

(* So the composition runs a tracker client, and what has been proved of   *)
(* one holds of it: it leaves each tracker alone for as long as it asked   *)
(* for, and is quiet once destroyed.                                       *)
THEOREM ClientRuns == SourcesSpec => Spec
<1>1. SourcesInit => Init
  BY DEF SourcesInit
<1> QED BY <1>1, SourcesSteps, PTL DEF SourcesSpec, Spec

(* No tracker of the composition is announced to too early.                *)
THEOREM SourcesLeaveAlone == SourcesSpec => NeverHammered
  BY ClientRuns, LeavesAlone

(* Its client reports no peer once destroyed.                              *)
THEOREM SourcesQuiet == SourcesSpec => QuietOnceDestroyed
  BY ClientRuns, Quiet

-----------------------------------------------------------------------------
(* The discovery's view of its tracker client agrees with the client's     *)
(* own: without one no loop runs, and it is destroyed for both or for      *)
(* neither.  Before start() there is none.                                 *)
OneLife ==
  /\ tracker = "none" => \A u \in Urls : loop[u] = "none"
  /\ tracker = "destroyed" <=> destroyed
  /\ destroyed => aborted
  /\ dhtInterval = "none" => tracker = "none"

(* Together with the client's own IInv this is inductive.                  *)
SourcesInv ==
  /\ Discovery!TypeOK
  /\ given = {} \/ \E i \in Inputs : given = {i}
  /\ OneLife

LEMMA SourcesInitInv == SourcesInit => SourcesInv
  BY DEF SourcesInit, SourcesInv, Init, Discovery!Init, Discovery!TypeOK, OneLife

(* Every step of the composition keeps it.                                 *)
LEMMA SourcesNextInv == IInv /\ SourcesInv /\ [SourcesNext]_allVars => SourcesInv'
<1> SUFFICES ASSUME IInv, SourcesInv, [SourcesNext]_allVars PROVE SourcesInv'
  OBVIOUS
<1> USE DEF SourcesInv, Discovery!TypeOK, OneLife
<1>1. CASE BuildList
  BY <1>1 DEF BuildList, vars, discoveryVars
<1>2. CASE StartSources
  BY <1>2 DEF StartSources, Discovery!Start, StartWith, vars
<1>3. CASE DhtRuns
  <2>1. UNCHANGED <<vars, given>>
    BY <1>3 DEF DhtRuns
  <2>2. CASE Discovery!Relookup \/ Discovery!LookupEnds
    <3>1. /\ UNCHANGED <<seen, dhtListener, dhtInterval, tracker, over>>
          /\ lookup' \in BOOLEAN
      BY <2>2 DEF Discovery!Relookup, Discovery!LookupEnds
    <3> QED BY <2>1, <3>1 DEF vars
  <2>3. ASSUME NEW p \in Peers, Discovery!DhtPeer(p) PROVE SourcesInv'
    BY <2>1, <2>3 DEF Discovery!DhtPeer, Discovery!EmitPeer, Discovery!EmitPeers, vars
  <2> QED BY <1>3, <2>2, <2>3 DEF DhtRuns
<1>4. ASSUME NEW u \in Urls, TrackerAnswers(u) PROVE SourcesInv'
  <2>1. seenPeers \subseteq seenPeers' /\ seenPeers' \subseteq Peers
    BY <1>4, TrackerClientAssumption DEF TrackerAnswers, Answered, EmitPeers, IInv, TypeOK
  <2>2. tracker # "none"
    BY <1>4 DEF TrackerAnswers, Answered
  <2>3. /\ seen' = seen \cup (seenPeers' \ seenPeers)
        /\ UNCHANGED <<given, dhtListener, dhtInterval, tracker, over, lookup, destroyed, aborted>>
    BY <1>4 DEF TrackerAnswers, Answered, Discovery!EmitPeers
  <2> QED BY <2>1, <2>2, <2>3
<1>5. CASE TrackerRuns
  <2>1. UNCHANGED <<given, seen, dhtListener, dhtInterval, tracker, over, lookup, destroyed, aborted, seenPeers>>
    BY <1>5 DEF TrackerRuns, Quietly, discoveryVars, Tick, TimerFires, Fails
  <2>2. ASSUME tracker = "none" PROVE loop' = loop
    BY <1>5, <2>2 DEF TrackerRuns, Tick, TimerFires, Fails
  <2> QED BY <2>1, <2>2
<1>6. CASE DestroySources
  BY <1>6 DEF DestroySources, Discovery!Destroy, Destroy, vars
<1>7. CASE UNCHANGED allVars
  BY <1>7 DEF allVars, vars, discoveryVars
<1> QED BY <1>1, <1>2, <1>3, <1>4, <1>5, <1>6, <1>7 DEF SourcesNext

(* Both invariants hold in every reachable state of the composition.       *)
THEOREM SourcesInductive == SourcesSpec => [](IInv /\ SourcesInv)
  BY ClientRuns, Inductive, SourcesInitInv, SourcesNextInv, PTL DEF SourcesSpec

(* With the real client in the place of its environment's choices, the     *)
(* discovery does what PeerDiscovery says: a destroyed client emits        *)
(* nothing, a live one only peers of the swarm, and either is a step that  *)
(* PeerDiscovery allows.                                                   *)
THEOREM Refinement == SourcesSpec => ImplementsDiscovery
<1>1. SourcesInit => Discovery!Init
  BY DEF SourcesInit
<1>2. IInv /\ SourcesInv /\ [SourcesNext]_allVars => [Discovery!Next]_(Discovery!vars)
  <2> SUFFICES ASSUME IInv, SourcesInv, SourcesNext
               PROVE [Discovery!Next]_(Discovery!vars)
    BY DEF allVars, discoveryVars, Discovery!vars
  <2>1. CASE BuildList
    BY <2>1 DEF BuildList, discoveryVars, Discovery!vars
  <2>2. CASE StartSources
    BY <2>2 DEF StartSources, Discovery!Next
  <2>3. CASE DhtRuns
    BY <2>3 DEF DhtRuns, Discovery!Next
  <2>4. ASSUME NEW u \in Urls, TrackerAnswers(u)
        PROVE [Discovery!Next]_(Discovery!vars)
    <3>1. Discovery!EmitPeers(seenPeers' \ seenPeers)
      BY <2>4 DEF TrackerAnswers
    <3>2. CASE destroyed
      BY <2>4, <3>1, <3>2 DEF TrackerAnswers, Answered, Discovery!EmitPeers, Discovery!vars
    <3>3. CASE ~ destroyed
      <4>1. tracker = "running"
        BY <2>4, <3>3 DEF TrackerAnswers, Answered, SourcesInv, OneLife, Discovery!TypeOK
      <4>2. seenPeers' \subseteq Usable
        BY <2>4 DEF TrackerAnswers, Answered, EmitPeers, IInv, OnlyUsablePeers
      <4> QED BY <3>1, <4>1, <4>2 DEF Discovery!TrackerPeers, Discovery!Next
    <3> QED BY <3>2, <3>3
  <2>5. CASE TrackerRuns
    BY <2>5 DEF TrackerRuns, Quietly, discoveryVars, Discovery!vars
  <2>6. CASE DestroySources
    BY <2>6 DEF DestroySources, Discovery!Next
  <2> QED BY <2>1, <2>2, <2>3, <2>4, <2>5, <2>6 DEF SourcesNext
<1> QED BY <1>1, <1>2, SourcesInductive, PTL DEF SourcesSpec, ImplementsDiscovery, Discovery!Spec

-----------------------------------------------------------------------------
(* No tracker is announced to once the discovery is over: no timer is set, *)
(* and an announce under way is an aborted one.                            *)
THEOREM ClientCutOff ==
  SourcesSpec =>
    [](over => \A u \in Urls : /\ loop[u] # "scheduled"
                               /\ loop[u] = "announcing" => aborted)
<1>1. IInv /\ SourcesInv /\ DiscoveryInv =>
        (over => \A u \in Urls : /\ loop[u] # "scheduled"
                                 /\ loop[u] = "announcing" => aborted)
  BY DEF IInv, NothingScheduledOnceDestroyed, SourcesInv, OneLife,
         Discovery!TypeOK, DiscoveryInv, CutOffOnceOver
<1> QED
  BY <1>1, SourcesInductive, Refinement, DiscoveryInductive, PTL
     DEF ImplementsDiscovery

(* What the two parts emit together is of the swarm only ...               *)
THEOREM SourcesOwnSwarm == SourcesSpec => []Discovery!OwnSwarmOnly
  BY Refinement, OwnSwarm DEF ImplementsDiscovery

(* ... and nothing once the discovery is destroyed.                        *)
THEOREM SourcesQuietOnceOver == SourcesSpec => Discovery!QuietOnceDestroyed
  BY Refinement, DiscoveryQuiet DEF ImplementsDiscovery

(* The list that is announced to is the promised one, for all inputs.      *)
THEOREM AnnounceListRight == SourcesSpec => ListAsPromised
<1> DEFINE Promised ==
      \A i \in given :
        given' = {} => List!IsTrackerList(announce', i.magnet, i.extra, i.denylist)
<1>1. SourcesInv /\ [SourcesNext]_allVars => [Promised]_allVars
  <2> SUFFICES ASSUME SourcesInv, SourcesNext, NEW i \in given, given' = {}
               PROVE  List!IsTrackerList(announce', i.magnet, i.extra, i.denylist)
    OBVIOUS
  <2>1. BuildList
    BY DEF SourcesNext, StartSources, DhtRuns, TrackerAnswers, TrackerRuns, Quietly,
           DestroySources
  <2>2. given = {i} /\ i \in Inputs
    BY DEF SourcesInv
  <2>3. announce' = List!BuildTrackerList(i.magnet, i.extra, i.denylist)
    BY <2>1, <2>2 DEF BuildList
  <2>4. i.magnet \in Seq(Urls) /\ i.extra \in Seq(Urls)
    BY <2>2, InputsAssumption
  <2> QED BY <2>3, <2>4, BuildsTrackerList
<1> QED BY <1>1, SourcesInductive, PTL DEF SourcesSpec, ListAsPromised

=============================================================================
