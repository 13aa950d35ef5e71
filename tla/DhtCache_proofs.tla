--------------------------- MODULE DhtCache_proofs ---------------------------
(***************************************************************************)
(* Theorems about DhtCache for any writers and any number of chunks: the   *)
(* cache file is never torn, and implements AtomicCache.                   *)
(***************************************************************************)
EXTENDS DhtCache, SequenceTheorems, TLAPS

(* The first n chunks of w's table.                                        *)
Part(w, n) == [k \in 1 .. n |-> w]

(* A writer has its temporary file to itself: it holds what the writer has *)
(* written of its table so far, and the whole of it once it is to be moved *)
(* into place.                                                             *)
OwnTmp ==
  \A w \in Writers :
    /\ pc[w] = "idle" => written[w] = 0
    /\ pc[w] = "writing" => tmp[w] = Part(w, written[w])
    /\ pc[w] = "renaming" => tmp[w] = Table(w)

(* The cache file is never torn.                                           *)
WholeTable == cache = Absent \/ \E w \in Writers : cache = Table(w)

IInv ==
  /\ TypeOK
  /\ OwnTmp
  /\ WholeTable
  /\ LitterOnlyFromBrokenWrites

-----------------------------------------------------------------------------
(* Writing the next chunk at the end of the file extends the part of the   *)
(* table that it holds.                                                    *)
LEMMA PartGrows ==
  ASSUME NEW w \in Writers, NEW n \in Nat
  PROVE  /\ Part(w, n) \in Seq(Writers)
         /\ Len(Part(w, n)) = n
         /\ Append(Part(w, n), w) = Part(w, n + 1)
<1>1. Part(w, n) \in Seq(Writers) /\ Len(Part(w, n)) = n
  BY DEF Part
<1>2. Append(Part(w, n), w) = Part(w, n + 1)
  BY <1>1 DEF Part
<1> QED BY <1>1, <1>2

(* A complete table is a file, and names its writer.                       *)
LEMMA TableWhole ==
  ASSUME NEW w \in Writers
  PROVE  /\ Table(w) \in Seq(Writers)
         /\ Table(w) # Absent
         /\ Table(w)[1] = w
         /\ Table(w) = Part(w, Chunks)
<1>1. Table(w) = Part(w, Chunks)
  BY DEF Table, Part
<1>2. Table(w) \in Seq(Writers)
  BY <1>1, PartGrows, DhtCacheAssumption
<1>3. Table(w)[1] = w
  BY DhtCacheAssumption DEF Table
<1> QED BY <1>1, <1>2, <1>3, DhtCacheAssumption

(* Whose table the file holds.                                             *)
LEMMA OwnerOf ==
  /\ Owner(Absent) = Absent
  /\ \A w \in Writers : Owner(Table(w)) = w
  BY TableWhole DEF Owner

LEMMA InitIInv == Init => IInv
  BY DhtCacheAssumption
     DEF Init, IInv, TypeOK, OwnTmp, WholeTable, LitterOnlyFromBrokenWrites, Over

(* Every step keeps the invariant.                                         *)
LEMMA NextIInv == IInv /\ [Next]_vars => IInv'
<1> SUFFICES ASSUME IInv, [Next]_vars PROVE IInv'
  OBVIOUS
<1> USE DhtCacheAssumption
<1>1. ASSUME NEW w \in Writers, OpenTmp(w) PROVE IInv'
  <2>1. << >> \in Seq(Writers) /\ << >> # Absent /\ << >> = Part(w, 0)
    BY PartGrows, EmptySeq
  <2> QED BY <1>1, <2>1
          DEF OpenTmp, Goto, TmpPath, IInv, TypeOK, OwnTmp, WholeTable,
              LitterOnlyFromBrokenWrites, Over
<1>2. ASSUME NEW w \in Writers, WriteChunk(w) PROVE IInv'
  <2>1. /\ pc[w] = "writing" /\ written[w] \in Nat /\ written[w] < Chunks
        /\ tmp[w] = Part(w, written[w])
    BY <1>2 DEF WriteChunk, IInv, TypeOK, OwnTmp
  <2>2. tmp' = [tmp EXCEPT ![w] = Part(w, written[w] + 1)]
    <3> DEFINE old == tmp[w]
                at == written[w] + 1
    <3>1. tmp' = [tmp EXCEPT ![w] =
                    IF at <= Len(old) THEN [old EXCEPT ![at] = w] ELSE Append(old, w)]
      BY <1>2 DEF WriteChunk, TmpPath
    <3>2. Len(old) = written[w] /\ Append(old, w) = Part(w, at)
      BY <2>1, PartGrows
    <3>3. ~ (at <= Len(old))
      BY <2>1, <3>2
    <3> QED BY <3>1, <3>2, <3>3
  <2>3. Part(w, written[w] + 1) \in Seq(Writers)
    BY <2>1, PartGrows
  <2>4. UNCHANGED <<cache, pc>> /\ written' = [written EXCEPT ![w] = @ + 1]
    BY <1>2 DEF WriteChunk
  <2>5. TypeOK'
    BY <2>1, <2>2, <2>3, <2>4 DEF IInv, TypeOK, Over
  <2>6. OwnTmp'
    BY <2>1, <2>2, <2>4 DEF IInv, TypeOK, OwnTmp
  <2>7. LitterOnlyFromBrokenWrites'
    BY <2>1, <2>2, <2>4 DEF IInv, TypeOK, LitterOnlyFromBrokenWrites
  <2> QED BY <2>4, <2>5, <2>6, <2>7 DEF IInv, WholeTable, Table
<1>3. ASSUME NEW w \in Writers, TmpWritten(w) PROVE IInv'
  BY <1>3, TableWhole
     DEF TmpWritten, Goto, IInv, TypeOK, OwnTmp, WholeTable, Table,
         LitterOnlyFromBrokenWrites, Over, Part
<1>4. ASSUME NEW w \in Writers, Rename(w) PROVE IInv'
  BY <1>4
     DEF Rename, Goto, TmpPath, IInv, TypeOK, OwnTmp, WholeTable, Table,
         LitterOnlyFromBrokenWrites, Over
<1>5. ASSUME NEW w \in Writers, Unlink(w) PROVE IInv'
  BY <1>5
     DEF Unlink, Goto, TmpPath, IInv, TypeOK, OwnTmp, WholeTable, Table,
         LitterOnlyFromBrokenWrites, Over
<1>6. ASSUME NEW w \in Writers,
             WriteFails(w) \/ RenameFails(w) \/ UnlinkFails(w) \/ Crash(w)
      PROVE  IInv'
  BY <1>6
     DEF WriteFails, RenameFails, UnlinkFails, Crash, Goto, IInv, TypeOK, OwnTmp,
         WholeTable, Table, LitterOnlyFromBrokenWrites, Over
<1>7. CASE UNCHANGED vars
  BY <1>7 DEF vars, IInv, TypeOK, OwnTmp, WholeTable, Table, LitterOnlyFromBrokenWrites
<1> QED BY <1>1, <1>2, <1>3, <1>4, <1>5, <1>6, <1>7 DEF Next

(* The invariant holds in every reachable state.                           *)
THEOREM Inductive == Spec => []IInv
  BY InitIInv, NextIInv, PTL DEF Spec

-----------------------------------------------------------------------------
(* The types of the writers and their files.                               *)
THEOREM TypeCorrect == Spec => []TypeOK
<1>1. IInv => TypeOK
  BY DEF IInv
<1> QED BY <1>1, Inductive, PTL

(* A writer that ended in good order leaves no temporary file behind,      *)
(* whatever the others do to theirs.                                       *)
THEOREM NoLitter == Spec => []LitterOnlyFromBrokenWrites
<1>1. IInv => LitterOnlyFromBrokenWrites
  BY DEF IInv
<1> QED BY <1>1, Inductive, PTL

(* The writers that are over: a step takes one writer there at most, and   *)
(* none back.                                                              *)
LEMMA OneGetsOver ==
  ASSUME IInv, NEW w \in Writers, NEW l \in Over, pc[w] \notin Over, Goto(w, l)
  PROVE  {v \in Writers : pc'[v] \in Over} = {v \in Writers : pc[v] \in Over} \cup {w}
  BY DEF Goto, IInv, TypeOK

LEMMA NoneGetsOver ==
  ASSUME IInv, NEW w \in Writers, NEW l, l \notin Over, pc[w] \notin Over, Goto(w, l)
  PROVE  {v \in Writers : pc'[v] \in Over} = {v \in Writers : pc[v] \in Over}
  BY DEF Goto, IInv, TypeOK

(* Every step of the writers is a save, a giving up or nothing at all of   *)
(* the register.                                                           *)
LEMMA StepRefines == IInv /\ [Next]_vars => [Atomic!Next]_(Atomic!vars)
<1> SUFFICES ASSUME IInv, [Next]_vars PROVE [Atomic!Next]_(Atomic!vars)
  OBVIOUS
<1> DEFINE over == {w \in Writers : pc[w] \in Over}
<1>1. ASSUME NEW w \in Writers, Rename(w) PROVE Atomic!Save(w)
  <2>1. pc[w] = "renaming" /\ cache' = Table(w) /\ Goto(w, "saved")
    BY <1>1 DEF Rename, TmpPath, IInv, OwnTmp
  <2>2. Owner(cache)' = w
    BY <2>1, OwnerOf DEF Owner, Table
  <2>3. over' = over \cup {w}
    BY <2>1, OneGetsOver DEF Over
  <2>4. w \notin over
    BY <2>1 DEF Over
  <2> QED BY <2>2, <2>3, <2>4 DEF Atomic!Save
<1>2. ASSUME NEW w \in Writers,
             WriteFails(w) \/ Unlink(w) \/ UnlinkFails(w) \/ Crash(w)
      PROVE  Atomic!GiveUp(w)
  <2>1. pc[w] \notin Over /\ UNCHANGED cache
    BY <1>2 DEF WriteFails, Unlink, UnlinkFails, Crash, Over
  <2>2. \E l \in Over : Goto(w, l)
    BY <1>2 DEF WriteFails, Unlink, UnlinkFails, Crash, Over
  <2>3. over' = over \cup {w}
    BY <2>1, <2>2, OneGetsOver
  <2>4. Owner(cache)' = Owner(cache)
    BY <2>1 DEF Owner, Table
  <2> QED BY <2>1, <2>3, <2>4 DEF Atomic!GiveUp
<1>3. ASSUME NEW w \in Writers,
             OpenTmp(w) \/ WriteChunk(w) \/ TmpWritten(w) \/ RenameFails(w)
      PROVE  UNCHANGED Atomic!vars
  <2>1. UNCHANGED cache
    BY <1>3 DEF OpenTmp, WriteChunk, TmpWritten, RenameFails
  <2>2. over' = over
    <3>1. CASE WriteChunk(w)
      BY <3>1 DEF WriteChunk
    <3>2. CASE OpenTmp(w) \/ TmpWritten(w) \/ RenameFails(w)
      <4>1. pc[w] \notin Over /\ \E l \in {"writing", "renaming", "unlinking"} : Goto(w, l)
        BY <3>2 DEF OpenTmp, TmpWritten, RenameFails, Over
      <4> QED BY <4>1, NoneGetsOver DEF Over
    <3> QED BY <1>3, <3>1, <3>2
  <2>3. Owner(cache)' = Owner(cache)
    BY <2>1 DEF Owner, Table
  <2> QED BY <2>2, <2>3 DEF Atomic!vars
<1>4. CASE UNCHANGED vars
  BY <1>4 DEF vars, Atomic!vars, Owner, Table
<1> QED BY <1>1, <1>2, <1>3, <1>4 DEF Next, Atomic!Next

(* The file that several processes write, each in many steps and any of    *)
(* them dying at any moment, is an atomic register: it holds nothing or    *)
(* one complete table, and every writer replaces it at most once.          *)
THEOREM Refinement == Spec => ImplementsAtomicCache
<1>1. Init => Atomic!Init
  BY OwnerOf DEF Init, Atomic!Init, Over
<1> QED BY <1>1, StepRefines, Inductive, PTL
        DEF Spec, ImplementsAtomicCache, Atomic!Spec

=============================================================================
