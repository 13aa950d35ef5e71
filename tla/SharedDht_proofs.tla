-------------------------- MODULE SharedDht_proofs --------------------------
(***************************************************************************)
(* Theorems about SharedDht for any instances, callers, closers and files: *)
(* its types, ReadyNeverClosed, DeadOnlyIfCut, TakenOnce,                  *)
(* SavedWhereItCameFrom, and what holds unless a shutdown was called       *)
(* during a creation.                                                      *)
(***************************************************************************)
EXTENDS SharedDht, Naturals, TLAPS

(* The shared instance is live and comes with its own cache file.          *)
SharedIsLive ==
  sharedDht # None =>
    /\ inst[sharedDht] = "live"
    /\ sharedCache = file[sharedDht]

(* The promise there is belongs to an instance nobody has begun to close.  *)
PromiseIsOpen ==
  readyPromise # None =>
    inst[readyPromise] \in {"opening", "seeding", "failing", "failed", "live"}

(* A closer at work holds one instance, which nothing else leads to and    *)
(* whose state only this closer changes.                                   *)
ClosersOwn ==
  \A s \in Closers :
    /\ closer[s] = "idle" <=> victim[s] = None
    /\ closer[s] = "persisting" => inst[victim[s]] = "live"
    /\ closer[s] = "destroying" => inst[victim[s]] = "closing"
    /\ victim[s] # None =>
         /\ readyPromise # victim[s]
         /\ sharedDht # victim[s]
         /\ saves[s] = file[victim[s]]

TakenByOne ==
  \A s, t \in Closers : victim[s] # None /\ victim[s] = victim[t] => s = t

(* Unless a shutdown was hasty, the promise leads to every instance that   *)
(* is open and not taken, and one that is live is the shared one.          *)
PromiseLeads ==
  ~ hasty =>
    \A i \in Instances :
      Open(i) /\ ~ Taken(i) =>
        /\ readyPromise = i
        /\ inst[i] = "live" => sharedDht = i

IInv ==
  /\ TypeOK
  /\ SharedIsLive
  /\ PromiseIsOpen
  /\ ClosersOwn
  /\ TakenByOne
  /\ PromiseLeads

-----------------------------------------------------------------------------
LEMMA InitInv == Init => IInv
  BY NoneAssumption
  DEF Init, IInv, TypeOK, InstStates, SharedIsLive, PromiseIsOpen,
      ClosersOwn, TakenByOne, PromiseLeads, Open, Taken

(* getSharedDht: the promise there is, or a new creation.                  *)
LEMMA GetInv ==
  ASSUME IInv, NEW g \in Callers, GetSharedDht(g)
  PROVE  IInv'
  <1> USE NoneAssumption DEF GetSharedDht, closerVars
  <1>1. CASE readyPromise # None
    <2>1. UNCHANGED <<sharedDht, readyPromise, sharedCache, inst, file, seeds,
                      closer, victim, saves, hasty>>
      BY <1>1 DEF IInv, TypeOK
    <2>2. TypeOK'
      BY <1>1, <2>1 DEF IInv, TypeOK
    <2> QED
      BY <2>1, <2>2
      DEF IInv, SharedIsLive, PromiseIsOpen, ClosersOwn, TakenByOne,
          PromiseLeads, Open, Taken
  <1>2. CASE readyPromise = None
    <2>1. PICK i \in Instances : CreateDht(i)
      BY <1>2
    <2> USE <2>1 DEF CreateDht
    <2>2. TypeOK'
      BY <1>2 DEF IInv, TypeOK, InstStates
    <2>3. \A j \in Instances : j # i => inst'[j] = inst[j] /\ file'[j] = file[j]
      BY DEF IInv, TypeOK
    <2>4. inst'[i] = "opening" /\ readyPromise' = i
      BY DEF IInv, TypeOK
    <2>5. SharedIsLive' /\ PromiseIsOpen'
      BY <2>3, <2>4 DEF IInv, TypeOK, SharedIsLive, PromiseIsOpen
    <2>6. ClosersOwn' /\ TakenByOne'
      <3>1. \A s \in Closers : victim[s] # i
        BY DEF IInv, TypeOK, ClosersOwn
      <3> QED
        BY <2>3, <2>4, <3>1 DEF IInv, TypeOK, ClosersOwn, TakenByOne
    <2>7. PromiseLeads'
      BY <1>2, <2>3, <2>4 DEF IInv, TypeOK, PromiseLeads, Open, Taken
    <2> QED
      BY <2>2, <2>5, <2>6, <2>7 DEF IInv
  <1> QED
    BY <1>1, <1>2

(* The end of a creation that succeeds.                                    *)
LEMMA PublishInv ==
  ASSUME IInv, NEW i \in Instances, inst[i] \in {"opening", "seeding"},
         Publish(i), UNCHANGED <<readyPromise, file, seeds, callerVars, closerVars, cut>>
  PROVE  IInv'
  <1> USE DEF Publish, callerVars, closerVars
  <1>1. TypeOK'
    BY DEF IInv, TypeOK, InstStates
  <1>2. \A j \in Instances : j # i => inst'[j] = inst[j]
    BY DEF IInv, TypeOK
  <1>3. inst'[i] = "live" /\ sharedDht' = i
    BY DEF IInv, TypeOK
  <1>4. \A s \in Closers : victim[s] # i
    BY NoneAssumption DEF IInv, TypeOK, ClosersOwn
  <1>5. SharedIsLive' /\ PromiseIsOpen'
    BY <1>2, <1>3 DEF IInv, TypeOK, SharedIsLive, PromiseIsOpen
  <1>6. ClosersOwn' /\ TakenByOne'
    BY <1>2, <1>3, <1>4, NoneAssumption DEF IInv, TypeOK, ClosersOwn, TakenByOne
  <1>7. PromiseLeads'
    BY <1>2, <1>3, <1>4 DEF IInv, TypeOK, PromiseLeads, Open, Taken
  <1> QED
    BY <1>1, <1>5, <1>6, <1>7 DEF IInv

(* A creation that goes on or fails: one instance changes, neither to live *)
(* nor away from it.                                                       *)
LEMMA CreatingInv ==
  ASSUME IInv, NEW i \in Instances, NEW l \in {"seeding", "failing", "failed"},
         inst[i] \in {"opening", "seeding", "failing"},
         inst' = [inst EXCEPT ![i] = l],
         UNCHANGED <<moduleVars, file, seeds, callerVars, closerVars, cut>>
  PROVE  IInv'
  <1> USE DEF moduleVars, callerVars, closerVars
  <1>1. TypeOK'
    BY DEF IInv, TypeOK, InstStates
  <1>2. \A j \in Instances : j # i => inst'[j] = inst[j]
    BY DEF IInv, TypeOK
  <1>3. inst'[i] = l
    BY DEF IInv, TypeOK
  <1>4. \A s \in Closers : victim[s] # i
    BY NoneAssumption DEF IInv, TypeOK, ClosersOwn
  <1>5. SharedIsLive' /\ PromiseIsOpen'
    BY <1>2, <1>3 DEF IInv, TypeOK, SharedIsLive, PromiseIsOpen
  <1>6. ClosersOwn' /\ TakenByOne'
    BY <1>2, <1>3, <1>4, NoneAssumption DEF IInv, TypeOK, ClosersOwn, TakenByOne
  <1>7. PromiseLeads'
    BY <1>2, <1>3, <1>4 DEF IInv, TypeOK, PromiseLeads, Open, Taken
  <1> QED
    BY <1>1, <1>5, <1>6, <1>7 DEF IInv

LEMMA CreationInv ==
  ASSUME IInv, NEW i \in Instances, Creation(i)
  PROVE  IInv'
  <1>1. CASE Listening(i)
    <2>1. CASE file[i] = None
      BY <1>1, <2>1, PublishInv DEF Listening
    <2>2. CASE file[i] # None
      BY <1>1, <2>2, CreatingInv DEF Listening, moduleVars
    <2> QED
      BY <2>1, <2>2
  <1>2. CASE CacheRead(i)
    BY <1>2, PublishInv DEF CacheRead
  <1>3. CASE ListenFails(i) \/ BootstrapThrows(i) \/ CacheThrows(i)
    BY <1>3, CreatingInv DEF ListenFails, BootstrapThrows, CacheThrows, Failing
  <1>4. CASE Failed(i)
    BY <1>4, CreatingInv DEF Failed
  <1> QED
    BY <1>1, <1>2, <1>3, <1>4 DEF Creation

(* The steps of a caller that change nothing but the caller.               *)
LEMMA CallerInv ==
  ASSUME IInv, NEW g \in Callers, Receive(g) \/ Done(g)
  PROVE  IInv'
  <1>1. UNCHANGED <<moduleVars, inst, file, seeds, closerVars>>
    BY DEF Receive, Done
  <1>2. TypeOK'
    BY DEF IInv, TypeOK, Receive, Done, moduleVars, closerVars
  <1> QED
    BY <1>1, <1>2
    DEF IInv, SharedIsLive, PromiseIsOpen, ClosersOwn, TakenByOne,
        PromiseLeads, Open, Taken, moduleVars, closerVars

-----------------------------------------------------------------------------
(* shutdownSharedDht: the promise is forgotten, whatever it leads to.      *)
LEMMA ShutdownNothingInv ==
  ASSUME IInv, NEW s \in Closers, ShutdownNothing(s)
  PROVE  IInv'
  <1> USE DEF ShutdownNothing, callerVars
  <1>1. TypeOK'
    BY DEF IInv, TypeOK, NoteHaste
  <1>2. SharedIsLive' /\ PromiseIsOpen' /\ ClosersOwn' /\ TakenByOne'
    BY NoneAssumption
    DEF IInv, TypeOK, SharedIsLive, PromiseIsOpen, ClosersOwn, TakenByOne
  <1>3. PromiseLeads'
    BY NoneAssumption
    DEF IInv, TypeOK, PromiseLeads, NoteHaste, CreationUnderWay, Open, Taken
  <1> QED
    BY <1>1, <1>2, <1>3 DEF IInv

(* It takes the shared instance.                                           *)
LEMMA ShutdownInv ==
  ASSUME IInv, NEW s \in Closers, Shutdown(s)
  PROVE  IInv'
  <1> DEFINE d == sharedDht
  <1> USE DEF Shutdown, callerVars
  <1>1. /\ d \in Instances /\ d # None
        /\ inst[d] = "live" /\ sharedCache = file[d]
        /\ victim[s] = None
    BY DEF IInv, TypeOK, SharedIsLive, ClosersOwn
  <1>2. /\ victim' = [victim EXCEPT ![s] = d]
        /\ saves' = [saves EXCEPT ![s] = sharedCache]
        /\ sharedDht' = None /\ readyPromise' = None
    OBVIOUS
  <1>3. \A t \in Closers : victim[t] # d
    BY <1>1 DEF IInv, ClosersOwn
  <1>4. \A j \in Instances : j # d => inst'[j] = inst[j]
    BY <1>1 DEF IInv, TypeOK
  <1>5. \/ closer' = [closer EXCEPT ![s] = "persisting"] /\ inst'[d] = "live"
        \/ closer' = [closer EXCEPT ![s] = "destroying"] /\ inst'[d] = "closing"
    BY <1>1 DEF IInv, TypeOK
  <1>6. TypeOK'
    BY <1>1 DEF IInv, TypeOK, InstStates, NoteHaste, NoteCut
  <1>7. SharedIsLive' /\ PromiseIsOpen'
    BY DEF SharedIsLive, PromiseIsOpen
  <1>8. ClosersOwn' /\ TakenByOne'
    <2>1. \A t \in Closers : t # s => victim'[t] = victim[t] /\ saves'[t] = saves[t]
                                       /\ closer'[t] = closer[t]
      BY <1>2, <1>5 DEF IInv, TypeOK
    <2>2. victim'[s] = d /\ saves'[s] = file[d]
      BY <1>1, <1>2 DEF IInv, TypeOK
    <2>3. TakenByOne'
      BY <1>3, <2>1, <2>2 DEF IInv, TakenByOne
    <2>4. \A t \in Closers : t # s => ClosersOwn!(t)'
      BY <1>1, <1>2, <1>3, <1>4, <2>1 DEF IInv, TypeOK, ClosersOwn
    <2>5. ClosersOwn!(s)'
      BY <1>1, <1>2, <1>5, <2>2 DEF IInv, TypeOK, ClosersOwn
    <2> QED
      BY <2>3, <2>4, <2>5 DEF ClosersOwn
  <1>9. PromiseLeads'
    <2> SUFFICES ASSUME ~ hasty', NEW i \in Instances, (Open(i) /\ ~ Taken(i))'
                 PROVE  FALSE
      BY DEF PromiseLeads
    <2>1. ~ hasty /\ ~ CreationUnderWay
      BY DEF NoteHaste
    <2>2. i # d
      BY <1>2 DEF IInv, TypeOK, Taken
    <2>3. Open(i) /\ ~ Taken(i)
      <3>1. Open(i)
        BY <1>4, <2>2 DEF Open
      <3>2. \A t \in Closers : t # s => victim'[t] = victim[t]
        BY <1>2 DEF IInv, TypeOK
      <3>3. \A t \in Closers : victim[t] # i
        BY <1>1, <3>2, NoneAssumption DEF Taken
      <3> QED
        BY <3>1, <3>3 DEF Taken
    <2>4. inst[i] = "live"
      BY <2>1, <2>3 DEF Open, CreationUnderWay
    <2> QED
      BY <2>1, <2>2, <2>3, <2>4 DEF IInv, PromiseLeads
  <1> QED
    BY <1>6, <1>7, <1>8, <1>9 DEF IInv

(* The instance it took is saved, then closed.                             *)
LEMMA PersistedInv ==
  ASSUME IInv, NEW s \in Closers, Persisted(s)
  PROVE  IInv'
  <1> DEFINE d == victim[s]
  <1> USE DEF Persisted, moduleVars, callerVars
  <1>1. d \in Instances /\ d # None /\ inst[d] = "live"
    BY DEF IInv, TypeOK, ClosersOwn
  <1>2. \A j \in Instances : j # d => inst'[j] = inst[j]
    BY DEF IInv, TypeOK
  <1>3. inst'[d] = "closing" /\ closer'[s] = "destroying"
    BY <1>1 DEF IInv, TypeOK
  <1>4. \A t \in Closers : t # s => closer'[t] = closer[t] /\ victim[t] # d
    BY <1>1 DEF IInv, TypeOK, TakenByOne
  <1>5. TypeOK'
    BY DEF IInv, TypeOK, InstStates
  <1>6. SharedIsLive' /\ PromiseIsOpen'
    BY <1>1, <1>2 DEF IInv, TypeOK, SharedIsLive, PromiseIsOpen, ClosersOwn
  <1>7. ClosersOwn' /\ TakenByOne'
    BY <1>1, <1>2, <1>3, <1>4 DEF IInv, TypeOK, ClosersOwn, TakenByOne
  <1>8. PromiseLeads'
    BY <1>1, <1>2, <1>3 DEF IInv, TypeOK, PromiseLeads, Open, Taken
  <1> QED
    BY <1>5, <1>6, <1>7, <1>8 DEF IInv

LEMMA DestroyedInv ==
  ASSUME IInv, NEW s \in Closers, Destroyed(s)
  PROVE  IInv'
  <1> DEFINE d == victim[s]
  <1> USE DEF Destroyed, moduleVars, callerVars
  <1>1. d \in Instances /\ d # None /\ inst[d] = "closing"
    BY DEF IInv, TypeOK, ClosersOwn
  <1>2. \A j \in Instances : j # d => inst'[j] = inst[j]
    BY DEF IInv, TypeOK
  <1>3. inst'[d] = "closed" /\ closer'[s] = "idle" /\ victim'[s] = None
    BY <1>1 DEF IInv, TypeOK
  <1>4. \A t \in Closers : t # s => /\ closer'[t] = closer[t]
                                    /\ victim'[t] = victim[t]
                                    /\ saves'[t] = saves[t]
                                    /\ victim[t] # d
    BY <1>1 DEF IInv, TypeOK, TakenByOne
  <1>5. TypeOK'
    BY DEF IInv, TypeOK, InstStates
  <1>6. SharedIsLive' /\ PromiseIsOpen'
    BY <1>1, <1>2 DEF IInv, TypeOK, SharedIsLive, PromiseIsOpen, ClosersOwn
  <1>7. ClosersOwn' /\ TakenByOne'
    BY <1>1, <1>2, <1>3, <1>4 DEF IInv, TypeOK, ClosersOwn, TakenByOne
  <1>8. PromiseLeads'
    <2>1. \A i \in Instances : Open(i)' => i # d /\ Open(i)
      BY <1>1, <1>2, <1>3 DEF Open
    <2>2. \A i \in Instances : i # d /\ Taken(i) => Taken(i)'
      BY <1>4 DEF Taken
    <2> QED
      BY <1>2, <2>1, <2>2 DEF IInv, PromiseLeads
  <1> QED
    BY <1>5, <1>6, <1>7, <1>8 DEF IInv

-----------------------------------------------------------------------------
(* Whoever waits for an instance, or uses one, that a shutdown has taken   *)
(* is known to have been cut off.  It is inductive on top of IInv.         *)
Gone(i) == Taken(i) \/ inst[i] \in {"closing", "closed"}

CutKnown ==
  \A g \in Callers :
    caller[g] \in {"waiting", "using"} /\ Gone(dhtOf[g]) => g \in cut

(* A step that takes no instance and gives nobody another one.             *)
LEMMA NobodyCut ==
  ASSUME IInv, CutKnown, UNCHANGED <<dhtOf, cut>>,
         \A i \in Instances : Gone(i)' => Gone(i),
         \A g \in Callers :
           caller'[g] \in {"waiting", "using"} => caller[g] \in {"waiting", "using"}
  PROVE  CutKnown'
  <1>1. \A g \in Callers : caller[g] \in {"waiting", "using"} => dhtOf[g] \in Instances
    BY DEF IInv, TypeOK
  <1> QED
    BY <1>1 DEF CutKnown

LEMMA GetCut ==
  ASSUME IInv, CutKnown, NEW g \in Callers, GetSharedDht(g)
  PROVE  CutKnown'
  <1> USE NoneAssumption DEF GetSharedDht, closerVars
  <1> SUFFICES ASSUME NEW h \in Callers, caller'[h] \in {"waiting", "using"}, Gone(dhtOf[h])'
               PROVE  h \in cut'
    BY DEF CutKnown
  <1>1. \A i \in Instances : Gone(i)' => Gone(i)
    BY DEF IInv, TypeOK, CreateDht, Gone, Taken
  <1>2. CASE h = g
    <2>1. PICK d \in Instances : d = readyPromise' /\ d = dhtOf'[g]
      BY DEF IInv, TypeOK, CreateDht
    <2>2. IInv'
      BY GetInv
    <2>3. ~ Gone(d)'
      BY <2>1, <2>2 DEF IInv, PromiseIsOpen, ClosersOwn, Gone, Taken
    <2> QED
      BY <1>2, <2>1, <2>3 DEF Gone, Taken
  <1>3. CASE h # g
    <2>1. caller'[h] = caller[h] /\ dhtOf'[h] = dhtOf[h] /\ dhtOf[h] \in Instances
      BY <1>3 DEF IInv, TypeOK
    <2>2. Gone(dhtOf[h])
      BY <1>1, <2>1 DEF Gone, Taken
    <2> QED
      BY <1>3, <2>1, <2>2 DEF CutKnown
  <1> QED
    BY <1>2, <1>3

(* What a shutdown takes is the shared instance, and it notes who has it.  *)
LEMMA ShutdownCut ==
  ASSUME IInv, CutKnown, NEW s \in Closers, Shutdown(s)
  PROVE  CutKnown'
  <1> USE DEF Shutdown, callerVars
  <1> SUFFICES ASSUME NEW h \in Callers, caller[h] \in {"waiting", "using"}, Gone(dhtOf[h])'
               PROVE  h \in cut'
    BY DEF CutKnown
  <1>1. dhtOf[h] \in Instances /\ dhtOf[h] # None
    BY NoneAssumption DEF IInv, TypeOK
  <1>2. CASE dhtOf[h] = sharedDht
    BY <1>2 DEF NoteCut
  <1>3. CASE dhtOf[h] # sharedDht
    <2>1. inst'[dhtOf[h]] = inst[dhtOf[h]]
      BY <1>1, <1>3 DEF IInv, TypeOK
    <2>2. Taken(dhtOf[h])' => Taken(dhtOf[h])
      BY <1>1, <1>3 DEF IInv, TypeOK, Taken
    <2> QED
      BY <2>1, <2>2 DEF CutKnown, Gone, NoteCut
  <1> QED
    BY <1>2, <1>3

LEMMA NextCut ==
  ASSUME IInv, CutKnown, [Next]_vars
  PROVE  CutKnown'
  <1> USE DEF moduleVars, callerVars, closerVars
  <1>1. CASE \E g \in Callers : GetSharedDht(g)
    BY <1>1, GetCut
  <1>2. CASE \E g \in Callers : Receive(g)
    BY <1>2, NobodyCut DEF Receive, IInv, TypeOK, Gone, Taken
  <1>3. CASE \E g \in Callers : Done(g)
    <2>1. PICK g \in Callers : Done(g)
      BY <1>3
    <2>2. \A h \in Callers : caller'[h] \in {"waiting", "using"} =>
            /\ caller[h] \in {"waiting", "using"}
            /\ dhtOf'[h] = dhtOf[h]
      BY <2>1 DEF Done, IInv, TypeOK
    <2> QED
      BY <2>1, <2>2 DEF Done, CutKnown, Gone, Taken
  <1>4. CASE \E i \in Instances : Creation(i)
    <2>1. PICK i \in Instances : Creation(i)
      BY <1>4
    <2>2. /\ UNCHANGED <<callerVars, closerVars, cut>>
          /\ \A j \in Instances : inst'[j] = inst[j] \/ inst'[j] \notin {"closing", "closed"}
      BY <2>1 DEF Creation, Listening, CacheRead, Publish, ListenFails,
                  BootstrapThrows, CacheThrows, Failing, Failed, IInv, TypeOK
    <2> QED
      BY <2>2, NobodyCut DEF Gone, Taken
  <1>5. CASE \E s \in Closers : ShutdownNothing(s)
    BY <1>5, NobodyCut DEF ShutdownNothing, Gone, Taken
  <1>6. CASE \E s \in Closers : Shutdown(s)
    BY <1>6, ShutdownCut
  <1>7. CASE \E s \in Closers : Persisted(s) \/ Destroyed(s)
    <2>1. PICK s \in Closers : Persisted(s) \/ Destroyed(s)
      BY <1>7
    <2>2. Taken(victim[s])
      BY <2>1 DEF Taken
    <2>3. \A i \in Instances : i # victim[s] => inst'[i] = inst[i]
      BY <2>1 DEF Persisted, Destroyed, IInv, TypeOK
    <2>4. \A i \in Instances : Taken(i)' => Taken(i)
      <3>1. victim' = victim \/ victim' = [victim EXCEPT ![s] = None]
        BY <2>1 DEF Persisted, Destroyed
      <3> QED
        BY <3>1, NoneAssumption DEF IInv, TypeOK, Taken
    <2>5. \A i \in Instances : Gone(i)' => Gone(i)
      BY <2>2, <2>3, <2>4 DEF Gone
    <2> QED
      BY <2>1, <2>5, NobodyCut DEF Persisted, Destroyed
  <1>8. CASE UNCHANGED vars
    BY <1>8, NobodyCut DEF vars, Gone, Taken
  <1> QED
    BY <1>1, <1>2, <1>3, <1>4, <1>5, <1>6, <1>7, <1>8 DEF Next

-----------------------------------------------------------------------------
(* The inductive invariant.                                                *)
THEOREM Inductive == Spec => []IInv
  <1>1. IInv /\ [Next]_vars => IInv'
    <2> SUFFICES ASSUME IInv, [Next]_vars
                 PROVE  IInv'
      OBVIOUS
    <2>1. CASE \E g \in Callers : GetSharedDht(g) \/ Receive(g) \/ Done(g)
      BY <2>1, GetInv, CallerInv
    <2>2. CASE \E i \in Instances : Creation(i)
      BY <2>2, CreationInv
    <2>3. CASE \E s \in Closers : ShutdownNothing(s) \/ Shutdown(s)
                                    \/ Persisted(s) \/ Destroyed(s)
      BY <2>3, ShutdownNothingInv, ShutdownInv, PersistedInv, DestroyedInv
    <2>4. CASE UNCHANGED vars
      BY <2>4
      DEF vars, IInv, TypeOK, SharedIsLive, PromiseIsOpen, ClosersOwn,
          TakenByOne, PromiseLeads, Open, Taken
    <2> QED
      BY <2>1, <2>2, <2>3, <2>4 DEF Next
  <1> QED
    BY InitInv, <1>1, PTL DEF Spec

(* The types of the module's, the callers' and the closers' state.         *)
THEOREM TypeCorrect == Spec => []TypeOK
  <1>1. IInv => TypeOK
    BY DEF IInv
  <1> QED
    BY Inductive, <1>1, PTL

(* getSharedDht never hands out an instance that is being closed.          *)
THEOREM PromiseUsable == Spec => []ReadyNeverClosed
  <1>1. IInv => ReadyNeverClosed
    BY DEF IInv, PromiseIsOpen, ReadyNeverClosed
  <1> QED
    BY Inductive, <1>1, PTL

(* No two shutdowns take one instance, and the shared one is not taken.    *)
THEOREM OneCloser == Spec => []TakenOnce
  <1>1. IInv => TakenOnce
    BY DEF IInv, ClosersOwn, TakenByOne, TakenOnce
  <1> QED
    BY Inductive, <1>1, PTL

(* A routing table is saved to the file its instance was seeded from.      *)
THEOREM SavedRight == Spec => []SavedWhereItCameFrom
  <1>1. IInv => SavedWhereItCameFrom
    BY DEF IInv, ClosersOwn, SavedWhereItCameFrom
  <1> QED
    BY Inductive, <1>1, PTL

(* One DHT at a time, unless a shutdown was called during a creation.      *)
THEOREM OneDhtIfPatient == Spec => []OneDhtUnlessHasty
  <1>1. IInv => OneDhtUnlessHasty
    BY DEF IInv, PromiseLeads, OneDhtUnlessHasty, OneDht
  <1> QED
    BY Inductive, <1>1, PTL

(* Under the same condition every live DHT can still be shut down.         *)
THEOREM NoOrphanIfPatient == Spec => []NoOrphanUnlessHasty
  <1>1. IInv => NoOrphanUnlessHasty
    BY DEF IInv, PromiseLeads, Open, NoOrphanUnlessHasty
  <1> QED
    BY Inductive, <1>1, PTL

(* A resolution has a dead DHT only when the shutdown came in its midst.   *)
THEOREM CutOffKnown == Spec => []DeadOnlyIfCut
  <1>1. Init => CutKnown
    BY DEF Init, CutKnown
  <1>2. IInv /\ CutKnown /\ [Next]_vars => CutKnown'
    BY NextCut
  <1>3. CutKnown => DeadOnlyIfCut
    BY DEF CutKnown, Gone, DeadOnlyIfCut
  <1> QED
    BY Inductive, <1>1, <1>2, <1>3, PTL DEF Spec

-----------------------------------------------------------------------------
(* How far an instance is on its way from nothing to closed.               *)
Stage ==
  [none |-> 0, opening |-> 1, seeding |-> 2, failing |-> 3,
   failed |-> 4, live |-> 4, closing |-> 5, closed |-> 6]

(* What WaitEnds rests upon.  Whoever waits, waits for an instance whose   *)
(* creation has begun, and no instance ever goes back: the creation gets   *)
(* to its end, in which the wait ends too, once each of its awaits does,   *)
(* whatever resolutions and shutdowns come in between.                     *)
THEOREM WaitIsForSomething ==
  Spec => /\ [](\A g \in Callers : caller[g] = "waiting" => inst[dhtOf[g]] # "none")
          /\ [][\A i \in Instances : Stage[inst'[i]] >= Stage[inst[i]]]_vars
  <1> DEFINE Begun == \A g \in Callers : caller[g] = "waiting" => inst[dhtOf[g]] # "none"
             Forward == \A i \in Instances : Stage[inst'[i]] >= Stage[inst[i]]
  <1>1. IInv /\ Next => Forward
    <2> SUFFICES ASSUME IInv, Next, NEW i \in Instances
                 PROVE  Stage[inst'[i]] >= Stage[inst[i]]
      OBVIOUS
    <2> DEFINE Same == inst'[i] = inst[i]
               Goes(from, to) == inst[i] \in from /\ inst'[i] = to
    <2>1. \/ Same
          \/ Goes({"none"}, "opening") \/ Goes({"opening"}, "seeding")
          \/ Goes({"opening", "seeding"}, "failing") \/ Goes({"failing"}, "failed")
          \/ Goes({"opening", "seeding"}, "live")
          \/ Goes({"live"}, "closing") \/ Goes({"closing"}, "closed")
      <3>1. CASE \E g \in Callers : GetSharedDht(g) \/ Receive(g) \/ Done(g)
        BY <3>1 DEF GetSharedDht, CreateDht, Receive, Done, IInv, TypeOK
      <3>2. CASE \E j \in Instances : Creation(j)
        BY <3>2 DEF Creation, Listening, CacheRead, Publish, ListenFails,
                    BootstrapThrows, CacheThrows, Failing, Failed, IInv, TypeOK
      <3>3. CASE \E s \in Closers : ShutdownNothing(s) \/ Shutdown(s)
        BY <3>3 DEF ShutdownNothing, Shutdown, IInv, TypeOK, SharedIsLive
      <3>4. CASE \E s \in Closers : Persisted(s) \/ Destroyed(s)
        BY <3>4 DEF Persisted, Destroyed, IInv, TypeOK, ClosersOwn
      <3> QED
        BY <3>1, <3>2, <3>3, <3>4 DEF Next
    <2>2. inst[i] \in InstStates
      BY DEF IInv, TypeOK
    <2> QED
      BY <2>1, <2>2 DEF Stage, InstStates
  <1>2. IInv /\ Begun /\ [Next]_vars => Begun'
    <2> SUFFICES ASSUME IInv, Begun, [Next]_vars, NEW g \in Callers, caller'[g] = "waiting"
                 PROVE  inst'[dhtOf'[g]] # "none"
      OBVIOUS
    <2>1. \A i \in Instances : inst[i] # "none" => inst'[i] # "none"
      <3>1. CASE Next
        <4>1. IInv /\ Next => Forward
          BY <1>1
        <4>2. \A i \in Instances : inst[i] # "none" /\ inst[i] \in InstStates
                                     => Stage[inst[i]] \in Nat \ {0}
          BY DEF Stage, InstStates
        <4>3. Stage["none"] = 0
          BY DEF Stage
        <4> HIDE DEF Stage
        <4> QED
          BY <3>1, <4>1, <4>2, <4>3 DEF IInv, TypeOK
      <3>2. CASE UNCHANGED vars
        BY <3>2 DEF vars
      <3> QED
        BY <3>1, <3>2
    <2>2. CASE caller[g] = "waiting" /\ dhtOf'[g] = dhtOf[g]
      BY <2>1, <2>2, NoneAssumption DEF IInv, TypeOK
    <2>3. CASE GetSharedDht(g)
      <3>1. dhtOf'[g] = readyPromise'
        BY <2>3 DEF GetSharedDht, IInv, TypeOK
      <3>2. CASE readyPromise = None
        BY <2>3, <3>1, <3>2 DEF GetSharedDht, CreateDht, IInv, TypeOK
      <3>3. CASE readyPromise # None
        BY <2>3, <3>1, <3>3 DEF GetSharedDht, IInv, PromiseIsOpen
      <3> QED
        BY <3>2, <3>3
    <2>4. CASE ~ GetSharedDht(g)
      <3>1. caller[g] = "waiting" /\ dhtOf'[g] = dhtOf[g]
        <4>1. CASE \E h \in Callers : GetSharedDht(h) \/ Receive(h) \/ Done(h)
          BY <2>4, <4>1 DEF GetSharedDht, Receive, Done, IInv, TypeOK
        <4>2. CASE \E i \in Instances : Creation(i)
          BY <4>2 DEF Creation, Listening, CacheRead, ListenFails, BootstrapThrows,
                      CacheThrows, Failing, Failed, callerVars
        <4>3. CASE \E s \in Closers : \/ ShutdownNothing(s) \/ Shutdown(s)
                                      \/ Persisted(s) \/ Destroyed(s)
          BY <4>3 DEF ShutdownNothing, Shutdown, Persisted, Destroyed, callerVars
        <4>4. CASE UNCHANGED vars
          BY <4>4 DEF vars
        <4> QED
          BY <4>1, <4>2, <4>3, <4>4 DEF Next
      <3> QED
        BY <2>2, <3>1
    <2> QED
      BY <2>3, <2>4
  <1>3. Init => Begun
    BY DEF Init
  <1> QED
    BY <1>1, <1>2, <1>3, Inductive, PTL DEF Spec

(* What ShutdownCloses rests upon.  A shutdown keeps what it has taken     *)
(* until that is closed, and what is being closed is some shutdown's to    *)
(* see through, whatever becomes of the routing table and whoever else     *)
(* shuts down meanwhile.                                                   *)
THEOREM SeenThrough ==
  Spec => /\ [](\A i \in Instances :
                  inst[i] = "closing" =>
                    \E s \in Closers : closer[s] = "destroying" /\ victim[s] = i)
          /\ [][\A i \in Instances : Taken(i) /\ ~ Taken(i)' => inst'[i] = "closed"]_vars
  <1> USE NoneAssumption
  <1> DEFINE Minded == \A i \in Instances :
                         inst[i] = "closing" =>
                           \E s \in Closers : closer[s] = "destroying" /\ victim[s] = i
             Kept == \A i \in Instances : Taken(i) /\ ~ Taken(i)' => inst'[i] = "closed"
  <1>1. Init => Minded
    BY DEF Init
  <1>2. IInv /\ Minded /\ [Next]_vars => Minded'
    <2> SUFFICES ASSUME IInv, Minded, [Next]_vars, NEW i \in Instances, inst'[i] = "closing"
                 PROVE  \E s \in Closers : closer'[s] = "destroying" /\ victim'[s] = i
      OBVIOUS
    <2>1. CASE \E g \in Callers : GetSharedDht(g) \/ Receive(g) \/ Done(g)
      <3>1. inst[i] = "closing" /\ UNCHANGED <<closer, victim>>
        BY <2>1 DEF GetSharedDht, CreateDht, Receive, Done, IInv, TypeOK, closerVars
      <3> QED
        BY <3>1
    <2>2. CASE \E j \in Instances : Creation(j)
      <3>1. inst[i] = "closing" /\ UNCHANGED <<closer, victim>>
        BY <2>2 DEF Creation, Listening, CacheRead, Publish, ListenFails, BootstrapThrows,
                    CacheThrows, Failing, Failed, IInv, TypeOK, closerVars
      <3> QED
        BY <3>1
    <2>3. CASE \E s \in Closers : ShutdownNothing(s)
      BY <2>3 DEF ShutdownNothing
    <2>4. ASSUME NEW s \in Closers, Shutdown(s)
          PROVE  \E t \in Closers : closer'[t] = "destroying" /\ victim'[t] = i
      <3>1. CASE i = sharedDht /\ sharedCache = None
        BY <2>4, <3>1 DEF Shutdown, IInv, TypeOK
      <3>2. CASE ~ (i = sharedDht /\ sharedCache = None)
        <4>1. inst[i] = "closing"
          BY <2>4, <3>2 DEF Shutdown, IInv, TypeOK
        <4>2. PICK t \in Closers : closer[t] = "destroying" /\ victim[t] = i
          BY <4>1
        <4>3. t # s
          BY <2>4, <4>2 DEF Shutdown
        <4> QED
          BY <2>4, <4>2, <4>3 DEF Shutdown, IInv, TypeOK
      <3> QED
        BY <3>1, <3>2
    <2>5. ASSUME NEW s \in Closers, Persisted(s)
          PROVE  \E t \in Closers : closer'[t] = "destroying" /\ victim'[t] = i
      <3>1. CASE i = victim[s]
        BY <2>5, <3>1 DEF Persisted, IInv, TypeOK
      <3>2. CASE i # victim[s]
        <4>1. inst[i] = "closing"
          BY <2>5, <3>2 DEF Persisted, IInv, TypeOK
        <4>2. PICK t \in Closers : closer[t] = "destroying" /\ victim[t] = i
          BY <4>1
        <4> QED
          BY <2>5, <3>2, <4>2 DEF Persisted, IInv, TypeOK
      <3> QED
        BY <3>1, <3>2
    <2>6. ASSUME NEW s \in Closers, Destroyed(s)
          PROVE  \E t \in Closers : closer'[t] = "destroying" /\ victim'[t] = i
      <3>1. i # victim[s] /\ inst[i] = "closing"
        BY <2>6 DEF Destroyed, IInv, TypeOK
      <3>2. PICK t \in Closers : closer[t] = "destroying" /\ victim[t] = i
        BY <3>1
      <3> QED
        BY <2>6, <3>1, <3>2 DEF Destroyed, IInv, TypeOK
    <2>7. CASE UNCHANGED vars
      BY <2>7 DEF vars
    <2> QED
      BY <2>1, <2>2, <2>3, <2>4, <2>5, <2>6, <2>7 DEF Next
  <1>3. IInv /\ Next => Kept
    <2> SUFFICES ASSUME IInv, Next, NEW i \in Instances, Taken(i), ~ Taken(i)'
                 PROVE  inst'[i] = "closed"
      OBVIOUS
    <2>1. ASSUME NEW s \in Closers, Shutdown(s)
          PROVE  FALSE
      BY <2>1 DEF Shutdown, IInv, TypeOK, ClosersOwn, Taken
    <2>2. ASSUME NEW s \in Closers, Destroyed(s)
          PROVE  inst'[i] = "closed"
      BY <2>2 DEF Destroyed, IInv, TypeOK, Taken
    <2>3. victim' # victim
      BY DEF Taken
    <2> QED
      BY <2>1, <2>2, <2>3
      DEF Next, GetSharedDht, Receive, Done, Creation, Listening, CacheRead, ListenFails,
          BootstrapThrows, CacheThrows, Failing, Failed, ShutdownNothing, Persisted,
          closerVars
  <1> QED
    BY <1>1, <1>2, <1>3, Inductive, PTL DEF Spec

=============================================================================
