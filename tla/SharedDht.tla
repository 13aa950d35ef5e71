----------------------------- MODULE SharedDht -----------------------------
(***************************************************************************)
(* The process-wide DHT (shared-dht.js): getSharedDht creates it on first  *)
(* use and hands out the promise of its creation; shutdownSharedDht saves  *)
(* its routing table, if it has a cache file, and closes it.               *)
(*                                                                         *)
(* Each step runs from one await of an async function to the next.  An     *)
(* instance stands for a DHT object, the createDht call that makes it and  *)
(* the promise of that call.                                               *)
(***************************************************************************)
CONSTANTS Instances,  \* the DHT objects that can be made
          Callers,    \* the resolutions that call getSharedDht
          Closers,    \* the callers of shutdownSharedDht
          Files,      \* the paths given as dhtCacheFile
          None        \* null

ASSUME NoneAssumption == None \notin Instances /\ None \notin Files

VARIABLES
  sharedDht,     \* the module's variables ...
  readyPromise,  \* ... sharedDhtReadyPromise, as the instance it is for
  sharedCache,   \* ... sharedDhtCacheFile
  inst,          \* per instance, how far its createDht or its closing is
  file,          \* per instance, its opts.dhtCacheFile
  seeds,         \* the instances given opts.dhtBootstrapNodes
  caller,        \* per caller: "idle", "waiting", "using", "failed"
  dhtOf,         \* per caller: the instance it waits for or uses
  closer,        \* per closer: "idle", "persisting", "destroying"
  victim,        \* per closer: the instance it closes
  saves,         \* per closer: the file it writes to
  hasty,         \* history: was a shutdown called during a creation?
  cut            \* history: callers whose instance a shutdown took

vars == <<sharedDht, readyPromise, sharedCache, inst, file, seeds,
          caller, dhtOf, closer, victim, saves, hasty, cut>>
moduleVars == <<sharedDht, readyPromise, sharedCache>>
callerVars == <<caller, dhtOf>>
closerVars == <<closer, victim, saves, hasty>>

InstStates == {"none", "opening", "seeding", "failing", "failed",
               "live", "closing", "closed"}

(* The types; and who waits for, uses or closes an instance has one.       *)
TypeOK ==
  /\ sharedDht \in Instances \cup {None}
  /\ readyPromise \in Instances \cup {None}
  /\ sharedCache \in Files \cup {None}
  /\ inst \in [Instances -> InstStates]
  /\ file \in [Instances -> Files \cup {None}]
  /\ seeds \subseteq Instances
  /\ caller \in [Callers -> {"idle", "waiting", "using", "failed"}]
  /\ dhtOf \in [Callers -> Instances \cup {None}]
  /\ closer \in [Closers -> {"idle", "persisting", "destroying"}]
  /\ victim \in [Closers -> Instances \cup {None}]
  /\ saves \in [Closers -> Files \cup {None}]
  /\ hasty \in BOOLEAN
  /\ cut \subseteq Callers
  /\ \A g \in Callers : caller[g] # "idle" => dhtOf[g] # None
  /\ \A s \in Closers : closer[s] # "idle" => victim[s] # None

Init ==
  /\ sharedDht = None
  /\ readyPromise = None
  /\ sharedCache = None
  /\ inst = [i \in Instances |-> "none"]
  /\ file = [i \in Instances |-> None]
  /\ seeds = {}
  /\ caller = [g \in Callers |-> "idle"]
  /\ dhtOf = [g \in Callers |-> None]
  /\ closer = [s \in Closers |-> "idle"]
  /\ victim = [s \in Closers |-> None]
  /\ saves = [s \in Closers |-> None]
  /\ hasty = FALSE
  /\ cut = {}

-----------------------------------------------------------------------------
(* createDht(opts), up to its first await: a DHT is made and told to       *)
(* listen.                                                                 *)
CreateDht(i) ==
  /\ inst[i] = "none"
  /\ inst' = [inst EXCEPT ![i] = "opening"]
  /\ \E f \in Files \cup {None} : file' = [file EXCEPT ![i] = f]
  /\ seeds' \in {seeds, seeds \cup {i}}
  /\ readyPromise' = i

GetLiveDht(g) ==                                                     \* mutant
  /\ caller[g] \in {"idle", "failed"}
  /\ \/ /\ sharedDht = None
        /\ \E i \in Instances : CreateDht(i)
     \/ /\ sharedDht # None
        /\ UNCHANGED <<readyPromise, inst, file, seeds>>
  /\ caller' = [caller EXCEPT ![g] = "waiting"]
  /\ dhtOf' = [dhtOf EXCEPT ![g] = readyPromise']
  /\ cut' = cut \ {g}
  /\ UNCHANGED <<sharedDht, sharedCache, closerVars>>

(* getSharedDht: the promise there is, or that of a new creation.          *)
GetSharedDht(g) ==
  /\ caller[g] \in {"idle", "failed"}
  /\ \/ /\ readyPromise = None
        /\ \E i \in Instances : CreateDht(i)
     \/ /\ readyPromise # None
        /\ UNCHANGED <<readyPromise, inst, file, seeds>>
  /\ caller' = [caller EXCEPT ![g] = "waiting"]
  /\ dhtOf' = [dhtOf EXCEPT ![g] = readyPromise']
  /\ cut' = cut \ {g}
  /\ UNCHANGED <<sharedDht, sharedCache, closerVars>>

PublishKeepsCache(i) ==                                              \* mutant
  /\ inst' = [inst EXCEPT ![i] = "live"]
  /\ sharedDht' = i
  /\ sharedCache' = IF file[i] = None THEN sharedCache ELSE file[i]

(* The last lines of createDht: the instance becomes the shared one.       *)
Publish(i) ==
  /\ inst' = [inst EXCEPT ![i] = "live"]
  /\ sharedDht' = i
  /\ sharedCache' = file[i]

(* The socket is bound.  Without a cache file the creation ends here.      *)
Listening(i) ==
  /\ inst[i] = "opening"
  /\ IF file[i] = None
       THEN Publish(i)
       ELSE /\ inst' = [inst EXCEPT ![i] = "seeding"]
            /\ UNCHANGED <<sharedDht, sharedCache>>
  /\ UNCHANGED <<readyPromise, file, seeds, callerVars, closerVars, cut>>

(* readCacheFile has answered, with no nodes if the file is unusable, and  *)
(* the nodes have been added.                                              *)
CacheRead(i) ==
  /\ inst[i] = "seeding"
  /\ Publish(i)
  /\ UNCHANGED <<readyPromise, file, seeds, callerVars, closerVars, cut>>

(* The catch block is entered and starts to destroy the instance: listen   *)
(* reported an error ...                                                   *)
Failing(i) ==
  /\ inst' = [inst EXCEPT ![i] = "failing"]
  /\ UNCHANGED <<moduleVars, file, seeds, callerVars, closerVars, cut>>

ListenFails(i) == inst[i] = "opening" /\ Failing(i)

(* ... or addNode threw on a bootstrap node ...                            *)
BootstrapThrows(i) ==
  /\ \/ inst[i] = "opening" /\ file[i] = None
     \/ inst[i] = "seeding"
  /\ i \in seeds
  /\ Failing(i)

(* ... or on what the cache file holds in its array of nodes.              *)
CacheThrows(i) == inst[i] = "seeding" /\ Failing(i)

(* Destroyed; the error is thrown and the promise rejected.                *)
Failed(i) ==
  /\ inst[i] = "failing"
  /\ inst' = [inst EXCEPT ![i] = "failed"]
  /\ UNCHANGED <<moduleVars, file, seeds, callerVars, closerVars, cut>>

ReceiveFulfilled(g) ==                                               \* mutant
  /\ caller[g] = "waiting"
  /\ inst[dhtOf[g]] \in {"live", "closing"}
  /\ caller' = [caller EXCEPT ![g] = "using"]
  /\ UNCHANGED <<moduleVars, inst, file, seeds, dhtOf, closerVars, cut>>

(* A caller's await is over, and it asks for the address.  The promise of  *)
(* an instance stays fulfilled when the instance is closed, but address()  *)
(* throws once the socket is: the resolution fails.                        *)
Receive(g) ==
  /\ caller[g] = "waiting"
  /\ \/ /\ inst[dhtOf[g]] \in {"live", "closing"}
        /\ caller' = [caller EXCEPT ![g] = "using"]
     \/ /\ inst[dhtOf[g]] \in {"failed", "closing", "closed"}
        /\ caller' = [caller EXCEPT ![g] = "failed"]
  /\ UNCHANGED <<moduleVars, inst, file, seeds, dhtOf, closerVars, cut>>

(* The resolution is over; its caller may start another.                   *)
Done(g) ==
  /\ caller[g] = "using"
  /\ caller' = [caller EXCEPT ![g] = "idle"]
  /\ dhtOf' = [dhtOf EXCEPT ![g] = None]
  /\ UNCHANGED <<moduleVars, inst, file, seeds, closerVars, cut>>

-----------------------------------------------------------------------------
CreationUnderWay == \E i \in Instances : inst[i] \in {"opening", "seeding", "failing"}

NoteHaste == hasty' = (hasty \/ CreationUnderWay)

(* Those who wait for the shared instance, or use it, when it is taken.    *)
NoteCut ==
  cut' = cut \cup {g \in Callers : /\ caller[g] \in {"waiting", "using"}
                                   /\ dhtOf[g] = sharedDht}

(* shutdownSharedDht.  With no instance yet it only forgets the promise;   *)
(* otherwise it takes the instance, clears the module's variables and goes *)
(* on to save or to destroy what it took.                                  *)
ShutdownNothing(s) ==
  /\ closer[s] = "idle"
  /\ sharedDht = None
  /\ readyPromise' = None
  /\ UNCHANGED <<sharedDht, sharedCache, inst, file, seeds, callerVars, closer,
                 victim, saves, cut>>
  /\ NoteHaste

ShutdownClearsLate(s) ==                                             \* mutant
  /\ closer[s] = "idle"
  /\ sharedDht # None
  /\ victim' = [victim EXCEPT ![s] = sharedDht]
  /\ saves' = [saves EXCEPT ![s] = sharedCache]
  /\ UNCHANGED moduleVars
  /\ IF sharedCache # None
       THEN closer' = [closer EXCEPT ![s] = "persisting"] /\ UNCHANGED inst
       ELSE /\ closer' = [closer EXCEPT ![s] = "destroying"]
            /\ inst' = [inst EXCEPT ![sharedDht] = "closing"]
  /\ NoteHaste
  /\ NoteCut
  /\ UNCHANGED <<file, seeds, callerVars>>

ShutdownKeepsPromise(s) ==                                           \* mutant
  /\ closer[s] = "idle"
  /\ sharedDht # None
  /\ victim' = [victim EXCEPT ![s] = sharedDht]
  /\ saves' = [saves EXCEPT ![s] = sharedCache]
  /\ sharedDht' = None
  /\ sharedCache' = None
  /\ UNCHANGED readyPromise
  /\ IF sharedCache # None
       THEN closer' = [closer EXCEPT ![s] = "persisting"] /\ UNCHANGED inst
       ELSE /\ closer' = [closer EXCEPT ![s] = "destroying"]
            /\ inst' = [inst EXCEPT ![sharedDht] = "closing"]
  /\ NoteHaste
  /\ NoteCut
  /\ UNCHANGED <<file, seeds, callerVars>>

Shutdown(s) ==
  /\ closer[s] = "idle"
  /\ sharedDht # None
  /\ victim' = [victim EXCEPT ![s] = sharedDht]
  /\ saves' = [saves EXCEPT ![s] = sharedCache]
  /\ sharedDht' = None
  /\ sharedCache' = None
  /\ readyPromise' = None
  /\ IF sharedCache # None
       THEN closer' = [closer EXCEPT ![s] = "persisting"] /\ UNCHANGED inst
       ELSE /\ closer' = [closer EXCEPT ![s] = "destroying"]
            /\ inst' = [inst EXCEPT ![sharedDht] = "closing"]
  /\ NoteHaste
  /\ NoteCut
  /\ UNCHANGED <<file, seeds, callerVars>>

PersistFails(s) ==                                                   \* mutant
  /\ closer[s] = "persisting"
  /\ closer' = [closer EXCEPT ![s] = "idle"]
  /\ UNCHANGED <<moduleVars, inst, file, seeds, callerVars, victim, saves, hasty, cut>>

(* persistDhtCache has settled.  Its failure is ignored and the instance   *)
(* destroyed either way.                                                   *)
Persisted(s) ==
  /\ closer[s] = "persisting"
  /\ closer' = [closer EXCEPT ![s] = "destroying"]
  /\ inst' = [inst EXCEPT ![victim[s]] = "closing"]
  /\ UNCHANGED <<moduleVars, file, seeds, callerVars, victim, saves, hasty, cut>>

(* The instance has closed its socket.                                     *)
Destroyed(s) ==
  /\ closer[s] = "destroying"
  /\ inst' = [inst EXCEPT ![victim[s]] = "closed"]
  /\ closer' = [closer EXCEPT ![s] = "idle"]
  /\ victim' = [victim EXCEPT ![s] = None]
  /\ saves' = [saves EXCEPT ![s] = None]
  /\ UNCHANGED <<moduleVars, file, seeds, callerVars, hasty, cut>>

Creation(i) ==
  \/ Listening(i)
  \/ CacheRead(i)
  \/ ListenFails(i)
  \/ BootstrapThrows(i)
  \/ CacheThrows(i)
  \/ Failed(i)

Next ==
  \/ \E g \in Callers : GetSharedDht(g) \/ Receive(g) \/ Done(g)
  \/ \E i \in Instances : Creation(i)
  \/ \E s \in Closers :
       ShutdownNothing(s) \/ Shutdown(s) \/ Persisted(s) \/ Destroyed(s)

Spec == Init /\ [][Next]_vars

(* Binding a socket, reading and writing a file and closing a socket end,  *)
(* one way or the other, and who awaits a promise that has settled goes    *)
(* on.  Nothing is assumed of the library's users.                         *)
Fairness ==
  /\ \A g \in Callers : WF_vars(Receive(g))
  /\ \A i \in Instances : WF_vars(Creation(i))
  /\ \A s \in Closers : WF_vars(Persisted(s)) /\ WF_vars(Destroyed(s))

FairSpec == Spec /\ Fairness

-----------------------------------------------------------------------------
(* Whoever awaits getSharedDht next does not get an instance that is being *)
(* closed or has been.                                                     *)
ReadyNeverClosed ==
  readyPromise # None => inst[readyPromise] \notin {"closing", "closed"}

(* A resolution waits for, or uses, an instance that is being closed or    *)
(* has been only if the shutdown came while it did: nobody who asks later  *)
(* is handed a dead one.                                                   *)
DeadOnlyIfCut ==
  \A g \in Callers :
    /\ caller[g] \in {"waiting", "using"}
    /\ inst[dhtOf[g]] \in {"closing", "closed"}
    => g \in cut

(* The wait for the shared DHT, which no budget's timer bounds, ends: with *)
(* an instance or with an error, whoever closes the instance meanwhile.    *)
WaitEnds == \A g \in Callers : caller[g] = "waiting" ~> caller[g] # "waiting"

(* "Only the first caller actually persists/destroys": no instance is      *)
(* taken by two shutdowns, and one that is taken is no longer the shared   *)
(* one.                                                                    *)
TakenOnce ==
  \A s \in Closers :
    victim[s] # None =>
      /\ sharedDht # victim[s]
      /\ \A t \in Closers : victim[t] = victim[s] => t = s

(* A routing table is written back to the file its instance was seeded     *)
(* from, whatever instances came before and after.                         *)
SavedWhereItCameFrom ==
  \A s \in Closers : victim[s] # None => saves[s] = file[victim[s]]

(* A shutdown that has taken an instance closes it, even when the routing  *)
(* table cannot be saved.                                                  *)
ShutdownCloses ==
  \A i \in Instances :
    (\E s \in Closers : victim[s] = i) ~> inst[i] = "closed"

(* At most one DHT is open that no shutdown has taken: "One DHT instance   *)
(* serves every call in the process".                                      *)
Taken(i) == \E s \in Closers : victim[s] = i

Open(i) == inst[i] \in {"opening", "seeding", "failing", "live"}

OneDht ==
  \A i, j \in Instances :
    Open(i) /\ ~ Taken(i) /\ Open(j) /\ ~ Taken(j) => i = j

(* It holds as long as nobody has called shutdownSharedDht while a creation *)
(* was under way ...                                                       *)
OneDhtUnlessHasty == ~ hasty => OneDht

(* ... and so does this: every instance that is live and not taken is the  *)
(* shared one, so that a shutdown can still close it.                      *)
NoOrphanUnlessHasty ==
  ~ hasty => \A i \in Instances : inst[i] = "live" /\ ~ Taken(i) => sharedDht = i

(* "A corrupt/unreadable cache file should never break resolution": a      *)
(* creation without bootstrap nodes does not fail once it has listened.    *)
CacheNeverBreaks ==
  [][\A i \in Instances :
       inst[i] = "seeding" /\ i \notin seeds => inst'[i] # "failing"]_vars

=============================================================================
