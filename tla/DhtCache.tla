------------------------------ MODULE DhtCache ------------------------------
(***************************************************************************)
(* persistDhtCache (shared-dht.js): the writers of one dhtCacheFile, each  *)
(* in a process of its own that may crash at any moment.                   *)
(*                                                                         *)
(* A file's content is the sequence of the chunks in it, each named by the *)
(* writer it is from: a complete table of w is Table(w).  writeFile opens  *)
(* and truncates the file, then writes chunk after chunk.                  *)
(***************************************************************************)
EXTENDS Naturals, Sequences

CONSTANTS Writers,  \* the calls to persistDhtCache
          Chunks,   \* how many write operations a table takes
          Absent    \* there is no file

ASSUME DhtCacheAssumption ==
  /\ Chunks \in Nat \ {0}
  /\ Absent \notin Seq(Writers)

VARIABLES
  cache,   \* the content of dhtCacheFile
  tmp,     \* the content of every temporary path
  pc,      \* per writer: where it is, or how it ended (Over)
  written  \* per writer, the chunks its writeFile has written

vars == <<cache, tmp, pc, written>>

(* Saved; writeFile failed; rename failed, and the temporary file could be *)
(* removed or not; the process died.                                       *)
Over == {"saved", "unwritten", "failed", "littered", "crashed"}

Table(w) == [k \in 1 .. Chunks |-> w]

TmpPathShared(w) == CHOOSE v \in Writers : TRUE                      \* mutant

(* The temporary path has the pid and a random suffix in it: a path of the *)
(* writer's own, next to dhtCacheFile.                                     *)
TmpPath(w) == w

(* The types; and a writer at work has its temporary file.                 *)
TypeOK ==
  /\ cache \in Seq(Writers) \cup {Absent}
  /\ tmp \in [Writers -> Seq(Writers) \cup {Absent}]
  /\ pc \in [Writers -> Over \cup {"idle", "writing", "renaming", "unlinking"}]
  /\ written \in [Writers -> 0 .. Chunks]
  /\ \A w \in Writers :
       pc[w] \in {"writing", "renaming", "unlinking"} => tmp[w] # Absent

Init ==
  /\ cache = Absent
  /\ tmp = [p \in Writers |-> Absent]
  /\ pc = [w \in Writers |-> "idle"]
  /\ written = [w \in Writers |-> 0]

-----------------------------------------------------------------------------
Goto(w, l) == pc' = [pc EXCEPT ![w] = l]

(* writeFile opens the temporary file, creating or truncating it.          *)
OpenTmp(w) ==
  /\ pc[w] = "idle"
  /\ Goto(w, "writing")
  /\ tmp' = [tmp EXCEPT ![TmpPath(w)] = << >>]
  /\ UNCHANGED <<cache, written>>

(* ... and writes the next chunk at the descriptor's own offset.           *)
WriteChunk(w) ==
  /\ pc[w] = "writing"
  /\ written[w] < Chunks
  /\ tmp[TmpPath(w)] # Absent
  /\ LET old == tmp[TmpPath(w)]
         at == written[w] + 1
     IN tmp' = [tmp EXCEPT ![TmpPath(w)] =
                  IF at <= Len(old) THEN [old EXCEPT ![at] = w] ELSE Append(old, w)]
  /\ written' = [written EXCEPT ![w] = @ + 1]
  /\ UNCHANGED <<cache, pc>>

TmpWritten(w) ==
  /\ pc[w] = "writing"
  /\ written[w] = Chunks
  /\ Goto(w, "renaming")
  /\ UNCHANGED <<cache, tmp, written>>

(* writeFile fails (no directory, no space): the error is thrown with no   *)
(* attempt to remove what was written, which is outside the try block.     *)
WriteFails(w) ==
  /\ pc[w] \in {"idle", "writing"}
  /\ Goto(w, "unwritten")
  /\ UNCHANGED <<cache, tmp, written>>

(* rename moves the temporary file into place at once, or fails.           *)
Rename(w) ==
  /\ pc[w] = "renaming"
  /\ tmp[TmpPath(w)] # Absent
  /\ cache' = tmp[TmpPath(w)]
  /\ tmp' = [tmp EXCEPT ![TmpPath(w)] = Absent]
  /\ Goto(w, "saved")
  /\ UNCHANGED written

RenameFailsKeepsTmp(w) ==                                            \* mutant
  /\ pc[w] = "renaming"
  /\ Goto(w, "failed")
  /\ UNCHANGED <<cache, tmp, written>>

RenameFails(w) ==
  /\ pc[w] = "renaming"
  /\ Goto(w, "unlinking")
  /\ UNCHANGED <<cache, tmp, written>>

(* A failed rename is followed by the removal of the temporary file, and   *)
(* then thrown whether that succeeded or not.                              *)
Unlink(w) ==
  /\ pc[w] = "unlinking"
  /\ tmp' = [tmp EXCEPT ![TmpPath(w)] = Absent]
  /\ Goto(w, "failed")
  /\ UNCHANGED <<cache, written>>

UnlinkFails(w) ==
  /\ pc[w] = "unlinking"
  /\ Goto(w, "littered")
  /\ UNCHANGED <<cache, tmp, written>>

(* The writer's process dies.                                              *)
Crash(w) ==
  /\ pc[w] \notin Over
  /\ Goto(w, "crashed")
  /\ UNCHANGED <<cache, tmp, written>>

Next ==
  \E w \in Writers :
    \/ OpenTmp(w)
    \/ WriteChunk(w)
    \/ TmpWritten(w)
    \/ WriteFails(w)
    \/ Rename(w)
    \/ RenameFails(w)
    \/ Unlink(w)
    \/ UnlinkFails(w)
    \/ Crash(w)

Spec == Init /\ [][Next]_vars

-----------------------------------------------------------------------------
(* "The final content is always exactly one complete write or the other,   *)
(* never a mix", in spite of crashes: the cache file is an atomic register. *)
Owner(content) ==
  IF content = Absent THEN Absent
  ELSE IF \E w \in Writers : content = Table(w) THEN content[1]
  ELSE "torn"

Atomic == INSTANCE AtomicCache WITH
            Nothing <- Absent,
            content <- Owner(cache),
            over <- {w \in Writers : pc[w] \in Over}

ImplementsAtomicCache == Atomic!Spec

(* A temporary file is left behind only by a crash, by a writeFile that    *)
(* failed or by an unlink that failed; other writers never touch it.       *)
LitterOnlyFromBrokenWrites ==
  \A w \in Writers : pc[w] \in {"saved", "failed"} => tmp[w] = Absent

=============================================================================
