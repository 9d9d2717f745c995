---------------------------- MODULE ArtifactStore ----------------------------
(***************************************************************************)
(* The immutable artifact stores of a Campaign (src/contracts/             *)
(* artifacts.ts) and of a Suite (src/contracts/suite-artifacts.ts).  Every *)
(* call is one process: a write puts its bytes into a temporary file, hard *)
(* links that file to the artifact's name and removes the temporary; an    *)
(* existing artifact with the same bytes is accepted.  A read inspects the *)
(* file and then reads it.  Calls of one process or of several interleave  *)
(* at every file-system call, and any of them may die there.               *)
(***************************************************************************)
EXTENDS Naturals, FiniteSets

CONSTANTS
  Calls,        (* Calls of the store.                                     *)
  Refs,         (* Artifact names.                                         *)
  Bytes,        (* Complete contents; a digest is as good as its bytes.    *)
  Absent,       (* There is no such file.                                  *)
  Torn,         (* A temporary file whose bytes are not all written.       *)
  NoCall,       (* No call has linked the artifact yet.                    *)
  CampaignRefs  (* The names in the Campaign store, which refuses a file   *)
                (* with more than one link; the others are in the Suite    *)
                (* store, which does not look.                             *)

ASSUME StoreAssumption ==
  /\ Absent \notin Bytes
  /\ Torn \notin Bytes
  /\ Absent # Torn
  /\ NoCall \notin Calls
  /\ CampaignRefs \subseteq Refs

VARIABLES
  pc,        (* Where each call is.                                        *)
  job,       (* What each call is about: a ref and the bytes to write, or  *)
             (* the bytes that the pointer to read names.                  *)
  temp,      (* The temporary file of each call.                           *)
  entry,     (* The file under each artifact name.                         *)
  linker,    (* The call whose temporary file the artifact is a link of.   *)
  pointers   (* History: the pointers that writes have returned.           *)

vars == <<pc, job, temp, entry, linker, pointers>>

-----------------------------------------------------------------------------
Pointer == [ref : Refs, bytes : Bytes]

Ref(c) == job[c].ref

SingleLink(r) == linker[r] # NoCall => temp[linker[r]] = Absent

(***************************************************************************)
(* assertReadableRegularArtifact and the lstat of existingBytes.           *)
(***************************************************************************)
Readable(r) ==
  /\ entry[r] # Absent
  /\ r \in CampaignRefs => SingleLink(r)

Goto(c, label) == pc' = [pc EXCEPT ![c] = label]

-----------------------------------------------------------------------------
(***************************************************************************)
(* Plausible regressions of the definitions below, used to show that the   *)
(* properties can fail; nothing else refers to them.                       *)
(***************************************************************************)

(* rename() in place of link(): an existing artifact is replaced. *)
BadLinkReplaces(c) ==
  /\ pc[c] = "linking"
  /\ entry' = [entry EXCEPT ![Ref(c)] = temp[c]]
  /\ linker' = [linker EXCEPT ![Ref(c)] = c]
  /\ Goto(c, "linked")
  /\ UNCHANGED <<job, temp, pointers>>

(* writeFile is not awaited. *)
BadLinkEarly(c) ==
  /\ pc[c] \in {"filling", "linking"}
  /\ entry[Ref(c)] = Absent
  /\ entry' = [entry EXCEPT ![Ref(c)] = temp[c]]
  /\ linker' = [linker EXCEPT ![Ref(c)] = c]
  /\ Goto(c, "linked")
  /\ UNCHANGED <<job, temp, pointers>>

(* An existing artifact is taken to be the same without a comparison. *)
BadCompareSkipped(c) ==
  /\ pc[c] = "comparing"
  /\ Goto(c, "same")
  /\ UNCHANGED <<job, temp, entry, linker, pointers>>

(* The temporary file is not removed. *)
BadRemoveNothing(c) ==
  /\ pc[c] \in {"linked", "same"}
  /\ pointers' = pointers \cup {job[c]}
  /\ Goto(c, "written")
  /\ UNCHANGED <<job, temp, entry, linker>>

-----------------------------------------------------------------------------
Init ==
  /\ pc = [c \in Calls |-> "idle"]
  /\ job \in [Calls -> Pointer]
  /\ temp = [c \in Calls |-> Absent]
  /\ entry = [r \in Refs |-> Absent]
  /\ linker = [r \in Refs |-> NoCall]
  /\ pointers = {}

(***************************************************************************)
(* writeArtifactBytes, writeSuiteArtifactBytes.                            *)
(***************************************************************************)
BeginWrite(c) ==
  /\ pc[c] = "idle"
  /\ Goto(c, "opening")
  /\ UNCHANGED <<job, temp, entry, linker, pointers>>

OpenTemporary(c) ==
  /\ pc[c] = "opening"
  /\ temp' = [temp EXCEPT ![c] = Torn]
  /\ Goto(c, "filling")
  /\ UNCHANGED <<job, entry, linker, pointers>>

FillTemporary(c) ==
  /\ pc[c] = "filling"
  /\ temp' = [temp EXCEPT ![c] = job[c].bytes]
  /\ Goto(c, "linking")
  /\ UNCHANGED <<job, entry, linker, pointers>>

LinkArtifact(c) ==
  /\ pc[c] = "linking"
  /\ entry[Ref(c)] = Absent
  /\ entry' = [entry EXCEPT ![Ref(c)] = temp[c]]
  /\ linker' = [linker EXCEPT ![Ref(c)] = c]
  /\ Goto(c, "linked")
  /\ UNCHANGED <<job, temp, pointers>>

(***************************************************************************)
(* EEXIST: the artifact is inspected, then read and compared.              *)
(***************************************************************************)
InspectExisting(c) ==
  /\ pc[c] = "linking"
  /\ entry[Ref(c)] # Absent
  /\ Goto(c, IF Readable(Ref(c)) THEN "comparing" ELSE "refusing")
  /\ UNCHANGED <<job, temp, entry, linker, pointers>>

CompareExisting(c) ==
  /\ pc[c] = "comparing"
  /\ Goto(c, IF entry[Ref(c)] = job[c].bytes THEN "same" ELSE "refusing")
  /\ UNCHANGED <<job, temp, entry, linker, pointers>>

(***************************************************************************)
(* Writing the bytes or linking them fails for a reason of the file        *)
(* system.                                                                 *)
(***************************************************************************)
FailWrite(c) ==
  /\ pc[c] \in {"filling", "linking"}
  /\ Goto(c, "refusing")
  /\ UNCHANGED <<job, temp, entry, linker, pointers>>

(***************************************************************************)
(* finally: the temporary file is removed, and the pointer returned or the *)
(* error thrown.                                                           *)
(***************************************************************************)
ReturnPointer(c) ==
  /\ pc[c] \in {"linked", "same"}
  /\ temp' = [temp EXCEPT ![c] = Absent]
  /\ pointers' = pointers \cup {job[c]}
  /\ Goto(c, "written")
  /\ UNCHANGED <<job, entry, linker>>

ThrowRefusal(c) ==
  /\ pc[c] = "refusing"
  /\ temp' = [temp EXCEPT ![c] = Absent]
  /\ Goto(c, "refused")
  /\ UNCHANGED <<job, entry, linker, pointers>>

(***************************************************************************)
(* readArtifactBytes, readSuiteArtifactBytes.                              *)
(***************************************************************************)
InspectArtifact(c) ==
  /\ pc[c] = "idle"
  /\ Goto(c, IF Readable(Ref(c)) THEN "reading" ELSE "unreadable")
  /\ UNCHANGED <<job, temp, entry, linker, pointers>>

ReadArtifact(c) ==
  /\ pc[c] = "reading"
  /\ Goto(c, IF entry[Ref(c)] = job[c].bytes THEN "read" ELSE "mismatch")
  /\ UNCHANGED <<job, temp, entry, linker, pointers>>

Ended == {"written", "refused", "read", "unreadable", "mismatch", "crashed"}

Crash(c) ==
  /\ pc[c] \notin Ended \cup {"idle"}
  /\ Goto(c, "crashed")
  /\ UNCHANGED <<job, temp, entry, linker, pointers>>

(***************************************************************************)
(* What a begun call does next, if it does not die.                        *)
(***************************************************************************)
Progress(c) ==
  \/ OpenTemporary(c)
  \/ FillTemporary(c)
  \/ LinkArtifact(c)
  \/ InspectExisting(c)
  \/ CompareExisting(c)
  \/ FailWrite(c)
  \/ ReturnPointer(c)
  \/ ThrowRefusal(c)
  \/ ReadArtifact(c)

Step(c) ==
  \/ BeginWrite(c)
  \/ InspectArtifact(c)
  \/ Progress(c)
  \/ Crash(c)

Next == \E c \in Calls : Step(c)

Spec == Init /\ [][Next]_vars

(***************************************************************************)
(* A file-system call that was issued returns.                             *)
(***************************************************************************)
FairSpec == Spec /\ \A c \in Calls : WF_vars(Progress(c))

-----------------------------------------------------------------------------
Labels ==
  Ended \cup {"idle", "opening", "filling", "linking", "linked", "comparing",
              "same", "refusing", "reading"}

(***************************************************************************)
(* Type invariant of the store and its calls.                              *)
(***************************************************************************)
TypeOK ==
  /\ pc \in [Calls -> Labels]
  /\ job \in [Calls -> Pointer]
  /\ temp \in [Calls -> Bytes \cup {Absent, Torn}]
  /\ entry \in [Refs -> Bytes \cup {Absent, Torn}]
  /\ linker \in [Refs -> Calls \cup {NoCall}]
  /\ pointers \subseteq Pointer

(***************************************************************************)
(* No artifact name ever shows a file that is still being written, so a    *)
(* reader that runs next to the writer, or after it died, sees all of the  *)
(* bytes or no file.                                                       *)
(***************************************************************************)
PublishedWhole == \A r \in Refs : entry[r] # Torn

(***************************************************************************)
(* "Artifact writes never replace different frozen bytes": whatever calls  *)
(* interleave, the bytes under an artifact name are those of its first     *)
(* write.                                                                  *)
(***************************************************************************)
FrozenBytes ==
  [][\A r \in Refs : entry[r] # Absent => entry'[r] = entry[r]]_vars

(***************************************************************************)
(* A read through a pointer that some write has returned succeeds, for     *)
(* every caller and whatever other calls of that artifact do or did before *)
(* they died: the name holds the bytes of the pointer and, in the Campaign *)
(* store, no temporary file of another writer still links to it.           *)
(***************************************************************************)
ReadsServed ==
  [][\A c \in Calls :
       job[c] \in pointers =>
         ~(pc[c] \in {"idle", "reading"} /\ pc'[c] \in {"unreadable", "mismatch"})]_vars

(***************************************************************************)
(* Every artifact that appears becomes readable unless the call that made  *)
(* it appear dies, also when it was one of several writers.                *)
(***************************************************************************)
EventuallyReadable ==
  \A r \in Refs :
    entry[r] # Absent ~>
      \/ Readable(r)
      \/ \E c \in Calls : linker[r] = c /\ pc[c] = "crashed"

-----------------------------------------------------------------------------
(***************************************************************************)
(* The stores implement a register that is set once for each artifact: it  *)
(* is set when a temporary file is linked, and a call has ended when its   *)
(* caller hears of it (writeArtifactBytes, readArtifactBytes).             *)
(***************************************************************************)
Heard == Ended \ {"crashed"}
Endings == [c \in Calls |-> IF pc[c] \in Heard THEN pc[c] ELSE "pending"]

Register == INSTANCE WriteOnce WITH content <- entry, outcome <- Endings

RegisterSpec == Register!Spec
=============================================================================
