--------------------------- MODULE Episodes_proofs ---------------------------
(***************************************************************************)
(* Proofs about Episodes and what they rest on: the artifact store, for    *)
(* every set of calls, refs and bytes, the runners of child processes, for *)
(* every output limit and any number of chunks, and the Episode itself,    *)
(* for Sessions of any length.                                             *)
(***************************************************************************)
EXTENDS ArtifactStore, CarrierProcess, Episode, Integers, FiniteSetTheorems,
        SequenceTheorems, WellFoundedInduction, TLAPS

(***************************************************************************)
(* The inductive invariant.  A file is linked from a complete temporary,   *)
(* an artifact remembers one linker for ever, and a call that passed the   *)
(* inspection of a readable artifact finds it readable from then on.       *)
(***************************************************************************)
TempWhole ==
  \A c \in Calls :
    pc[c] \in {"linking", "linked", "comparing", "same"} => temp[c] = job[c].bytes

LinkerKnown == \A r \in Refs : entry[r] # Absent <=> linker[r] # NoCall

LinkerPlace ==
  \A r \in Refs :
    linker[r] # NoCall => pc[linker[r]] \in {"linked", "written", "crashed"}

LinkedByCaller ==
  \A c \in Calls :
    pc[c] = "linked" => linker[Ref(c)] = c /\ entry[Ref(c)] = job[c].bytes

InspectedReadable ==
  \A c \in Calls : pc[c] \in {"comparing", "same", "reading"} => Readable(Ref(c))

SameBytes ==
  \A c \in Calls : pc[c] = "same" => entry[Ref(c)] = job[c].bytes

PointersReadable ==
  \A p \in pointers : entry[p.ref] = p.bytes /\ Readable(p.ref)

IInv ==
  /\ TypeOK
  /\ PublishedWhole
  /\ TempWhole
  /\ LinkerKnown
  /\ LinkerPlace
  /\ LinkedByCaller
  /\ InspectedReadable
  /\ SameBytes
  /\ PointersReadable

-----------------------------------------------------------------------------
(***************************************************************************)
(* The job of a call names a ref and complete bytes.                       *)
(***************************************************************************)
LEMMA JobFacts ==
  ASSUME TypeOK, NEW c \in Calls
  PROVE  /\ Ref(c) \in Refs
         /\ job[c].bytes \in Bytes
         /\ job[c].ref = Ref(c)
         /\ job[c] \in Pointer
BY DEF TypeOK, Pointer, Ref

LEMMA StepTypeOK ==
  ASSUME TypeOK, NEW c \in Calls, Step(c)
  PROVE  TypeOK'
<1>1. /\ Ref(c) \in Refs
      /\ job[c].bytes \in Bytes
      /\ job[c] \in Pointer
  BY JobFacts
<1> USE DEF TypeOK, Goto, Labels, Ended
<1>2. CASE BeginWrite(c)
  BY <1>2 DEF BeginWrite
<1>3. CASE InspectArtifact(c)
  BY <1>3 DEF InspectArtifact
<1>4. CASE OpenTemporary(c)
  BY <1>4 DEF OpenTemporary
<1>5. CASE FillTemporary(c)
  BY <1>1, <1>5 DEF FillTemporary
<1>6. CASE LinkArtifact(c)
  BY <1>1, <1>6 DEF LinkArtifact
<1>7. CASE InspectExisting(c)
  BY <1>7 DEF InspectExisting
<1>8. CASE CompareExisting(c)
  BY <1>8 DEF CompareExisting
<1>9. CASE FailWrite(c)
  BY <1>9 DEF FailWrite
<1>10. CASE ReturnPointer(c)
  BY <1>1, <1>10 DEF ReturnPointer
<1>11. CASE ThrowRefusal(c)
  BY <1>11 DEF ThrowRefusal
<1>12. CASE ReadArtifact(c)
  BY <1>12 DEF ReadArtifact
<1>13. CASE Crash(c)
  BY <1>13 DEF Crash
<1>14. QED
  BY <1>2, <1>3, <1>4, <1>5, <1>6, <1>7, <1>8, <1>9, <1>10, <1>11, <1>12, <1>13,
     Step(c) DEF Step, Progress

(***************************************************************************)
(* A step of call c touches the label and the temporary of no other call,  *)
(* and the file of a ref only by creating it.                              *)
(***************************************************************************)
LEMMA StepFrame ==
  ASSUME TypeOK, NEW c \in Calls, Step(c)
  PROVE  /\ job' = job
         /\ \A d \in Calls : d # c => pc'[d] = pc[d] /\ temp'[d] = temp[d]
         /\ \A r \in Refs :
              \/ entry'[r] = entry[r] /\ linker'[r] = linker[r]
              \/ /\ LinkArtifact(c) /\ r = Ref(c)
                 /\ entry[r] = Absent
                 /\ entry'[r] = temp[c] /\ linker'[r] = c
         /\ temp'[c] # temp[c] =>
              \/ pc[c] \in {"opening", "filling"}
              \/ temp'[c] = Absent
<1> USE DEF TypeOK, Goto
<1>1. CASE LinkArtifact(c)
  BY <1>1, JobFacts DEF LinkArtifact
<1>2. CASE ~LinkArtifact(c)
  BY <1>2, Step(c) DEF Step, Progress, BeginWrite, InspectArtifact, OpenTemporary,
     FillTemporary, InspectExisting, CompareExisting, FailWrite, ReturnPointer,
     ThrowRefusal, ReadArtifact, Crash
<1>3. QED
  BY <1>1, <1>2

(***************************************************************************)
(* What is readable stays readable, with the same bytes: the linker of an  *)
(* artifact never opens another temporary file.                            *)
(***************************************************************************)
LEMMA StaysReadable ==
  ASSUME TypeOK, LinkerKnown, LinkerPlace, NEW c \in Calls, Step(c),
         NEW r \in Refs, Readable(r)
  PROVE  /\ entry'[r] = entry[r]
         /\ entry'[r] # Absent
         /\ r \in CampaignRefs => (linker'[r] # NoCall => temp'[linker'[r]] = Absent)
<1>1. entry'[r] = entry[r] /\ linker'[r] = linker[r] /\ entry[r] # Absent
  BY StepFrame DEF Readable
<1>2. ASSUME r \in CampaignRefs, linker[r] # NoCall
      PROVE  temp'[linker[r]] = Absent
  <2>1. linker[r] \in Calls /\ temp[linker[r]] = Absent
    BY <1>2 DEF Readable, SingleLink, TypeOK
  <2>2. pc[linker[r]] \notin {"opening", "filling"}
    BY <1>2 DEF LinkerPlace
  <2>3. QED
    BY <2>1, <2>2, StepFrame
<1>3. QED
  BY <1>1, <1>2

-----------------------------------------------------------------------------
LEMMA StepPublishedWhole ==
  ASSUME TypeOK, PublishedWhole, TempWhole, NEW c \in Calls, Step(c)
  PROVE  PublishedWhole'
<1>1. SUFFICES ASSUME NEW r \in Refs PROVE entry'[r] # Torn
  BY DEF PublishedWhole
<1>2. CASE entry'[r] = entry[r]
  BY <1>2 DEF PublishedWhole
<1>3. CASE entry'[r] # entry[r]
  <2>1. LinkArtifact(c) /\ entry'[r] = temp[c]
    BY <1>3, StepFrame
  <2>2. temp[c] = job[c].bytes
    BY <2>1 DEF LinkArtifact, TempWhole
  <2>3. QED
    BY <2>1, <2>2, JobFacts, StoreAssumption
<1>4. QED
  BY <1>2, <1>3

LEMMA StepTempWhole ==
  ASSUME TypeOK, TempWhole, NEW c \in Calls, Step(c)
  PROVE  TempWhole'
<1>1. SUFFICES ASSUME NEW d \in Calls,
                      pc'[d] \in {"linking", "linked", "comparing", "same"}
               PROVE  temp'[d] = job'[d].bytes
  BY DEF TempWhole
<1>2. job'[d].bytes = job[d].bytes
  BY StepFrame
<1>3. CASE d # c
  BY <1>1, <1>2, <1>3, StepFrame DEF TempWhole
<1>4. CASE d = c
  BY <1>1, <1>2, <1>4, Step(c) DEF Step, Progress, TypeOK, TempWhole, Goto, BeginWrite,
     InspectArtifact, OpenTemporary, FillTemporary, LinkArtifact, InspectExisting,
     CompareExisting, FailWrite, ReturnPointer, ThrowRefusal, ReadArtifact, Crash
<1>5. QED
  BY <1>3, <1>4

LEMMA StepLinkerKnown ==
  ASSUME TypeOK, TempWhole, LinkerKnown, NEW c \in Calls, Step(c)
  PROVE  LinkerKnown'
<1>1. SUFFICES ASSUME NEW r \in Refs PROVE entry'[r] # Absent <=> linker'[r] # NoCall
  BY DEF LinkerKnown
<1>2. CASE entry'[r] = entry[r] /\ linker'[r] = linker[r]
  BY <1>2 DEF LinkerKnown
<1>3. CASE ~(entry'[r] = entry[r] /\ linker'[r] = linker[r])
  <2>1. LinkArtifact(c) /\ entry'[r] = temp[c] /\ linker'[r] = c
    BY <1>3, StepFrame
  <2>2. temp[c] = job[c].bytes
    BY <2>1 DEF LinkArtifact, TempWhole
  <2>3. QED
    BY <2>1, <2>2, JobFacts, StoreAssumption
<1>4. QED
  BY <1>2, <1>3

LEMMA StepLinkerPlace ==
  ASSUME TypeOK, LinkerPlace, NEW c \in Calls, Step(c)
  PROVE  LinkerPlace'
<1>1. SUFFICES ASSUME NEW r \in Refs, linker'[r] # NoCall
               PROVE  pc'[linker'[r]] \in {"linked", "written", "crashed"}
  BY DEF LinkerPlace
<1>2. CASE linker'[r] = linker[r]
  <2>1. linker[r] \in Calls /\ pc[linker[r]] \in {"linked", "written", "crashed"}
    BY <1>1, <1>2 DEF LinkerPlace, TypeOK
  <2>2. CASE linker[r] # c
    BY <1>2, <2>1, <2>2, StepFrame
  <2>3. CASE linker[r] = c
    BY <1>2, <2>1, <2>3, Step(c) DEF Step, Progress, TypeOK, Goto, BeginWrite,
       InspectArtifact, OpenTemporary, FillTemporary, LinkArtifact, InspectExisting,
       CompareExisting, FailWrite, ReturnPointer, ThrowRefusal, ReadArtifact, Crash
  <2>4. QED
    BY <2>2, <2>3
<1>3. CASE linker'[r] # linker[r]
  <2>1. LinkArtifact(c) /\ linker'[r] = c
    BY <1>3, StepFrame
  <2>2. QED
    BY <2>1 DEF LinkArtifact, Goto, TypeOK
<1>4. QED
  BY <1>2, <1>3

LEMMA StepLinkedByCaller ==
  ASSUME TypeOK, TempWhole, LinkerKnown, LinkedByCaller, NEW c \in Calls, Step(c)
  PROVE  LinkedByCaller'
<1>1. SUFFICES ASSUME NEW d \in Calls, pc'[d] = "linked"
               PROVE  linker'[Ref(d)] = d /\ entry'[Ref(d)] = job[d].bytes
  BY StepFrame DEF LinkedByCaller, Ref
<1>2. Ref(d) \in Refs /\ job[d].bytes \in Bytes
  BY JobFacts
<1>3. CASE pc[d] = "linked"
  <2>1. linker[Ref(d)] = d /\ entry[Ref(d)] = job[d].bytes
    BY <1>3 DEF LinkedByCaller
  <2>2. entry[Ref(d)] # Absent
    BY <1>2, <2>1, StoreAssumption
  <2>3. QED
    BY <1>2, <2>1, <2>2, StepFrame
<1>4. CASE pc[d] # "linked"
  <2>1. d = c
    BY <1>1, <1>4, StepFrame
  <2>2. LinkArtifact(c)
    BY <1>1, <1>4, <2>1, Step(c) DEF Step, Progress, TypeOK, Goto, BeginWrite,
       InspectArtifact, OpenTemporary, FillTemporary, InspectExisting,
       CompareExisting, FailWrite, ReturnPointer, ThrowRefusal, ReadArtifact, Crash
  <2>3. QED
    BY <1>2, <2>1, <2>2 DEF LinkArtifact, TempWhole, TypeOK
<1>5. QED
  BY <1>3, <1>4

(***************************************************************************)
(* The three facts about readable artifacts, in terms of primed variables. *)
(***************************************************************************)
LEMMA StepInspectedReadable ==
  ASSUME TypeOK, LinkerKnown, LinkerPlace, InspectedReadable, NEW c \in Calls, Step(c)
  PROVE  InspectedReadable'
<1>1. SUFFICES ASSUME NEW d \in Calls, pc'[d] \in {"comparing", "same", "reading"}
               PROVE  /\ entry'[Ref(d)] # Absent
                      /\ Ref(d) \in CampaignRefs => (linker'[Ref(d)] # NoCall
                                           => temp'[linker'[Ref(d)]] = Absent)
  BY StepFrame DEF InspectedReadable, Readable, SingleLink, Ref
<1>2. Ref(d) \in Refs
  BY JobFacts
<1>3. CASE pc[d] \in {"comparing", "same", "reading"}
  BY <1>2, <1>3, StaysReadable DEF InspectedReadable
<1>4. CASE pc[d] \notin {"comparing", "same", "reading"}
  <2>1. d = c
    BY <1>1, <1>4, StepFrame
  <2>2. InspectExisting(c) \/ InspectArtifact(c)
    BY <1>1, <1>4, <2>1, Step(c) DEF Step, Progress, TypeOK, Goto, BeginWrite,
       OpenTemporary, FillTemporary, LinkArtifact, CompareExisting, FailWrite,
       ReturnPointer, ThrowRefusal, ReadArtifact, Crash
  <2>3. Readable(Ref(c))
    BY <1>1, <2>1, <2>2 DEF InspectExisting, InspectArtifact, Goto, TypeOK
  <2>4. QED
    BY <1>2, <2>1, <2>3, StaysReadable
<1>5. QED
  BY <1>3, <1>4

LEMMA StepSameBytes ==
  ASSUME TypeOK, LinkerKnown, LinkerPlace, InspectedReadable, SameBytes,
         NEW c \in Calls, Step(c)
  PROVE  SameBytes'
<1>1. SUFFICES ASSUME NEW d \in Calls, pc'[d] = "same"
               PROVE  entry'[Ref(d)] = job[d].bytes
  BY StepFrame DEF SameBytes, Ref
<1>2. Ref(d) \in Refs
  BY JobFacts
<1>3. pc[d] \in {"comparing", "same"} /\ entry[Ref(d)] = job[d].bytes
  <2>1. CASE d # c
    BY <1>1, <2>1, StepFrame DEF SameBytes
  <2>2. CASE d = c
    BY <1>1, <2>2, Step(c) DEF Step, Progress, TypeOK, Goto, BeginWrite, SameBytes,
       InspectArtifact, OpenTemporary, FillTemporary, LinkArtifact, InspectExisting,
       CompareExisting, FailWrite, ReturnPointer, ThrowRefusal, ReadArtifact, Crash
  <2>3. QED
    BY <2>1, <2>2
<1>4. QED
  BY <1>2, <1>3, StaysReadable DEF InspectedReadable

LEMMA StepPointersReadable ==
  ASSUME TypeOK, LinkerKnown, LinkerPlace, LinkedByCaller, InspectedReadable,
         SameBytes, PointersReadable, NEW c \in Calls, Step(c)
  PROVE  PointersReadable'
<1>1. SUFFICES ASSUME NEW p \in pointers'
               PROVE  /\ entry'[p.ref] = p.bytes
                      /\ entry'[p.ref] # Absent
                      /\ p.ref \in CampaignRefs => (linker'[p.ref] # NoCall
                                           => temp'[linker'[p.ref]] = Absent)
  BY DEF PointersReadable, Readable, SingleLink
<1>2. CASE p \in pointers
  <2>1. p.ref \in Refs /\ entry[p.ref] = p.bytes /\ Readable(p.ref)
    BY <1>2 DEF TypeOK, Pointer, PointersReadable
  <2>2. QED
    BY <2>1, StaysReadable
<1>3. CASE p \notin pointers
  <2>1. ReturnPointer(c) /\ p = job[c]
    BY <1>1, <1>3, Step(c) DEF Step, Progress, BeginWrite, InspectArtifact,
       OpenTemporary, FillTemporary, LinkArtifact, InspectExisting, CompareExisting,
       FailWrite, ReturnPointer, ThrowRefusal, ReadArtifact, Crash
  <2>2. p.ref = Ref(c) /\ Ref(c) \in Refs /\ p.bytes \in Bytes
    BY <2>1, JobFacts
  <2>3. CASE pc[c] = "same"
    BY <2>1, <2>2, <2>3, StaysReadable DEF InspectedReadable, SameBytes
  <2>4. CASE pc[c] = "linked"
    <3>1. linker[Ref(c)] = c /\ entry[Ref(c)] = p.bytes
      BY <2>1, <2>4 DEF LinkedByCaller
    <3>2. entry' = entry /\ linker' = linker /\ temp'[c] = Absent
      BY <2>1 DEF ReturnPointer, TypeOK
    <3>3. QED
      BY <2>2, <3>1, <3>2, StoreAssumption
  <2>5. QED
    BY <2>1, <2>3, <2>4 DEF ReturnPointer
<1>4. QED
  BY <1>2, <1>3

-----------------------------------------------------------------------------
LEMMA InitIInv ==
  ASSUME Init
  PROVE  IInv
<1>1. TypeOK
  BY Init DEF Init, TypeOK, Labels, Ended
<1>2. PublishedWhole
  BY Init, StoreAssumption DEF Init, PublishedWhole
<1>3. TempWhole /\ LinkedByCaller /\ InspectedReadable /\ SameBytes
  BY Init DEF Init, TempWhole, LinkedByCaller, InspectedReadable, SameBytes
<1>4. LinkerKnown /\ LinkerPlace /\ PointersReadable
  BY Init DEF Init, LinkerKnown, LinkerPlace, PointersReadable
<1>5. QED
  BY <1>1, <1>2, <1>3, <1>4 DEF IInv

LEMMA NextIInv ==
  ASSUME IInv, [Next]_vars
  PROVE  IInv'
<1>1. CASE UNCHANGED vars
  BY <1>1, IInv DEF IInv, vars, TypeOK, PublishedWhole, TempWhole, LinkerKnown,
     LinkerPlace, LinkedByCaller, InspectedReadable, SameBytes, PointersReadable,
     Readable, SingleLink, Ref
<1>2. CASE Next
  <2>1. PICK c \in Calls : Step(c)
    BY <1>2 DEF Next
  <2>2. QED
    BY IInv, <2>1, StepTypeOK, StepPublishedWhole, StepTempWhole, StepLinkerKnown,
       StepLinkerPlace, StepLinkedByCaller, StepInspectedReadable, StepSameBytes,
       StepPointersReadable DEF IInv
<1>3. QED
  BY <1>1, <1>2, [Next]_vars

THEOREM Invariance == Spec => []IInv
<1>1. Init => IInv
  BY InitIInv
<1>2. IInv /\ [Next]_vars => IInv'
  BY NextIInv
<1>3. QED
  BY <1>1, <1>2, PTL DEF Spec

(***************************************************************************)
(* Type correctness of the store and its calls.                            *)
(***************************************************************************)
THEOREM TypeCorrect == Spec => []TypeOK
<1>1. IInv => TypeOK
  BY DEF IInv
<1>2. QED
  BY <1>1, Invariance, PTL

(***************************************************************************)
(* No artifact name ever shows an incomplete file (link after writeFile).  *)
(***************************************************************************)
THEOREM OnlyWholeFiles == Spec => []PublishedWhole
<1>1. IInv => PublishedWhole
  BY DEF IInv
<1>2. QED
  BY <1>1, Invariance, PTL

(***************************************************************************)
(* The bytes of an artifact are those of its first write, for any number   *)
(* of concurrent or dead writers.                                          *)
(***************************************************************************)
THEOREM NeverReplaced == Spec => FrozenBytes
<1>1. IInv /\ [Next]_vars => [\A r \in Refs : entry[r] # Absent => entry'[r] = entry[r]]_vars
  <2>1. SUFFICES ASSUME IInv, Next
                 PROVE  \A r \in Refs : entry[r] # Absent => entry'[r] = entry[r]
    OBVIOUS
  <2>2. PICK c \in Calls : Step(c)
    BY <2>1 DEF Next
  <2>3. QED
    BY <2>1, <2>2, StepFrame DEF IInv
<1>2. QED
  BY <1>1, Invariance, PTL DEF Spec, FrozenBytes

(***************************************************************************)
(* A pointer that a write has returned can be read from then on, whatever  *)
(* other writers of the artifact do: a writer of the same bytes returns a  *)
(* pointer only after the linker has removed its temporary file.           *)
(***************************************************************************)
THEOREM PointersServed == Spec => ReadsServed
<1> DEFINE Served ==
      \A c \in Calls :
        job[c] \in pointers =>
          ~(pc[c] \in {"idle", "reading"} /\ pc'[c] \in {"unreadable", "mismatch"})
<1>1. IInv /\ [Next]_vars => [Served]_vars
  <2>1. SUFFICES ASSUME IInv, Next, NEW c \in Calls, job[c] \in pointers,
                        pc[c] \in {"idle", "reading"}
                 PROVE  pc'[c] \notin {"unreadable", "mismatch"}
    OBVIOUS
  <2>2. PICK d \in Calls : Step(d)
    BY <2>1 DEF Next
  <2>3. entry[Ref(c)] = job[c].bytes /\ Readable(Ref(c))
    BY <2>1 DEF IInv, PointersReadable, Ref
  <2>4. CASE d # c
    BY <2>1, <2>2, <2>4, StepFrame DEF IInv
  <2>5. CASE d = c
    BY <2>1, <2>2, <2>3, <2>5 DEF IInv, TypeOK, Step, Progress, Goto, BeginWrite,
       InspectArtifact, OpenTemporary, FillTemporary, LinkArtifact, InspectExisting,
       CompareExisting, FailWrite, ReturnPointer, ThrowRefusal, ReadArtifact, Crash
  <2>6. QED
    BY <2>4, <2>5
<1>2. QED
  BY <1>1, Invariance, PTL DEF Spec, ReadsServed

-----------------------------------------------------------------------------
(***************************************************************************)
(* The stores implement the register of WriteOnce.                         *)
(***************************************************************************)
(* A call that is still at work has not ended, and other calls are where   *)
(* they were.                                                              *)
LEMMA EndingMoves ==
  ASSUME TypeOK, NEW c \in Calls, Step(c)
  PROVE  /\ Endings[c] = "pending"
         /\ Endings' = [Endings EXCEPT ![c] = IF pc'[c] \in Heard THEN pc'[c] ELSE "pending"]
<1>1. pc[c] \notin Heard
  BY DEF Step, Progress, BeginWrite, InspectArtifact, OpenTemporary, FillTemporary,
     LinkArtifact, InspectExisting, CompareExisting, FailWrite, ReturnPointer, ThrowRefusal,
     ReadArtifact, Crash, Heard, Ended
<1>2. \A d \in Calls : d # c => pc'[d] = pc[d]
  BY StepFrame
<1>3. QED
  BY <1>1, <1>2 DEF Endings

(* A step before the caller hears of anything, other than the link, is     *)
(* none of the register's.                                                 *)
LEMMA RegisterStutters ==
  ASSUME TypeOK, NEW c \in Calls, Step(c), pc'[c] \notin Heard, ~LinkArtifact(c)
  PROVE  UNCHANGED <<job, entry, Endings, pointers>>
<1>1. UNCHANGED <<job, entry, pointers>>
  BY DEF Step, Progress, BeginWrite, InspectArtifact, OpenTemporary, FillTemporary,
     InspectExisting, CompareExisting, FailWrite, ReturnPointer, ThrowRefusal,
     ReadArtifact, Crash, Heard, Ended, Goto, TypeOK
<1>2. Endings' = Endings
  BY EndingMoves DEF Endings
<1>3. QED
  BY <1>1, <1>2

(* Every step of a call is a step of the register or none: the link sets   *)
(* it to the whole of the call's bytes, a pointer is returned of what it   *)
(* holds, and a read fails only without a returned pointer.                *)
LEMMA StepOfRegister ==
  ASSUME IInv, NEW c \in Calls, Step(c)
  PROVE  [Register!Next]_<<job, entry, Endings, pointers>>
<1>0. /\ TypeOK /\ job' = job /\ Ref(c) = job[c].ref
      /\ Endings[c] = "pending"
  BY StepFrame, EndingMoves DEF IInv, Ref
<1>1. CASE LinkArtifact(c)
  <2>1. temp[c] = job[c].bytes
    BY <1>1 DEF IInv, TempWhole, LinkArtifact
  <2>2. pc'[c] \notin Heard
    BY <1>0, <1>1 DEF LinkArtifact, Goto, TypeOK, Heard, Ended
  <2>3. Endings' = Endings
    BY <1>0, <2>2, EndingMoves DEF Endings
  <2>4. Register!Set(c)
    BY <1>0, <1>1, <2>1, <2>3 DEF LinkArtifact, Register!Set, Register!Held
  <2>5. QED
    BY <2>4 DEF Register!Next
<1>2. ASSUME NEW how \in Heard, pc'[c] = how, entry' = entry
      PROVE  Register!End(c, how)
  BY <1>0, <1>2, EndingMoves DEF Register!End
<1>3. CASE ReturnPointer(c)
  <2>1. entry[Ref(c)] = job[c].bytes
    BY <1>3 DEF ReturnPointer, IInv, LinkedByCaller, SameBytes
  <2>2. Register!End(c, "written")
    BY <1>0, <1>2, <1>3 DEF ReturnPointer, Goto, TypeOK, Heard, Ended
  <2>3. Register!ReturnPointer(c)
    BY <1>0, <1>3, <2>1, <2>2 DEF ReturnPointer, Register!ReturnPointer, Register!Held
  <2>4. QED
    BY <2>3 DEF Register!Next
<1>4. CASE ThrowRefusal(c)
  <2>1. Register!End(c, "refused")
    BY <1>0, <1>2, <1>4 DEF ThrowRefusal, Goto, TypeOK, Heard, Ended
  <2>2. QED
    BY <1>4, <2>1 DEF ThrowRefusal, Register!Refuse, Register!Next
<1>5. job[c] \in pointers => entry[Ref(c)] = job[c].bytes /\ Readable(Ref(c))
  BY <1>0 DEF IInv, PointersReadable
<1>6. CASE ReadArtifact(c)
  <2>1. entry[Ref(c)] # Absent
    BY <1>6 DEF ReadArtifact, IInv, InspectedReadable, Readable
  <2>2. CASE entry[Ref(c)] = job[c].bytes
    <3>1. Register!End(c, "read")
      BY <1>0, <1>2, <1>6, <2>2 DEF ReadArtifact, Goto, TypeOK, Heard, Ended
    <3>2. QED
      BY <1>0, <1>6, <2>2, <3>1 DEF ReadArtifact, Register!Read, Register!Held, Register!Next
  <2>3. CASE entry[Ref(c)] # job[c].bytes
    <3>1. Register!End(c, "mismatch")
      BY <1>0, <1>2, <1>6, <2>3 DEF ReadArtifact, Goto, TypeOK, Heard, Ended
    <3>2. QED
      BY <1>0, <1>6, <2>1, <2>3, <3>1
      DEF ReadArtifact, Register!FindOthers, Register!Held, Register!Next
  <2>4. QED
    BY <2>2, <2>3
<1>7. CASE InspectArtifact(c) /\ ~Readable(Ref(c))
  <2>1. job[c] \notin pointers
    BY <1>5, <1>7
  <2>2. Register!End(c, "unreadable")
    BY <1>0, <1>2, <1>7 DEF InspectArtifact, Goto, TypeOK, Heard, Ended
  <2>3. QED
    BY <1>7, <2>1, <2>2 DEF InspectArtifact, Register!FindNothing, Register!Next
<1>8. CASE /\ ~LinkArtifact(c) /\ ~ReturnPointer(c) /\ ~ThrowRefusal(c) /\ ~ReadArtifact(c)
           /\ ~(InspectArtifact(c) /\ ~Readable(Ref(c)))
  <2>1. pc'[c] \notin Heard
    BY <1>0, <1>8 DEF Step, Progress, BeginWrite, InspectArtifact, OpenTemporary, FillTemporary,
       InspectExisting, CompareExisting, FailWrite, Crash, Goto, TypeOK, Heard, Ended
  <2>2. QED
    BY <1>0, <1>8, <2>1, RegisterStutters
<1>9. QED
  BY <1>1, <1>3, <1>4, <1>6, <1>7, <1>8

(***************************************************************************)
(* Whatever calls interleave, fail and die, their callers see a register   *)
(* for each artifact that is set once, at one moment and to whole bytes,   *)
(* and that a returned pointer always reads (writeArtifactBytes,           *)
(* readArtifactBytes and those of the Suite store).                        *)
(***************************************************************************)
THEOREM StoreIsRegister == Spec => RegisterSpec
<1>1. Init => Register!Init
  BY DEF Init, Register!Init, Endings, Heard, Ended, Pointer
<1>2. IInv /\ [Next]_vars => [Register!Next]_<<job, entry, Endings, pointers>>
  <2>1. SUFFICES ASSUME IInv, [Next]_vars
                 PROVE  [Register!Next]_<<job, entry, Endings, pointers>>
    OBVIOUS
  <2>2. CASE UNCHANGED vars
    BY <2>2 DEF vars, Endings
  <2>3. CASE Next
    BY <2>1, <2>3, StepOfRegister DEF Next
  <2>4. QED
    BY <2>1, <2>2, <2>3
<1>3. QED
  BY <1>1, <1>2, Invariance, PTL DEF Spec, RegisterSpec, Register!Spec, Register!registerVars

-----------------------------------------------------------------------------
(***************************************************************************)
(* Child processes.  The invariant: what a runner has captured and what is *)
(* still in the pipe add up to what the child wrote, unless the limit was  *)
(* passed; a child is told to stop for the limit, the deadline or, when    *)
(* its Session is flushed, because a DSH is done; and nothing comes after  *)
(* the close.                                                              *)
(***************************************************************************)
Codes == {"none", "zero", "nonzero", "signal", "unborn"}

Children ==
  [exit : Codes, term : BOOLEAN, kill : BOOLEAN, flushed : BOOLEAN, helper : BOOLEAN]

Runners ==
  [phase : {"running", "settled", "failed"}, got : [Streams -> Nat], bytes : Nat,
   limit : BOOLEAN, timedOut : BOOLEAN, deadline : {"armed", "fired"},
   kill : {"off", "armed", "fired"}, grace : {"off", "armed"}, scratch : BOOLEAN]

CarrierTypeOK ==
  /\ kind \in Kinds /\ manner \in {"dies", "shuts", "ignores"}
  /\ child \in Children
  /\ sent \in [Streams -> [units : Nat, chunks : Nat]]
  /\ pipe \in [Streams -> Seq(ChunkSizes)]
  /\ runner \in Runners
  /\ kind = "dsh" => runner.bytes <= MaxOutput

(* What the runner has and what is still in the pipe add up to what the    *)
(* child wrote: sum has the captured units with each chunk of the pipe     *)
(* added in turn.                                                          *)
Adds(sum, got, chunks, units) ==
  /\ sum \in [0..Len(chunks) -> Nat]
  /\ sum[0] = got /\ sum[Len(chunks)] = units
  /\ \A i \in 1..Len(chunks) : sum[i] = sum[i - 1] + chunks[i]

Accounted ==
  ~runner.limit => \A s \in Streams : \E sum : Adds(sum, runner.got[s], pipe[s], sent[s].units)

(* Only a DSH child that has flushed its Session is told to stop for       *)
(* another reason than the limit or the deadline.                          *)
StoppedForReason ==
  /\ kind = "dsh" /\ pipe["out"] # <<>> => child.flushed
  /\ runner.grace = "armed" => kind = "dsh" /\ child.flushed
  /\ child.term => runner.limit \/ runner.timedOut \/ (kind = "dsh" /\ child.flushed)
  /\ child.exit = "zero" /\ kind = "dsh" =>
       runner.limit \/ runner.timedOut \/ child.flushed

ClosedAfterAll ==
  runner.phase = "settled" => ~Alive /\ \A s \in Streams : pipe[s] = <<>>

CarrierInv == CarrierTypeOK /\ Accounted /\ StoppedForReason /\ ClosedAfterAll

-----------------------------------------------------------------------------
(* An empty pipe adds nothing.                                             *)
LEMMA AddsNothing ==
  ASSUME NEW units \in Nat
  PROVE  \E sum : Adds(sum, units, <<>>, units)
<1> DEFINE f == [i \in 0..0 |-> units]
<1>1. Adds(f, units, <<>>, units)
  BY DEF Adds
<1> QED BY <1>1

(* A chunk that is written adds to both sides.                             *)
LEMMA AddsChunk ==
  ASSUME NEW got \in Nat, NEW units \in Nat, NEW chunks \in Seq(ChunkSizes), NEW n \in ChunkSizes,
         NEW sum, Adds(sum, got, chunks, units)
  PROVE  \E more : Adds(more, got, Append(chunks, n), units + n)
<1> DEFINE L == Len(chunks)
           more == [i \in 0..(L + 1) |-> IF i = L + 1 THEN units + n ELSE sum[i]]
<1>1. /\ L \in Nat /\ n \in Nat /\ Len(Append(chunks, n)) = L + 1
      /\ Append(chunks, n)[L + 1] = n
      /\ \A i \in 1..L : Append(chunks, n)[i] = chunks[i]
  BY DEF ChunkSizes
<1>2. more \in [0..(L + 1) -> Nat] /\ more[0] = got /\ more[L + 1] = units + n
  BY <1>1 DEF Adds
<1>3. ASSUME NEW i \in 1..(L + 1) PROVE more[i] = more[i - 1] + Append(chunks, n)[i]
  <2>1. CASE i = L + 1
    <3>1. i - 1 = L /\ L \in 0..(L + 1) /\ L # L + 1
      BY <2>1, <1>1
    <3>2. more[i - 1] = units
      BY <3>1 DEF Adds
    <3> QED BY <2>1, <1>1, <1>2, <3>2
  <2>2. CASE i # L + 1
    <3>1. i \in 1..L /\ i - 1 \in 0..(L + 1) /\ i \in 0..(L + 1) /\ i - 1 # L + 1
      BY <2>2, <1>1
    <3>2. more[i] = sum[i] /\ more[i - 1] = sum[i - 1]
      BY <3>1, <2>2
    <3> QED BY <3>1, <3>2, <1>1 DEF Adds
  <2> QED BY <2>1, <2>2
<1>4. Adds(more, got, Append(chunks, n), units + n)
  BY <1>1, <1>2, <1>3 DEF Adds
<1> QED BY <1>4

(* A chunk that is captured moves from the pipe.                           *)
LEMMA AddsReceived ==
  ASSUME NEW got \in Nat, NEW units \in Nat, NEW chunks \in Seq(ChunkSizes), chunks # <<>>,
         NEW sum, Adds(sum, got, chunks, units)
  PROVE  \E less : Adds(less, got + Head(chunks), Tail(chunks), units)
<1> DEFINE L == Len(Tail(chunks))
           less == [i \in 0..L |-> sum[i + 1]]
<1>1. /\ L \in Nat /\ Len(chunks) = L + 1 /\ Head(chunks) = chunks[1]
      /\ \A i \in 1..L : Tail(chunks)[i] = chunks[i + 1]
  OBVIOUS
<1>2. \A i \in 0..L : i + 1 \in 0..(L + 1) /\ i + 1 \in 1..(L + 1) /\ (i + 1) - 1 = i
  BY <1>1
<1>3. less \in [0..L -> Nat] /\ less[L] = units
  BY <1>1, <1>2 DEF Adds
<1>4. less[0] = got + Head(chunks)
  BY <1>1, <1>2 DEF Adds
<1>5. ASSUME NEW i \in 1..L PROVE less[i] = less[i - 1] + Tail(chunks)[i]
  <2>1. i \in 0..L /\ i - 1 \in 0..L /\ i + 1 \in 1..(L + 1) /\ (i - 1) + 1 = i
    BY <1>1
  <2>2. less[i] = sum[i + 1] /\ less[i - 1] = sum[i]
    BY <2>1
  <2>3. sum[i + 1] = sum[i] + chunks[i + 1]
    BY <2>1, <1>1, <1>2 DEF Adds
  <2> QED BY <2>2, <2>3, <1>1
<1>6. Adds(less, got + Head(chunks), Tail(chunks), units)
  BY <1>1, <1>3, <1>4, <1>5 DEF Adds
<1> QED BY <1>6

-----------------------------------------------------------------------------
(* A runner starts with an empty account.                                  *)
LEMMA CarrierInvInit == CarrierInit => CarrierInv
<1> SUFFICES ASSUME CarrierInit PROVE CarrierInv
  OBVIOUS
<1>1. CarrierTypeOK
  <2>1. child \in Children
    BY DEF CarrierInit, Children, Codes
  <2>2. runner \in Runners
    BY DEF CarrierInit, Runners
  <2>3. pipe \in [Streams -> Seq(ChunkSizes)] /\ sent \in [Streams -> [units : Nat, chunks : Nat]]
    BY DEF CarrierInit
  <2> QED
    BY <2>1, <2>2, <2>3, CarrierAssumption DEF CarrierInit, CarrierTypeOK, Runners
<1>2. Accounted
  BY AddsNothing DEF CarrierInit, Accounted
<1>3. StoppedForReason /\ ClosedAfterAll
  BY DEF CarrierInit, StoppedForReason, ClosedAfterAll, Streams
<1> QED BY <1>1, <1>2, <1>3 DEF CarrierInv

(* A chunk that is read is captured whole, or it passes the limit.         *)
LEMMA ChunkRead ==
  ASSUME CarrierInv, NEW s \in Streams, Receive(s)
  PROVE  CarrierInv'
<1> DEFINE n == Head(pipe[s])
<1>1. /\ Running /\ pipe[s] # <<>> /\ pipe' = [pipe EXCEPT ![s] = Tail(@)]
      /\ UNCHANGED <<kind, manner, sent>>
      /\ IF kind = "dsh" THEN RetainChunk(s, n) ELSE CountChunk(s, n)
  BY DEF Receive
<1>2. pipe[s] \in Seq(ChunkSizes) /\ n \in ChunkSizes /\ n \in Nat /\ MaxOutput \in Nat
  BY <1>1, CarrierAssumption DEF CarrierInv, CarrierTypeOK, Children, Runners, ChunkSizes
<1> DEFINE room == MaxOutput - runner.bytes
           kept == IF n < room THEN n ELSE room
           over == runner.limit \/ n > room
<1>4. CASE kind = "dsh"
  <2>1. RetainChunk(s, n)
    BY <1>1, <1>4
  <2>2. kept \in Nat /\ runner.bytes + kept <= MaxOutput /\ over \in BOOLEAN
    BY <1>2, <1>4 DEF CarrierInv, CarrierTypeOK, Children, Runners
  <2>3. /\ runner' = [runner EXCEPT
             !.got[s] = @ + kept, !.bytes = @ + kept, !.limit = over,
             !.kill = IF over /\ ~runner.limit THEN Arm(@) ELSE @,
             !.grace = IF s = "out" /\ ~over THEN "armed" ELSE @]
        /\ IF over /\ ~runner.limit THEN Term ELSE UNCHANGED child
    BY <2>1 DEF RetainChunk
  <2>4. Arm(runner.kill) \in {"off", "armed", "fired"}
    BY DEF Arm, CarrierInv, CarrierTypeOK, Children, Runners
  <2>5. CarrierTypeOK'
    <3>1. runner' \in Runners
      <4>1. [runner.got EXCEPT ![s] = @ + kept] \in [Streams -> Nat]
        BY <2>2 DEF CarrierInv, CarrierTypeOK, Runners
      <4>2. runner.bytes + kept \in Nat
        BY <2>2 DEF CarrierInv, CarrierTypeOK, Runners
      <4> HIDE DEF kept, over
      <4> QED
        BY <2>2, <2>3, <2>4, <4>1, <4>2 DEF CarrierInv, CarrierTypeOK, Runners
    <3>2. runner'.bytes <= MaxOutput
      BY <2>2, <2>3 DEF CarrierInv, CarrierTypeOK, Children, Runners
    <3>3. child' \in Children
      BY <2>3 DEF Term, Alive, CarrierInv, CarrierTypeOK, Children, Runners
    <3>4. pipe' \in [Streams -> Seq(ChunkSizes)]
      BY <1>1, <1>2 DEF CarrierInv, CarrierTypeOK, Children, Runners
    <3> QED BY <1>1, <3>1, <3>2, <3>3, <3>4 DEF CarrierInv, CarrierTypeOK, Children, Runners
  <2>6. ASSUME ~runner'.limit, NEW t \in Streams
        PROVE  \E sum : Adds(sum, runner'.got[t], pipe'[t], sent'[t].units)
    <3>1. ~runner.limit /\ n <= room /\ kept = n
      <4>1. runner'.limit = over
        BY <2>3 DEF CarrierInv, CarrierTypeOK, Runners
      <4>2. ~runner.limit /\ ~(n > room)
        BY <4>1, <2>6
      <4>3. room \in Int /\ n \in Int
        BY <1>2 DEF CarrierInv, CarrierTypeOK, Runners
      <4> HIDE DEF n, room
      <4> QED
        BY <4>2, <4>3
    <3>2. PICK sum : Adds(sum, runner.got[t], pipe[t], sent[t].units)
      BY <3>1 DEF CarrierInv, Accounted
    <3>3. runner.got[t] \in Nat /\ sent[t].units \in Nat /\ pipe[t] \in Seq(ChunkSizes)
      BY DEF CarrierInv, CarrierTypeOK, Children, Runners
    <3>4. CASE t = s
      <4>1. runner'.got[t] = runner.got[t] + Head(pipe[t]) /\ pipe'[t] = Tail(pipe[t])
        BY <3>4, <2>3, <3>1, <1>1 DEF CarrierInv, CarrierTypeOK, Children, Runners
      <4> QED BY <4>1, <3>2, <3>3, <3>4, <1>1, AddsReceived
    <3>5. CASE t # s
      <4>1. runner'.got[t] = runner.got[t] /\ pipe'[t] = pipe[t]
        BY <3>5, <2>3, <1>1 DEF CarrierInv, CarrierTypeOK, Children, Runners
      <4> QED BY <4>1, <3>2, <1>1
    <3> QED BY <3>4, <3>5
  <2>7. /\ runner'.phase = runner.phase /\ runner'.timedOut = runner.timedOut
        /\ runner.limit => runner'.limit
        /\ runner'.grace = "armed" => runner.grace = "armed" \/ s = "out"
        /\ pipe'["out"] # <<>> => pipe["out"] # <<>>
        /\ child'.exit = child.exit /\ child'.flushed = child.flushed
        /\ child'.term => child.term \/ runner'.limit
    BY <2>3, <1>1 DEF CarrierInv, CarrierTypeOK, Children, Runners, Term, Streams
  <2>8. StoppedForReason'
    BY <2>7, <1>1, <1>4 DEF CarrierInv, StoppedForReason
  <2> QED BY <2>5, <2>6, <2>7, <2>8, <1>1 DEF CarrierInv, Accounted, ClosedAfterAll, Running
<1>5. CASE kind # "dsh"
  <2>1. CountChunk(s, n)
    BY <1>1, <1>5
  <2>2. CASE runner.limit
    <3>1. UNCHANGED <<runner, child>>
      BY <2>1, <2>2 DEF CountChunk
    <3>2. pipe' \in [Streams -> Seq(ChunkSizes)]
      BY <1>1, <1>2 DEF CarrierInv, CarrierTypeOK, Children, Runners
    <3> QED BY <3>1, <3>2, <2>2, <1>1, <1>5
          DEF CarrierInv, CarrierTypeOK, Children, Runners, Accounted, StoppedForReason, ClosedAfterAll, Running
  <2>3. CASE ~runner.limit
    <3> DEFINE past == runner.bytes + n > MaxOutput
    <3>1. /\ runner' = [runner EXCEPT !.bytes = @ + n, !.limit = past,
                                      !.got[s] = IF past THEN @ ELSE @ + n]
          /\ IF past THEN Term ELSE UNCHANGED child
      BY <2>1, <2>3 DEF CountChunk
    <3>2. CarrierTypeOK'
      <4>1. runner' \in Runners
        <5>1. runner.bytes + n \in Nat /\ past \in BOOLEAN
          BY <1>2 DEF CarrierInv, CarrierTypeOK, Runners
        <5>2. [runner.got EXCEPT ![s] = IF past THEN @ ELSE @ + n] \in [Streams -> Nat]
          BY <1>2 DEF CarrierInv, CarrierTypeOK, Runners
        <5> HIDE DEF past, n
        <5> QED
          BY <3>1, <5>1, <5>2 DEF CarrierInv, CarrierTypeOK, Runners
      <4>2. child' \in Children
        BY <3>1 DEF Term, Alive, CarrierInv, CarrierTypeOK, Children, Runners
      <4>3. pipe' \in [Streams -> Seq(ChunkSizes)]
        BY <1>1, <1>2 DEF CarrierInv, CarrierTypeOK, Children, Runners
      <4> QED BY <1>1, <1>5, <4>1, <4>2, <4>3 DEF CarrierInv, CarrierTypeOK, Children, Runners
    <3>3. ASSUME ~runner'.limit, NEW t \in Streams
          PROVE  \E sum : Adds(sum, runner'.got[t], pipe'[t], sent'[t].units)
      <4>1. ~past
        BY <3>3, <3>1 DEF CarrierInv, CarrierTypeOK, Children, Runners
      <4>2. PICK sum : Adds(sum, runner.got[t], pipe[t], sent[t].units)
        BY <2>3 DEF CarrierInv, Accounted
      <4>3. runner.got[t] \in Nat /\ sent[t].units \in Nat /\ pipe[t] \in Seq(ChunkSizes)
        BY DEF CarrierInv, CarrierTypeOK, Children, Runners
      <4>4. CASE t = s
        <5>1. runner'.got[t] = runner.got[t] + Head(pipe[t]) /\ pipe'[t] = Tail(pipe[t])
          BY <4>4, <3>1, <4>1, <1>1 DEF CarrierInv, CarrierTypeOK, Children, Runners
        <5> QED BY <5>1, <4>2, <4>3, <4>4, <1>1, AddsReceived
      <4>5. CASE t # s
        <5>1. runner'.got[t] = runner.got[t] /\ pipe'[t] = pipe[t]
          BY <4>5, <3>1, <1>1 DEF CarrierInv, CarrierTypeOK, Children, Runners
        <5> QED BY <5>1, <4>2, <1>1
      <4> QED BY <4>4, <4>5
    <3>4. /\ runner'.phase = runner.phase /\ runner'.timedOut = runner.timedOut
          /\ runner'.grace = runner.grace
          /\ child'.exit = child.exit /\ child'.flushed = child.flushed
          /\ child'.term => child.term \/ runner'.limit
      BY <3>1 DEF CarrierInv, CarrierTypeOK, Children, Runners, Term
    <3>5. StoppedForReason'
      BY <3>4, <2>3, <1>1, <1>5 DEF CarrierInv, StoppedForReason
    <3> QED BY <3>2, <3>3, <3>4, <3>5, <1>1 DEF CarrierInv, Accounted, ClosedAfterAll, Running
  <2> QED BY <2>2, <2>3
<1> QED BY <1>4, <1>5

(* The child writes as long as it lives; a DSH child nothing on stdout     *)
(* before it has flushed.                                                  *)
LEMMA ChunkWritten ==
  ASSUME CarrierInv, NEW s \in Streams, NEW n \in ChunkSizes, ChildWrites(s, n)
  PROVE  CarrierInv'
<1>1. /\ Alive /\ (kind = "dsh" /\ s = "out" => child.flushed)
      /\ sent' = [sent EXCEPT ![s] = [units |-> @.units + n, chunks |-> @.chunks + 1]]
      /\ pipe' = [pipe EXCEPT ![s] = Append(@, n)]
      /\ UNCHANGED <<kind, manner, child, runner>>
  BY DEF ChildWrites
<1>2. n \in Nat /\ pipe[s] \in Seq(ChunkSizes) /\ sent[s] \in [units : Nat, chunks : Nat]
  BY DEF ChunkSizes, CarrierInv, CarrierTypeOK, Children, Runners
<1>3. CarrierTypeOK'
  <2>1. pipe' \in [Streams -> Seq(ChunkSizes)] /\ sent' \in [Streams -> [units : Nat, chunks : Nat]]
    BY <1>1, <1>2 DEF CarrierInv, CarrierTypeOK, Children, Runners
  <2> QED BY <2>1, <1>1 DEF CarrierInv, CarrierTypeOK, Children, Runners
<1>4. ASSUME ~runner'.limit, NEW t \in Streams
      PROVE  \E sum : Adds(sum, runner'.got[t], pipe'[t], sent'[t].units)
  <2>1. PICK sum : Adds(sum, runner.got[t], pipe[t], sent[t].units)
    BY <1>4, <1>1 DEF CarrierInv, Accounted
  <2>2. runner.got[t] \in Nat /\ sent[t].units \in Nat /\ pipe[t] \in Seq(ChunkSizes)
    BY DEF CarrierInv, CarrierTypeOK, Children, Runners
  <2>3. CASE t = s
    <3>1. pipe'[t] = Append(pipe[t], n) /\ sent'[t].units = sent[t].units + n
      BY <2>3, <1>1 DEF CarrierInv, CarrierTypeOK, Children, Runners
    <3> QED BY <3>1, <2>1, <2>2, <1>1, AddsChunk
  <2>4. CASE t # s
    <3>1. pipe'[t] = pipe[t] /\ sent'[t] = sent[t]
      BY <2>4, <1>1 DEF CarrierInv, CarrierTypeOK, Children, Runners
    <3> QED BY <3>1, <2>1, <1>1
  <2> QED BY <2>3, <2>4
<1>5. pipe'["out"] # <<>> => pipe["out"] # <<>> \/ s = "out"
  BY <1>1 DEF CarrierInv, CarrierTypeOK, Children, Runners, Streams
<1>6. StoppedForReason' /\ ClosedAfterAll'
  BY <1>1, <1>5 DEF CarrierInv, StoppedForReason, ClosedAfterAll, Alive
<1> QED BY <1>3, <1>4, <1>6 DEF CarrierInv, Accounted

(* A step that moves no data keeps the account; its type, its reasons and  *)
(* the closing remain.                                                     *)
LEMMA DataStays ==
  ASSUME CarrierInv, child' \in Children, runner' \in Runners,
         UNCHANGED <<kind, manner, sent, pipe>>, runner'.got = runner.got,
         runner'.bytes = runner.bytes, runner'.limit = runner.limit,
         StoppedForReason', ClosedAfterAll'
  PROVE  CarrierInv'
<1>1. CarrierTypeOK'
  BY DEF CarrierInv, CarrierTypeOK
<1>2. Accounted'
  BY DEF CarrierInv, Accounted
<1> QED BY <1>1, <1>2 DEF CarrierInv

(* The child ends: nothing that it was told is taken back, and it exits    *)
(* with 0 only for a reason.                                               *)
LEMMA ChildEnds ==
  ASSUME CarrierInv, Alive, NEW code \in Codes \ {"none"}, ExitsAs(code),
         UNCHANGED <<kind, manner, sent, pipe, runner>>,
         code = "zero" /\ kind = "dsh" =>
           runner.limit \/ runner.timedOut \/ child.flushed
  PROVE  CarrierInv'
<1>1. /\ child' \in Children /\ child'.exit = code
      /\ child'.term = child.term /\ child'.flushed = child.flushed
  BY DEF ExitsAs, CarrierInv, CarrierTypeOK, Children, Codes
<1>2. StoppedForReason'
  BY <1>1 DEF CarrierInv, StoppedForReason
<1>3. ClosedAfterAll'
  BY <1>1 DEF CarrierInv, ClosedAfterAll, Alive
<1> QED BY <1>1, <1>2, <1>3, DataStays DEF CarrierInv, CarrierTypeOK

(* A timer of the runner fires and sends SIGTERM for its reason.           *)
LEMMA TimerTerms ==
  ASSUME CarrierInv, Running, NEW timedOut \in BOOLEAN, NEW grace \in {"off", "armed"},
         NEW deadline \in {"armed", "fired"}, runner.timedOut => timedOut,
         grace = "armed" => runner.grace = "armed",
         timedOut \/ (kind = "dsh" /\ child.flushed),
         runner' = [runner EXCEPT !.deadline = deadline, !.timedOut = timedOut,
                                  !.grace = grace, !.kill = Arm(@)],
         Term, UNCHANGED <<kind, manner, sent, pipe>>
  PROVE  CarrierInv'
<1>1. Arm(runner.kill) \in {"off", "armed", "fired"}
  BY DEF Arm, CarrierInv, CarrierTypeOK, Runners
<1>2. /\ runner' \in Runners /\ runner'.got = runner.got /\ runner'.bytes = runner.bytes
      /\ runner'.limit = runner.limit /\ runner'.timedOut = timedOut
      /\ runner'.grace = grace /\ runner'.phase = runner.phase
  BY <1>1 DEF CarrierInv, CarrierTypeOK, Runners
<1>3. /\ child' \in Children /\ child'.exit = child.exit /\ child'.flushed = child.flushed
  BY DEF Term, Alive, CarrierInv, CarrierTypeOK, Children
<1>4. StoppedForReason'
  BY <1>2, <1>3 DEF CarrierInv, StoppedForReason
<1>5. ClosedAfterAll'
  BY <1>2 DEF ClosedAfterAll, Running
<1> QED BY <1>2, <1>3, <1>4, <1>5, DataStays

(* Every step keeps the invariant.                                         *)
LEMMA CarrierInvNext == CarrierInv /\ [CarrierNext]_cvars => CarrierInv'
<1> SUFFICES ASSUME CarrierInv, [CarrierNext]_cvars PROVE CarrierInv'
  OBVIOUS
<1>0. CarrierTypeOK /\ StoppedForReason /\ ClosedAfterAll
  BY DEF CarrierInv
<1>1. CASE ChildTakesTerm
  <2>1. runner.limit \/ runner.timedOut \/ (kind = "dsh" /\ child.flushed)
    BY <1>0, <1>1 DEF ChildTakesTerm, StoppedForReason
  <2> QED BY <1>1, <2>1, ChildEnds DEF ChildTakesTerm, Codes
<1>2. CASE ChildTakesKill
  BY <1>2, ChildEnds DEF ChildTakesKill, Codes
<1>3. CASE \E s \in Streams : Receive(s)
  BY <1>3, ChunkRead
<1>4. CASE DeadlineFires
  <2>1. runner' = [runner EXCEPT !.deadline = "fired", !.timedOut = TRUE,
                                 !.grace = runner.grace, !.kill = Arm(@)]
    BY <1>0, <1>4 DEF DeadlineFires, CarrierTypeOK, Runners
  <2>2. runner.grace \in {"off", "armed"}
    BY <1>0 DEF CarrierTypeOK, Runners
  <2> QED BY <1>4, <2>1, <2>2, TimerTerms DEF DeadlineFires
<1>5. CASE KillFires
  <2>1. /\ runner' \in Runners /\ runner'.got = runner.got /\ runner'.bytes = runner.bytes
        /\ runner'.limit = runner.limit /\ runner'.timedOut = runner.timedOut
        /\ runner'.grace = runner.grace /\ runner'.phase = "running"
    BY <1>0, <1>5 DEF KillFires, Running, CarrierTypeOK, Runners
  <2>2. /\ child' \in Children /\ child'.exit = child.exit /\ child'.term = child.term
        /\ child'.flushed = child.flushed
    BY <1>0, <1>5 DEF KillFires, Alive, CarrierTypeOK, Children
  <2>3. StoppedForReason' /\ ClosedAfterAll'
    BY <1>0, <1>5, <2>1, <2>2 DEF KillFires, StoppedForReason, ClosedAfterAll
  <2> QED BY <1>5, <2>1, <2>2, <2>3, DataStays DEF KillFires
<1>6. CASE Close
  <2>1. /\ runner' \in Runners /\ runner'.got = runner.got /\ runner'.bytes = runner.bytes
        /\ runner'.limit = runner.limit /\ runner'.timedOut = runner.timedOut
        /\ runner'.grace = runner.grace
    BY <1>0, <1>6 DEF Close, CarrierTypeOK, Runners
  <2>2. StoppedForReason' /\ ClosedAfterAll'
    BY <1>0, <1>6, <2>1 DEF Close, Alive, StoppedForReason, ClosedAfterAll
  <2> QED BY <1>0, <1>6, <2>1, <2>2, DataStays DEF Close, CarrierTypeOK
<1>7. CASE GraceFires
  <2>1. runner' = [runner EXCEPT !.deadline = runner.deadline, !.timedOut = runner.timedOut,
                                 !.grace = "off", !.kill = Arm(@)]
    BY <1>0, <1>7 DEF GraceFires, CarrierTypeOK, Runners
  <2>2. kind = "dsh" /\ child.flushed
    BY <1>0, <1>7 DEF GraceFires, StoppedForReason
  <2>3. runner.deadline \in {"armed", "fired"} /\ runner.timedOut \in BOOLEAN
    BY <1>0 DEF CarrierTypeOK, Runners
  <2> QED BY <1>7, <2>1, <2>2, <2>3, TimerTerms DEF GraceFires
<1>8. CASE SpawnFails
  <2>1. /\ runner' \in Runners /\ runner'.got = runner.got /\ runner'.bytes = runner.bytes
        /\ runner'.limit = runner.limit /\ runner'.timedOut = runner.timedOut
        /\ runner'.grace = runner.grace /\ runner'.phase = "failed"
    BY <1>0, <1>8 DEF SpawnFails, CarrierTypeOK, Runners
  <2>2. /\ child' \in Children /\ child'.exit = "unborn" /\ child'.term = child.term
        /\ child'.flushed = child.flushed
    BY <1>0, <1>8 DEF SpawnFails, ExitsAs, CarrierTypeOK, Children, Codes
  <2>3. StoppedForReason' /\ ClosedAfterAll'
    BY <1>0, <1>8, <2>1, <2>2 DEF SpawnFails, StoppedForReason, ClosedAfterAll
  <2> QED BY <1>8, <2>1, <2>2, <2>3, DataStays DEF SpawnFails
<1>9. ASSUME NEW flushed \in BOOLEAN, NEW helper \in BOOLEAN, child.flushed => flushed,
             child' = [child EXCEPT !.flushed = flushed, !.helper = helper],
             UNCHANGED <<kind, manner, sent, pipe, runner>>
      PROVE  CarrierInv'
  <2>1. /\ child' \in Children /\ child'.exit = child.exit /\ child'.term = child.term
        /\ child'.flushed = flushed
    BY <1>0, <1>9 DEF CarrierTypeOK, Children
  <2>2. StoppedForReason' /\ ClosedAfterAll'
    BY <1>0, <1>9, <2>1 DEF Alive, StoppedForReason, ClosedAfterAll
  <2> QED BY <1>0, <1>9, <2>1, <2>2, DataStays DEF CarrierTypeOK
<1>10. CASE ChildFlushes
  <2>1. child' = [child EXCEPT !.flushed = TRUE, !.helper = child.helper]
    BY <1>0, <1>10 DEF ChildFlushes, CarrierTypeOK, Children
  <2>2. child.helper \in BOOLEAN
    BY <1>0 DEF CarrierTypeOK, Children
  <2> QED BY <1>9, <1>10, <2>1, <2>2 DEF ChildFlushes
<1>11. CASE ChildStartsHelper \/ HelperLeaves
  <2>1. PICK helper \in BOOLEAN : child' = [child EXCEPT !.helper = helper]
    BY <1>11 DEF ChildStartsHelper, HelperLeaves
  <2>2. child' = [child EXCEPT !.flushed = child.flushed, !.helper = helper]
    BY <1>0, <2>1 DEF CarrierTypeOK, Children
  <2>3. child.flushed \in BOOLEAN
    BY <1>0 DEF CarrierTypeOK, Children
  <2> QED BY <1>9, <1>11, <2>2, <2>3 DEF ChildStartsHelper, HelperLeaves
<1>12. CASE \E s \in Streams, n \in ChunkSizes : ChildWrites(s, n)
  BY <1>12, ChunkWritten
<1>13. CASE \E code \in {"zero", "nonzero"} : ChildExits(code)
  BY <1>13, ChildEnds DEF ChildExits, Codes
<1>14. CASE UNCHANGED cvars
  BY <1>0, <1>14, DataStays DEF cvars, Alive, CarrierTypeOK, StoppedForReason, ClosedAfterAll
<1> QED
  BY <1>1, <1>2, <1>3, <1>4, <1>5, <1>6, <1>7, <1>8, <1>10, <1>11, <1>12, <1>13, <1>14
  DEF CarrierNext, Owed

(* With nothing left in the pipe, what was captured is what was written.   *)
LEMMA CarrierInvWhole == CarrierInv => HealthyIsWhole
<1> SUFFICES ASSUME CarrierInv, Healthy
             PROVE  /\ \A s \in Streams : runner.got[s] = sent[s].units
                    /\ IF kind = "dsh" THEN child.flushed ELSE ~child.term
  BY DEF HealthyIsWhole
<1>1. /\ ~runner.limit /\ ~runner.timedOut /\ child.exit = "zero"
      /\ \A s \in Streams : pipe[s] = <<>>
  BY DEF Healthy, CarrierInv, ClosedAfterAll
<1>2. ASSUME NEW s \in Streams PROVE runner.got[s] = sent[s].units
  BY <1>1 DEF CarrierInv, Accounted, Adds
<1>3. IF kind = "dsh" THEN child.flushed ELSE ~child.term
  BY <1>1 DEF CarrierInv, StoppedForReason
<1> QED BY <1>2, <1>3

(***************************************************************************)
(* Child, pipes and runner keep their types, and a DSH run never retains   *)
(* more than the output limit.                                             *)
(***************************************************************************)
THEOREM CarrierTyped == CarrierSpec => []CarrierTypeOK
BY CarrierInvInit, CarrierInvNext, PTL DEF CarrierSpec, CarrierInv

(***************************************************************************)
(* A run that an evaluation may call healthy was not cut short: all that   *)
(* the child wrote on either stream was captured, the Session of a DSH     *)
(* child is flushed, and no other child was told to stop.                  *)
(***************************************************************************)
THEOREM HealthyRunsAreWhole == CarrierSpec => []HealthyIsWhole
BY CarrierInvInit, CarrierInvNext, CarrierInvWhole, PTL DEF CarrierSpec
-----------------------------------------------------------------------------
(***************************************************************************)
(* The Episode.  What projectSessionEvidence reads from a log, event by    *)
(* event, and that it is the engine's account as long as the process has   *)
(* not been cut.                                                           *)
(***************************************************************************)
IsLog(q) == \E S : q \in Seq(S)

LEMMA LogShape ==
  ASSUME NEW q, IsLog(q)
  PROVE  Len(q) \in Nat /\ DOMAIN q = 1..Len(q)
BY DEF IsLog

(* Logs are put together in any order, and grow at the end.                *)
LEMMA LogsJoin ==
  ASSUME NEW q, NEW r, NEW s, IsLog(q), IsLog(r), IsLog(s)
  PROVE  /\ IsLog(q \o r) /\ q \o (r \o s) = (q \o r) \o s /\ q \o <<>> = q
<1>1. PICK S, T, U : q \in Seq(S) /\ r \in Seq(T) /\ s \in Seq(U)
  BY DEF IsLog
<1> DEFINE V == S \cup T \cup U
<1>2. q \in Seq(V) /\ r \in Seq(V) /\ s \in Seq(V)
  BY <1>1
<1> HIDE DEF V
<1>3. q \o r \in Seq(V)
  BY <1>2
<1> QED
  BY <1>2, <1>3, ConcatAssociative, ConcatEmptySeq DEF IsLog

LEMMA LogGrows ==
  ASSUME NEW q, NEW e, IsLog(q)
  PROVE  /\ IsLog(Append(q, e)) /\ q \o <<e>> = Append(q, e) /\ IsLog(<<e>>)
         /\ Len(Append(q, e)) = Len(q) + 1
         /\ \A i \in 1..Len(q) : Append(q, e)[i] = q[i]
         /\ Append(q, e)[Len(q) + 1] = e
<1>1. PICK S : q \in Seq(S)
  BY DEF IsLog
<1> DEFINE V == S \cup {e}
<1>2. q \in Seq(V) /\ e \in V
  BY <1>1
<1> HIDE DEF V
<1>3. <<e>> \in Seq(V)
  BY <1>2
<1> QED
  BY <1>2, <1>3, AppendProperties, AppendIsConcat DEF IsLog

(***************************************************************************)
(* Induction over the natural numbers for a set.                           *)
(***************************************************************************)
LEMMA NumberInduction ==
  ASSUME NEW T, 0 \in T, \A n \in Nat : n \in T => n + 1 \in T
  PROVE  Nat \subseteq T
<1> SUFFICES ASSUME NEW m \in Nat, m \notin T PROVE FALSE
  OBVIOUS
<1> DEFINE D == Nat \ T
<1>1. PICK x \in D : \A y \in D : ~(<<y, x>> \in OpToRel(<, Nat))
  BY NatLessThanWellFounded, WFMin
<1>2. x # 0 /\ x - 1 \in Nat
  OBVIOUS
<1>3. <<x - 1, x>> \in OpToRel(<, Nat)
  BY <1>2 DEF OpToRel
<1>4. x - 1 \notin D
  BY <1>1, <1>3
<1> QED
  BY <1>2, <1>4

(***************************************************************************)
(* foldGoalEvidence goes through a log event by event.                     *)
(***************************************************************************)
FoldsTo(s, k, h) ==
  h[0] = NoFold /\ \A n \in 1..k : h[n] = Folded(h[n - 1], s[n])

(* There is a fold as far as one asks for,                                 *)
LEMMA FoldExists ==
  ASSUME NEW s
  PROVE  \A k \in Nat : \E h : DOMAIN h = 0..k /\ h = [n \in 0..k |-> h[n]] /\ FoldsTo(s, k, h)
<1> DEFINE T == {k \in Nat : \E h : DOMAIN h = 0..k /\ h = [n \in 0..k |-> h[n]]
                                    /\ FoldsTo(s, k, h)}
<1>1. 0 \in T
  <2> DEFINE h == [n \in 0..0 |-> NoFold]
  <2>1. DOMAIN h = 0..0 /\ h = [n \in 0..0 |-> h[n]] /\ FoldsTo(s, 0, h)
    BY DEF FoldsTo
  <2> QED BY <2>1
<1>2. ASSUME NEW k \in Nat, k \in T PROVE k + 1 \in T
  <2>1. PICK h : DOMAIN h = 0..k /\ FoldsTo(s, k, h)
    BY <1>2
  <2> DEFINE g == [n \in 0..(k + 1) |-> IF n = k + 1 THEN Folded(h[k], s[k + 1]) ELSE h[n]]
  <2>2. g[0] = NoFold
    BY <2>1 DEF FoldsTo
  <2>3. ASSUME NEW n \in 1..(k + 1) PROVE g[n] = Folded(g[n - 1], s[n])
    <3>1. CASE n = k + 1
      <4>1. g[n] = Folded(h[k], s[k + 1]) /\ g[n - 1] = h[k]
        BY <3>1
      <4> QED BY <3>1, <4>1
    <3>2. CASE n # k + 1
      <4>1. n \in 1..k /\ n - 1 \in 0..(k + 1) /\ n \in 0..(k + 1) /\ n - 1 # k + 1
        BY <3>2
      <4>2. g[n] = h[n] /\ g[n - 1] = h[n - 1]
        BY <4>1, <3>2
      <4> QED BY <4>1, <4>2, <2>1 DEF FoldsTo
    <3> QED BY <3>1, <3>2
  <2>4. DOMAIN g = 0..(k + 1) /\ g = [n \in 0..(k + 1) |-> g[n]]
    OBVIOUS
  <2>5. FoldsTo(s, k + 1, g)
    BY <2>2, <2>3 DEF FoldsTo
  <2> HIDE DEF g
  <2> QED BY <2>4, <2>5
<1> HIDE DEF T
<1>3. Nat \subseteq T
  BY <1>1, <1>2, NumberInduction
<1> QED BY <1>3 DEF T

(* only one,                                                               *)
LEMMA FoldUnique ==
  ASSUME NEW s, NEW t, NEW k \in Nat, NEW g, NEW h, FoldsTo(s, k, g), FoldsTo(t, k, h),
         \A n \in 1..k : s[n] = t[n]
  PROVE  g[k] = h[k]
<1> DEFINE T == {n \in Nat : n <= k => g[n] = h[n]}
<1>1. 0 \in T
  BY DEF FoldsTo
<1>2. ASSUME NEW n \in Nat, n \in T PROVE n + 1 \in T
  <2> SUFFICES ASSUME n + 1 <= k PROVE g[n + 1] = h[n + 1]
    OBVIOUS
  <2>1. n + 1 \in 1..k /\ g[n] = h[n] /\ (n + 1) - 1 = n
    BY <1>2
  <2>2. g[n + 1] = Folded(g[n], s[n + 1]) /\ h[n + 1] = Folded(h[n], t[n + 1])
    BY <2>1 DEF FoldsTo
  <2> QED BY <2>1, <2>2
<1> HIDE DEF T
<1>3. Nat \subseteq T
  BY <1>1, <1>2, NumberInduction
<1> QED BY <1>3 DEF T

(* and it is what the recursion of FoldGoalEvidence gives.                 *)
LEMMA FoldIs ==
  ASSUME NEW s, IsLog(s)
  PROVE  \E h : FoldsTo(s, Len(s), h) /\ FoldGoalEvidence(s) = h[Len(s)]
<1> DEFINE F(f) == [n \in 0..Len(s) |-> IF n = 0 THEN NoFold ELSE Folded(f[n - 1], s[n])]
           h == CHOOSE f : f = F(f)
<1>0. Len(s) \in Nat
  BY LogShape
<1>1. PICK f : DOMAIN f = 0..Len(s) /\ f = [n \in 0..Len(s) |-> f[n]] /\ FoldsTo(s, Len(s), f)
  BY <1>0, FoldExists
<1>2. f = F(f)
  <2>1. \A n \in 0..Len(s) : f[n] = IF n = 0 THEN NoFold ELSE Folded(f[n - 1], s[n])
    BY <1>0, <1>1 DEF FoldsTo
  <2> QED BY <1>1, <2>1
<1>3. h = F(h)
  BY <1>2
<1>4. FoldGoalEvidence(s) = h[Len(s)]
  BY DEF FoldGoalEvidence
<1> HIDE DEF h
<1>5. h[0] = NoFold
  BY <1>3, <1>0
<1>6. ASSUME NEW n \in 1..Len(s) PROVE h[n] = Folded(h[n - 1], s[n])
  <2>1. n \in 0..Len(s) /\ n # 0
    BY <1>0
  <2>2. F(h)[n] = Folded(h[n - 1], s[n])
    BY <2>1
  <2> QED BY <1>3, <2>2
<1> QED BY <1>4, <1>5, <1>6 DEF FoldsTo

LEMMA FoldGrows ==
  ASSUME NEW s, NEW e, IsLog(s)
  PROVE  FoldGoalEvidence(Append(s, e)) = Folded(FoldGoalEvidence(s), e)
<1> DEFINE t == Append(s, e)
           k == Len(s)
<1>1. /\ IsLog(t) /\ Len(t) = k + 1 /\ t[k + 1] = e /\ k \in Nat
      /\ \A n \in 1..k : t[n] = s[n]
  BY LogGrows, LogShape
<1> HIDE DEF t
<1>2. PICK h : FoldsTo(s, k, h) /\ FoldGoalEvidence(s) = h[k]
  BY FoldIs
<1>3. PICK g : FoldsTo(t, k + 1, g) /\ FoldGoalEvidence(t) = g[k + 1]
  BY <1>1, FoldIs
<1> HIDE DEF k
<1>4. FoldsTo(t, k, g)
  BY <1>1, <1>3 DEF FoldsTo
<1>5. g[k] = h[k]
  <2>1. k \in Nat /\ \A n \in 1..k : t[n] = s[n]
    BY <1>1
  <2>2. FoldsTo(t, k, g) /\ FoldsTo(s, k, h)
    BY <1>2, <1>4
  <2> HIDE DEF k
  <2> QED BY ONLY <2>1, <2>2, FoldUnique
<1>6. g[k + 1] = Folded(g[k], t[k + 1])
  <2>1. k + 1 \in 1..(k + 1) /\ (k + 1) - 1 = k
    BY <1>1
  <2> QED BY <2>1, <1>3 DEF FoldsTo
<1> QED BY <1>1, <1>2, <1>3, <1>5, <1>6 DEF t

(***************************************************************************)
(* The figures of a log, and what an event adds to them.                   *)
(***************************************************************************)
Prompts(s) == {s[i] : i \in OfType(s, "user/message")}

Enters(s, t, e) ==
  /\ IsLog(t)
  /\ \A type : NumberOf(t, type) = NumberOf(s, type) + IF e.type = type THEN 1 ELSE 0
  /\ Cardinality(TokenRows(t)) =
       Cardinality(TokenRows(s)) + IF e.type = "assistant/message" /\ e.usage THEN 1 ELSE 0
  /\ Cardinality(FailedRows(t)) =
       Cardinality(FailedRows(s)) + IF e.type = "tool/result" /\ e.failed THEN 1 ELSE 0
  /\ CompletionClaim(t) =
       IF e.type = "assistant/message" /\ e.claim # "silent" THEN e.claim ELSE CompletionClaim(s)
  /\ UsageComplete(t) => UsageComplete(s) /\ (e.type = "assistant/message" => e.usage)
  /\ FoldGoalEvidence(t) = Folded(FoldGoalEvidence(s), e)
  /\ \A p \in Prompts(t) : p \in Prompts(s) \/ (p = e /\ e.type = "user/message")

(* A set of places, with the place after them.                             *)
LEMMA OneMore ==
  ASSUME NEW n \in Nat, NEW S \in SUBSET (1..n)
  PROVE  /\ Cardinality(S) \in Nat
         /\ Cardinality(S \cup {n + 1}) = Cardinality(S) + 1
<1>1. IsFiniteSet(1..n)
  BY FS_Interval
<1>2. IsFiniteSet(S)
  BY <1>1, FS_Subset
<1>3. n + 1 \notin S
  OBVIOUS
<1> QED
  BY <1>2, <1>3, FS_CardinalityType, FS_AddElement

(* The same, for a set of places that may or may not have the next one.    *)
LEMMA OneOrNone ==
  ASSUME NEW n \in Nat, NEW S \in SUBSET (1..n), NEW T, NEW more \in BOOLEAN,
         T = IF more THEN S \cup {n + 1} ELSE S
  PROVE  Cardinality(T) = Cardinality(S) + IF more THEN 1 ELSE 0
BY OneMore

(* Some place of a set of places is the last.                              *)
LEMMA SomeLast ==
  ASSUME NEW n \in Nat, NEW X \in SUBSET (1..n), NEW x \in X
  PROVE  \E i \in X : \A j \in X : j <= i
<1> DEFINE T == {k \in Nat : \A y \in X : n - k <= y => \E i \in X : \A j \in X : j <= i}
<1>1. 0 \in T
  <2> SUFFICES ASSUME NEW y \in X, n - 0 <= y PROVE \E i \in X : \A j \in X : j <= i
    OBVIOUS
  <2>1. \A j \in X : j <= y
    OBVIOUS
  <2> QED BY <2>1
<1>2. ASSUME NEW k \in Nat, k \in T PROVE k + 1 \in T
  <2> SUFFICES ASSUME NEW y \in X, n - (k + 1) <= y
               PROVE  \E i \in X : \A j \in X : j <= i
    OBVIOUS
  <2>1. CASE \E z \in X : n - k <= z
    BY <1>2, <2>1
  <2>2. CASE ~\E z \in X : n - k <= z
    <3>1. \A j \in X : j <= y
      BY <2>2
    <3> QED BY <3>1
  <2> QED BY <2>1, <2>2
<1> HIDE DEF T
<1>3. Nat \subseteq T
  BY <1>1, <1>2, NumberInduction
<1>4. n \in T /\ n - n <= x
  BY <1>3
<1> QED BY <1>4 DEF T

LEMMA EventEnters ==
  ASSUME NEW s, NEW e, IsLog(s)
  PROVE  Enters(s, Append(s, e), e)
<1> DEFINE t == Append(s, e)
           n == Len(s)
<1>1. /\ IsLog(t) /\ t[n + 1] = e /\ n \in Nat
      /\ \A i \in 1..n : t[i] = s[i]
      /\ DOMAIN s = 1..n /\ DOMAIN t = 1..(n + 1)
  BY LogGrows, LogShape
<1>2. FoldGoalEvidence(t) = Folded(FoldGoalEvidence(s), e)
  BY FoldGrows
<1> HIDE DEF t, n
<1>3. \A i : i \in 1..(n + 1) <=> i \in 1..n \/ i = n + 1
  BY <1>1
<1>4. n + 1 \notin 1..n
  BY <1>1
<1>5. ASSUME NEW type
      PROVE  /\ OfType(s, type) \in SUBSET (1..n)
             /\ \A i : i \in OfType(t, type) <=>
                         i \in OfType(s, type) \/ (i = n + 1 /\ e.type = type)
  BY <1>1, <1>3, <1>4 DEF OfType
<1>6. ASSUME NEW type
      PROVE  NumberOf(t, type) = NumberOf(s, type) + IF e.type = type THEN 1 ELSE 0
  <2> DEFINE more == e.type = type
  <2>1. OfType(t, type) = IF more THEN OfType(s, type) \cup {n + 1} ELSE OfType(s, type)
    BY <1>5
  <2>2. OfType(s, type) \in SUBSET (1..n) /\ more \in BOOLEAN
    BY <1>5
  <2> HIDE DEF more
  <2>3. Cardinality(OfType(t, type)) = Cardinality(OfType(s, type)) + IF more THEN 1 ELSE 0
    BY ONLY <1>1, <2>1, <2>2, OneOrNone
  <2> QED BY <2>3 DEF NumberOf, more
<1> DEFINE M == OfType(s, "assistant/message")
           said == e.type = "assistant/message"
<1>7. /\ M \in SUBSET (1..n)
      /\ \A i : i \in OfType(t, "assistant/message") <=> i \in M \/ (i = n + 1 /\ said)
      /\ \A i \in M : t[i] = s[i]
  <2>1. M \in SUBSET (1..n) /\ \A i : i \in OfType(t, "assistant/message") <=> i \in M \/ (i = n + 1 /\ said)
    BY <1>5
  <2> QED BY <2>1, <1>1
<1>8. Cardinality(TokenRows(t)) = Cardinality(TokenRows(s)) + IF said /\ e.usage THEN 1 ELSE 0
  <2> DEFINE more == said /\ e.usage
  <2> HIDE DEF M, said
  <2>1. TokenRows(t) = IF more THEN TokenRows(s) \cup {n + 1} ELSE TokenRows(s)
    BY <1>1, <1>4, <1>7 DEF TokenRows, M
  <2>2. TokenRows(s) \in SUBSET (1..n) /\ more \in BOOLEAN
    BY <1>7 DEF TokenRows, M
  <2> HIDE DEF more
  <2>3. Cardinality(TokenRows(t)) = Cardinality(TokenRows(s)) + IF more THEN 1 ELSE 0
    BY ONLY <1>1, <2>1, <2>2, OneOrNone
  <2> QED BY <2>3 DEF more
<1>9. Cardinality(FailedRows(t)) =
        Cardinality(FailedRows(s)) + IF e.type = "tool/result" /\ e.failed THEN 1 ELSE 0
  <2> DEFINE R == OfType(s, "tool/result")
             more == e.type = "tool/result" /\ e.failed
  <2>1. /\ R \in SUBSET (1..n)
        /\ \A i : i \in OfType(t, "tool/result") <=> i \in R \/ (i = n + 1 /\ e.type = "tool/result")
    BY <1>5
  <2> HIDE DEF R
  <2>2. FailedRows(t) = IF more THEN FailedRows(s) \cup {n + 1} ELSE FailedRows(s)
    BY <1>1, <1>4, <2>1 DEF FailedRows, R
  <2>3. FailedRows(s) \in SUBSET (1..n) /\ more \in BOOLEAN
    BY <2>1 DEF FailedRows, R
  <2> HIDE DEF more
  <2>4. Cardinality(FailedRows(t)) = Cardinality(FailedRows(s)) + IF more THEN 1 ELSE 0
    BY ONLY <1>1, <2>2, <2>3, OneOrNone
  <2> QED BY <2>4 DEF more
<1>10. UsageComplete(t) => UsageComplete(s) /\ (said => e.usage)
  BY <1>1, <1>7 DEF UsageComplete
<1>11. CompletionClaim(t) = IF said /\ e.claim # "silent" THEN e.claim ELSE CompletionClaim(s)
  <2> DEFINE X == {i \in M : s[i].claim # "silent"}
             Y == {i \in OfType(t, "assistant/message") : t[i].claim # "silent"}
             last(Z) == CHOOSE i \in Z : \A j \in Z : j <= i
  <2>1. /\ CompletionClaim(s) = IF X = {} THEN "absent" ELSE s[last(X)].claim
        /\ CompletionClaim(t) = IF Y = {} THEN "absent" ELSE t[last(Y)].claim
    BY DEF CompletionClaim
  <2> HIDE DEF M
  <2>2. X \in SUBSET (1..n)
    BY <1>7
  <2>3. CASE said /\ e.claim # "silent"
    <3>1. n + 1 \in Y /\ \A j \in Y : j \in 1..(n + 1)
      <4>1. n + 1 \in OfType(t, "assistant/message") /\ t[n + 1].claim # "silent"
        BY <2>3, <1>1, <1>7
      <4>2. \A j \in OfType(t, "assistant/message") : j \in 1..(n + 1)
        BY <1>1 DEF OfType
      <4> QED BY <4>1, <4>2
    <3>2. \A j \in Y : j <= n + 1
      BY <3>1, <1>1
    <3>3. last(Y) \in Y /\ \A j \in Y : j <= last(Y)
      BY <3>1, <3>2
    <3>4. last(Y) = n + 1
      BY <3>1, <3>2, <3>3, <1>1
    <3> HIDE DEF last, Y
    <3> QED BY <2>1, <2>3, <3>1, <3>4, <1>1
  <2>4. CASE ~(said /\ e.claim # "silent")
    <3>1. Y = X
      <4>1. ASSUME NEW i \in M PROVE i \in X <=> i \in Y
        BY <4>1, <1>7
      <4>2. ASSUME NEW i \in Y PROVE i \in M
        <5>1. i \in M \/ (i = n + 1 /\ said)
          BY <4>2, <1>7
        <5>2. t[i].claim # "silent"
          BY <4>2
        <5> QED BY <5>1, <5>2, <2>4, <1>1
      <4>3. \A i \in X : i \in M
        OBVIOUS
      <4> HIDE DEF X, Y
      <4> QED BY <4>1, <4>2, <4>3
    <3>2. CASE X = {}
      BY <2>1, <2>4, <3>1, <3>2
    <3>3. CASE X # {}
      <4>1. last(X) \in X
        <5>1. \E i \in X : \A j \in X : j <= i
          <6>1. PICK i \in X : TRUE
            BY <3>3
          <6> HIDE DEF X
          <6> QED BY <6>1, <2>2, <1>1, SomeLast
        <5> QED BY <5>1
      <4>2. t[last(X)] = s[last(X)]
        BY <4>1, <2>2, <1>1
      <4> QED BY <2>1, <2>4, <3>1, <3>3, <4>2
    <3> QED BY <3>2, <3>3
  <2> QED BY <2>3, <2>4
<1>12. \A p \in Prompts(t) : p \in Prompts(s) \/ (p = e /\ e.type = "user/message")
  BY <1>1, <1>5 DEF Prompts
<1> QED
  BY <1>1, <1>2, <1>6, <1>8, <1>9, <1>10, <1>11, <1>12 DEF Enters, t

-----------------------------------------------------------------------------
(***************************************************************************)
(* The engine's account, and the log that tells it.                        *)
(***************************************************************************)
Phases == {"none", "active", "paused", "blocked", "complete"}
Goals == [id : Nat, revision : Nat, phase : Phases, rounds : Nat]
Accounts ==
  [open : BOOLEAN, turns : Nat, steps : Nat, goal : Goals, goals : Nat, most : Nat, calls : Nat,
   failed : Nat, tokens : Nat, claim : {"complete", "absent"}]

FoldOf(goal, goals, most) == [valid |-> TRUE, goal |-> goal, ids |-> 1..goals, most |-> most]

Telling(s, turns, steps, calls, failed, tokens, claim, fold) ==
  /\ IsLog(s)
  /\ NumberOf(s, "turn/start") = turns
  /\ NumberOf(s, "step/start") = steps
  /\ NumberOf(s, "tool/call") = calls
  /\ Cardinality(FailedRows(s)) = failed
  /\ Cardinality(TokenRows(s)) = tokens
  /\ CompletionClaim(s) = claim
  /\ FoldGoalEvidence(s) = fold

(* A Goal that is there was counted; rounds that were started are.  Goals  *)
(* come from the treatment's surface.                                      *)
EngineSound ==
  /\ engine \in Accounts
  /\ engine.goal.phase # "none" => engine.goal.id \in 1..engine.goals
  /\ engine.goal.rounds <= engine.most
  /\ engine.goals > 0 => arm = "treatment" \/ oddity = "surface"

PromptsShown(s) == \A p \in Prompts(s) : p.source = "user" => p.public = (oddity # "prompt")

(* The log of a process that was not cut tells the engine's account.       *)
LogTells ==
  /\ Telling(log, engine.turns, engine.steps, engine.calls, engine.failed, engine.tokens,
             engine.claim, FoldOf(engine.goal, engine.goals, engine.most))
  /\ UsageComplete(log) => engine.tokens = engine.steps
  /\ PromptsShown(log)

-----------------------------------------------------------------------------
LEMMA GoalBeforeIs ==
  ASSUME EngineSound
  PROVE  /\ GoalBefore \in Goals /\ GoalBefore.phase = engine.goal.phase
         /\ GoalBefore.id = engine.goal.id /\ GoalBefore.revision = engine.goal.revision
         /\ engine.open \/ engine.turns = 0 => GoalBefore = engine.goal
         /\ ~(engine.open \/ engine.turns = 0) => GoalBefore.rounds = engine.goal.rounds + 1
BY DEF EngineSound, Accounts, GoalBefore, Goals

(* What the model may do in a step.                                        *)
LEMMA StepIs ==
  ASSUME EpisodeAssumption, NEW c \in Steps
  PROVE  /\ stage = "running" /\ engine.steps < MaxSteps
         /\ engine.open \/ engine.turns = 0 \/ RoundDue
         /\ c.usage \in BOOLEAN
         /\ \/ c.what = "talk" /\ c.claim \in {"complete", "absent"}
            \/ c.what \in {"good", "bad", "outside", "failing"} /\ c.usage /\ c.claim = "silent"
            \/ /\ c.what \in Operations /\ c.usage /\ c.claim = "silent"
               /\ arm = "treatment" \/ oddity = "surface"
         /\ c.what \in {"talk", "good", "bad", "outside", "failing"} => c.what \notin Operations
<1>1. c \in Talks \cup Edits \/ (c \in Changes /\ (arm = "treatment" \/ oddity = "surface"))
  BY DEF Steps
<1>2. /\ stage = "running" /\ engine.steps < MaxSteps
      /\ engine.open \/ engine.turns = 0 \/ RoundDue
  BY DEF Steps
<1>3. c.what \in {"talk", "good", "bad", "outside", "failing"} => c.what \notin Operations
  BY EpisodeAssumption DEF EpisodeAssumption, GoalOperations
<1> QED
  BY <1>1, <1>2, <1>3 DEF Talks, Edits, Changes

LEMMA NextGoalIs ==
  ASSUME EpisodeAssumption, EngineSound, NEW c \in Steps, NEW g \in NextGoals(c)
  PROVE  /\ g \in Goals
         /\ c.what \notin Operations => g = GoalBefore
         /\ c.what \in Operations /\ c.what = "create" =>
              /\ GoalBefore.phase \in {"none", "complete"}
              /\ g = [id |-> engine.goals + 1, revision |-> 1, phase |-> "active", rounds |-> 0]
         /\ c.what \in Operations /\ c.what # "create" =>
              /\ <<c.what, GoalBefore.phase, g.phase>> \in Moves
              /\ g.id = GoalBefore.id /\ g.revision = GoalBefore.revision + 1
              /\ g.rounds = GoalBefore.rounds
              /\ c.what = "resume" => g.rounds < MaxRounds
<1>0. GoalBefore \in Goals
  BY GoalBeforeIs
<1>1. CASE c.what \notin Operations
  BY <1>0, <1>1 DEF NextGoals
<1>2. CASE c.what \in Operations /\ c.what = "create"
  <2>1. engine.goals \in Nat
    BY DEF EngineSound, Accounts
  <2>2. /\ GoalBefore.phase \in {"none", "complete"}
        /\ g = [id |-> engine.goals + 1, revision |-> 1, phase |-> "active", rounds |-> 0]
    BY <1>2 DEF NextGoals
  <2> QED BY <1>2, <2>1, <2>2 DEF Goals, Phases
<1>3. CASE c.what \in Operations /\ c.what # "create"
  <2>1. PICK m \in Moves : /\ m[1] = c.what /\ m[2] = GoalBefore.phase
                           /\ c.what = "resume" => GoalBefore.rounds < MaxRounds
                           /\ g = [id |-> GoalBefore.id, revision |-> GoalBefore.revision + 1,
                                   phase |-> m[3], rounds |-> GoalBefore.rounds]
    BY <1>3 DEF NextGoals
  <2>2. m = <<m[1], m[2], m[3]>> /\ m[3] \in Phases
    BY DEF Moves, Phases
  <2>3. /\ g.phase = m[3] /\ g.id = GoalBefore.id /\ g.rounds = GoalBefore.rounds
        /\ g.revision = GoalBefore.revision + 1 /\ g \in Goals
    BY <1>0, <2>1, <2>2 DEF Goals
  <2> QED BY <1>3, <2>1, <2>2, <2>3
<1> QED BY <1>1, <1>2, <1>3

(***************************************************************************)
(* The fold takes the engine's rounds and changes.                         *)
(***************************************************************************)
RoundMessage ==
  [type |-> "user/message", source |-> "goal", public |-> TRUE, id |-> GoalBefore.id,
   revision |-> GoalBefore.revision, round |-> GoalBefore.rounds]

Most == IF GoalBefore.rounds > engine.most THEN GoalBefore.rounds ELSE engine.most

LEMMA RoundFolds ==
  ASSUME EpisodeAssumption, EngineSound, ~engine.open, engine.turns # 0, RoundDue
  PROVE  Folded(FoldOf(engine.goal, engine.goals, engine.most), RoundMessage)
           = FoldOf(GoalBefore, engine.goals, Most)
<1> DEFINE f == FoldOf(engine.goal, engine.goals, engine.most)
           e == RoundMessage
<1>1. /\ engine.goal \in Goals /\ engine.most \in Nat /\ engine.goals \in Nat /\ MaxRounds \in Nat
      /\ engine.goal.phase = "active" /\ engine.goal.rounds < MaxRounds
  BY EpisodeAssumption DEF EngineSound, Accounts, RoundDue, EpisodeAssumption
<1>2. /\ GoalBefore = [engine.goal EXCEPT !.rounds = @ + 1]
      /\ GoalBefore.id = engine.goal.id /\ GoalBefore.revision = engine.goal.revision
      /\ GoalBefore.rounds = engine.goal.rounds + 1
  BY <1>1 DEF GoalBefore, Goals
<1>3. /\ e.type = "user/message" /\ e.source = "goal" /\ e.id = GoalBefore.id
      /\ e.revision = GoalBefore.revision /\ e.round = GoalBefore.rounds
  BY DEF RoundMessage
<1>4. f.valid /\ f.goal = engine.goal /\ f.ids = 1..engine.goals /\ f.most = engine.most
  BY DEF FoldOf
<1>5. Folded(f, e) = FoldRound(f, e)
  BY <1>3, <1>4 DEF Folded
<1>6. e.round <= MaxRounds
  BY <1>1, <1>2, <1>3 DEF Goals
<1>7. FoldRound(f, e) =
        [valid |-> TRUE, goal |-> [f.goal EXCEPT !.rounds = e.round], ids |-> f.ids,
         most |-> IF e.round > f.most THEN e.round ELSE f.most]
  BY <1>1, <1>2, <1>3, <1>4, <1>6 DEF FoldRound
<1>8. [engine.goal EXCEPT !.rounds = e.round] = GoalBefore
  BY <1>1, <1>2, <1>3 DEF Goals
<1>9. Most = IF e.round > f.most THEN e.round ELSE f.most
  BY <1>3, <1>4 DEF Most
<1>10. FoldRound(f, e) = FoldOf(GoalBefore, engine.goals, Most)
  BY <1>4, <1>7, <1>8, <1>9 DEF FoldOf
<1> QED BY <1>5, <1>10

ChangeOf(c, g) ==
  [type |-> "goal/change", operation |-> c.what, id |-> g.id, revision |-> g.revision,
   phase |-> IF c.what = "clear" THEN "none" ELSE g.phase, rounds |-> g.rounds]

LEMMA ChangeFolds ==
  ASSUME EpisodeAssumption, EngineSound, NEW c \in Steps, NEW g \in NextGoals(c),
         c.what \in Operations
  PROVE  Folded(FoldOf(GoalBefore, engine.goals, Most), ChangeOf(c, g))
           = FoldOf(Account(c, g).goal, Account(c, g).goals, Most)
<1> DEFINE f == FoldOf(GoalBefore, engine.goals, Most)
           e == ChangeOf(c, g)
<1>1. /\ e.type = "goal/change" /\ e.operation = c.what /\ e.id = g.id
      /\ e.revision = g.revision /\ e.rounds = g.rounds
      /\ e.phase = IF c.what = "clear" THEN "none" ELSE g.phase
  BY DEF ChangeOf
<1>2. f.valid /\ f.goal = GoalBefore /\ f.ids = 1..engine.goals /\ f.most = Most
  BY DEF FoldOf
<1>3. Folded(f, e) = FoldChange(f, e)
  BY <1>1, <1>2 DEF Folded
<1>4. g \in Goals /\ GoalBefore \in Goals /\ engine.goals \in Nat
  BY NextGoalIs, GoalBeforeIs DEF EngineSound, Accounts
<1>5. Account(c, g).goal = (IF c.what = "clear" THEN NoGoal ELSE g)
  BY DEF Account
<1>6. Account(c, g).goals = engine.goals + (IF c.what = "create" THEN 1 ELSE 0)
  BY DEF Account
<1>7. g = [id |-> g.id, revision |-> g.revision, phase |-> g.phase, rounds |-> g.rounds]
  BY <1>4 DEF Goals
<1>8. Follows(f, e)
  <2>1. CASE c.what = "create"
    <3>1. /\ GoalBefore.phase \in {"none", "complete"}
          /\ g = [id |-> engine.goals + 1, revision |-> 1, phase |-> "active", rounds |-> 0]
      BY <2>1, NextGoalIs
    <3>2. e.id \notin f.ids
      BY <1>1, <1>2, <1>4, <3>1
    <3> QED BY <1>1, <1>2, <2>1, <3>1, <3>2 DEF Follows
  <2>2. CASE c.what # "create"
    <3>1. /\ <<c.what, GoalBefore.phase, g.phase>> \in Moves
          /\ g.id = GoalBefore.id /\ g.revision = GoalBefore.revision + 1
          /\ g.rounds = GoalBefore.rounds
          /\ c.what = "resume" => g.rounds < MaxRounds
      BY <2>2, NextGoalIs
    <3>2. e.phase = g.phase
      BY <1>1, <3>1 DEF Moves
    <3> QED BY <1>1, <1>2, <2>2, <3>1, <3>2 DEF Follows
  <2> QED BY <2>1, <2>2
<1>9. (1..engine.goals) \cup {e.id} = 1..Account(c, g).goals
  <2>1. CASE c.what = "create"
    <3>1. g = [id |-> engine.goals + 1, revision |-> 1, phase |-> "active", rounds |-> 0]
      BY <2>1, NextGoalIs
    <3>2. e.id = engine.goals + 1
      BY <1>1, <3>1
    <3> QED BY <1>4, <1>6, <2>1, <3>2
  <2>2. CASE c.what # "create"
    <3>1. <<c.what, GoalBefore.phase, g.phase>> \in Moves /\ g.id = GoalBefore.id
      BY <2>2, NextGoalIs
    <3>2. GoalBefore.phase # "none"
      BY <3>1 DEF Moves
    <3>3. e.id \in 1..engine.goals
      BY <1>1, <3>1, <3>2, GoalBeforeIs DEF EngineSound
    <3> QED BY <1>4, <1>6, <2>2, <3>3
  <2> QED BY <2>1, <2>2
<1>10. Account(c, g).goal =
         IF e.operation = "clear" THEN NoGoal
         ELSE [id |-> e.id, revision |-> e.revision, phase |-> e.phase, rounds |-> e.rounds]
  BY <1>1, <1>5, <1>7
<1>11. FoldChange(f, e) =
         [valid |-> TRUE, goal |-> Account(c, g).goal, ids |-> f.ids \cup {e.id}, most |-> f.most]
  BY <1>8, <1>10 DEF FoldChange
<1>12. FoldChange(f, e) = FoldOf(Account(c, g).goal, Account(c, g).goals, Most)
  BY <1>2, <1>9, <1>11 DEF FoldOf
<1> QED BY <1>3, <1>12

(***************************************************************************)
(* The events of a step, one after the other.                              *)
(***************************************************************************)
LEMMA FoldSkips ==
  ASSUME NEW f, NEW e, e.type \notin {"goal/change", "user/message"}
  PROVE  Folded(f, e) = f
BY DEF Folded

(* A row that no figure counts leaves them as they are.                    *)
Figured == {"turn/start", "step/start", "tool/call"}

Same(s, q) ==
  /\ IsLog(q)
  /\ \A type \in Figured : NumberOf(q, type) = NumberOf(s, type)
  /\ Cardinality(TokenRows(q)) = Cardinality(TokenRows(s))
  /\ Cardinality(FailedRows(q)) = Cardinality(FailedRows(s))
  /\ CompletionClaim(q) = CompletionClaim(s)
  /\ FoldGoalEvidence(q) = FoldGoalEvidence(s)
  /\ UsageComplete(q) => UsageComplete(s)
  /\ PromptsShown(s) => PromptsShown(q)

LEMMA FiguresAreNumbers ==
  ASSUME NEW s, IsLog(s)
  PROVE  /\ \A type : NumberOf(s, type) \in Nat
         /\ Cardinality(TokenRows(s)) \in Nat /\ Cardinality(FailedRows(s)) \in Nat
<1>1. Len(s) \in Nat /\ DOMAIN s = 1..Len(s)
  BY LogShape
<1>2. /\ \A type : OfType(s, type) \in SUBSET (1..Len(s))
      /\ TokenRows(s) \in SUBSET (1..Len(s)) /\ FailedRows(s) \in SUBSET (1..Len(s))
  BY <1>1 DEF OfType, TokenRows, FailedRows
<1> QED BY <1>1, <1>2, OneMore DEF NumberOf

LEMMA RowTells ==
  ASSUME NEW s, NEW e, e.type \in {"request", "step/end", "turn/end"}, IsLog(s)
  PROVE  Same(s, Append(s, e))
<1>1. Enters(s, Append(s, e), e)
  BY EventEnters
<1>2. Folded(FoldGoalEvidence(s), e) = FoldGoalEvidence(s)
  BY FoldSkips
<1>3. PromptsShown(s) => PromptsShown(Append(s, e))
  BY <1>1 DEF Enters, PromptsShown
<1>4. ASSUME NEW type \in Figured PROVE NumberOf(Append(s, e), type) = NumberOf(s, type)
  BY <1>1, FiguresAreNumbers DEF Enters, Figured
<1> QED BY <1>1, <1>2, <1>3, <1>4, FiguresAreNumbers DEF Enters, Same

LEMMA TwoRows ==
  ASSUME NEW q, NEW a, NEW b, IsLog(q)
  PROVE  IsLog(<<a, b>>) /\ q \o <<a, b>> = Append(Append(q, a), b)
<1>1. <<a, b>> = <<a>> \o <<b>> /\ IsLog(<<a>>) /\ IsLog(<<b>>)
  <2>1. <<a>> \in Seq({a}) /\ <<b>> \in Seq({b})
    OBVIOUS
  <2>2. IsLog(<<a>>) /\ IsLog(<<b>>)
    BY <2>1 DEF IsLog
  <2>3. <<a>> \o <<b>> = Append(<<a>>, b)
    BY <2>2, LogGrows
  <2>4. Append(<<a>>, b) = <<a, b>>
    <3> DEFINE s == Append(<<a>>, b)
    <3>1. Len(<<a>>) = 1 /\ <<a>>[1] = a
      OBVIOUS
    <3>2. IsLog(s) /\ Len(s) = 2 /\ s[1] = a /\ s[2] = b
      BY <2>2, <3>1, LogGrows
    <3> HIDE DEF s
    <3>3. s = [i \in 1..2 |-> s[i]]
      BY <3>2 DEF IsLog
    <3>4. <<a, b>> = [i \in 1..2 |-> IF i = 1 THEN a ELSE b]
      OBVIOUS
    <3>5. s = [i \in 1..2 |-> IF i = 1 THEN a ELSE b]
      BY <3>2, <3>3
    <3> QED BY <3>4, <3>5 DEF s
  <2> QED BY <2>2, <2>3, <2>4
<1>2. IsLog(<<a>> \o <<b>>) /\ q \o (<<a>> \o <<b>>) = (q \o <<a>>) \o <<b>>
  BY <1>1, LogsJoin
<1>3. q \o <<a>> = Append(q, a) /\ IsLog(Append(q, a))
  BY LogGrows
<1>4. Append(q, a) \o <<b>> = Append(Append(q, a), b)
  BY <1>3, LogGrows
<1> QED BY <1>1, <1>2, <1>3, <1>4

(* A turn is opened by the user's prompt, or by the message of a round.    *)
LEMMA OpeningTells ==
  ASSUME EpisodeAssumption, EngineSound, LogTells, NEW c \in Steps
  PROVE  LET q == log \o Opening
         IN /\ IsLog(Opening)
            /\ Telling(q, engine.turns + (IF engine.open THEN 0 ELSE 1), engine.steps,
                       engine.calls, engine.failed, engine.tokens, engine.claim,
                       FoldOf(GoalBefore, engine.goals, Most))
            /\ PromptsShown(q)
            /\ UsageComplete(q) => UsageComplete(log)
<1> DEFINE old == FoldOf(engine.goal, engine.goals, engine.most)
           new == FoldOf(GoalBefore, engine.goals, Most)
<1>1. /\ engine.turns \in Nat /\ engine.steps \in Nat /\ engine.calls \in Nat
      /\ engine.failed \in Nat /\ engine.tokens \in Nat /\ engine.open \in BOOLEAN
      /\ engine.most \in Nat /\ engine.goal \in Goals /\ engine.goal.rounds <= engine.most
  BY DEF EngineSound, Accounts
<1>2. /\ Telling(log, engine.turns, engine.steps, engine.calls, engine.failed, engine.tokens,
                 engine.claim, old)
      /\ PromptsShown(log) /\ IsLog(log)
  BY DEF LogTells, Telling
<1>3. engine.open \/ engine.turns = 0 => new = old
  <2>1. engine.open \/ engine.turns = 0 => GoalBefore = engine.goal
    BY GoalBeforeIs
  <2>2. GoalBefore = engine.goal => Most = engine.most
    BY <1>1 DEF Most, Goals
  <2> QED BY <2>1, <2>2
<1> HIDE DEF old, new
<1>4. CASE engine.open
  <2>1. Opening = <<>>
    BY <1>4 DEF Opening
  <2>2. IsLog(Opening)
    <3>1. <<>> \in Seq({})
      OBVIOUS
    <3> QED BY <2>1, <3>1 DEF IsLog
  <2>3. log \o Opening = log
    BY <1>2, <2>1, <2>2, LogsJoin
  <2> QED BY <1>1, <1>2, <1>3, <1>4, <2>2, <2>3 DEF new
<1>5. CASE ~engine.open
  <2> DEFINE m == IF engine.turns = 0
                  THEN [type |-> "user/message", source |-> "user", public |-> oddity # "prompt"]
                  ELSE RoundMessage
             e == [type |-> "turn/start"]
             p == Append(log, m)
             q == Append(p, e)
  <2>1. Opening = <<m, e>>
    BY <1>5 DEF Opening, RoundMessage
  <2>2. IsLog(Opening) /\ log \o Opening = q
    BY <1>2, <2>1, TwoRows
  <2>3. m.type = "user/message" /\ (m.source = "user" => m.public = (oddity # "prompt"))
    BY DEF RoundMessage
  <2>4. Folded(old, m) = new
    <3>1. CASE engine.turns = 0
      <4>1. m.source = "user"
        BY <3>1
      <4> QED BY <1>3, <2>3, <3>1, <4>1 DEF Folded
    <3>2. CASE engine.turns # 0
      <4>1. RoundDue
        BY <1>5, <3>2, StepIs
      <4> QED BY <1>5, <3>2, <4>1, RoundFolds DEF old, new
    <3> QED BY <3>1, <3>2
  <2> HIDE DEF m
  <2>5. Enters(log, p, m)
    BY <1>2, EventEnters
  <2> HIDE DEF p
  <2>6. Enters(p, q, e)
    BY <2>5, EventEnters DEF Enters
  <2>7. Folded(new, e) = new
    BY FoldSkips
  <2> HIDE DEF q
  <2>8. Telling(p, engine.turns, engine.steps, engine.calls, engine.failed, engine.tokens,
                engine.claim, new)
    BY <1>1, <1>2, <2>3, <2>4, <2>5 DEF Enters, Telling
  <2>9. Telling(q, engine.turns + 1, engine.steps, engine.calls, engine.failed, engine.tokens,
                engine.claim, new)
    BY <1>1, <2>6, <2>7, <2>8 DEF Enters, Telling
  <2>10. PromptsShown(q) /\ (UsageComplete(q) => UsageComplete(log))
    BY <1>2, <2>3, <2>5, <2>6 DEF Enters, PromptsShown
  <2> QED BY <1>5, <2>2, <2>9, <2>10 DEF new
<1> QED BY <1>1, <1>4, <1>5

(* A call has its result, and a change of the Goal between them.           *)
LEMMA CallingTells ==
  ASSUME EpisodeAssumption, EngineSound, NEW c \in Steps, NEW g \in NextGoals(c),
         NEW s, NEW turns \in Nat, NEW steps \in Nat, NEW tokens \in Nat, NEW claim,
         Telling(s, turns, steps, engine.calls, engine.failed, tokens, claim,
                 FoldOf(GoalBefore, engine.goals, Most)),
         PromptsShown(s)
  PROVE  LET q == s \o Calling(c, g)
             x == Account(c, g)
         IN /\ IsLog(Calling(c, g))
            /\ Telling(q, turns, steps, x.calls, x.failed, tokens, claim,
                       FoldOf(x.goal, x.goals, Most))
            /\ PromptsShown(q)
            /\ UsageComplete(q) => UsageComplete(s)
<1> DEFINE x == Account(c, g)
           old == FoldOf(GoalBefore, engine.goals, Most)
           new == FoldOf(x.goal, x.goals, Most)
<1>1. engine.calls \in Nat /\ engine.failed \in Nat /\ engine.goals \in Nat /\ IsLog(s)
  BY DEF EngineSound, Accounts, Telling
<1>2. /\ x.calls = engine.calls + (IF c.what = "talk" THEN 0 ELSE 1)
      /\ x.failed = engine.failed + (IF c.what = "failing" THEN 1 ELSE 0)
  BY DEF Account
<1>3. c.what \notin Operations => c.what \in {"talk", "good", "bad", "outside", "failing"}
  BY StepIs
<1>4. c.what \notin Operations => new = old
  <2>1. c.what \notin Operations => g = GoalBefore
    BY NextGoalIs
  <2> QED BY <1>1, <1>3, <2>1 DEF Account
<1>5. c.what \in Operations => Folded(old, ChangeOf(c, g)) = new
  BY ChangeFolds
<1>6. c.what \in Operations => c.what # "talk" /\ c.what # "failing"
  BY StepIs
<1> HIDE DEF x, old, new
<1>7. CASE c.what = "talk"
  <2>1. Calling(c, g) = <<>>
    BY <1>7 DEF Calling
  <2>2. IsLog(Calling(c, g))
    <3>1. <<>> \in Seq({})
      OBVIOUS
    <3> QED BY <2>1, <3>1 DEF IsLog
  <2>3. s \o Calling(c, g) = s
    BY <1>1, <2>1, <2>2, LogsJoin
  <2>4. c.what \notin Operations
    BY <1>6, <1>7
  <2> QED BY <1>1, <1>2, <1>4, <1>7, <2>2, <2>3, <2>4 DEF x, old, new
<1>8. CASE c.what # "talk"
  <2> DEFINE call == [type |-> "tool/call", call |-> engine.calls + 1]
             result == [type |-> "tool/result", call |-> engine.calls + 1,
                        failed |-> c.what = "failing"]
             p == Append(s, call)
  <2>1. Calling(c, g) = <<call>> \o (IF c.what \in Operations THEN <<ChangeOf(c, g)>> ELSE <<>>)
                          \o <<result>>
    BY <1>8 DEF Calling, ChangeOf
  <2>2. IsLog(p) /\ s \o <<call>> = p /\ IsLog(<<call>>) /\ IsLog(<<result>>)
    <3> HIDE DEF call, result
    <3>1. IsLog(p) /\ s \o <<call>> = p /\ IsLog(<<call>>)
      BY <1>1, LogGrows
    <3>2. IsLog(<<result>>)
      BY <1>1, LogGrows
    <3> QED BY <3>1, <3>2
  <2>3. call.type = "tool/call"
    OBVIOUS
  <2>4. result.type = "tool/result" /\ result.failed = (c.what = "failing")
    OBVIOUS
  <2>5. Enters(s, p, call)
    BY <1>1, EventEnters
  <2>6. Folded(old, call) = old
    BY FoldSkips
  <2> HIDE DEF call, result, p
  <2>7. Telling(p, turns, steps, engine.calls + 1, engine.failed, tokens, claim, old)
    BY <1>1, <2>3, <2>5, <2>6 DEF Enters, Telling, old
  <2>8. PromptsShown(p) /\ (UsageComplete(p) => UsageComplete(s))
    BY <2>3, <2>5 DEF Enters, PromptsShown
  <2> DEFINE change == IF c.what \in Operations THEN <<ChangeOf(c, g)>> ELSE <<>>
             r == p \o change
             q == Append(r, result)
  <2>9. /\ IsLog(change) /\ IsLog(r)
        /\ Telling(r, turns, steps, engine.calls + 1, engine.failed, tokens, claim, new)
        /\ PromptsShown(r) /\ (UsageComplete(r) => UsageComplete(p))
    <3>1. CASE c.what \in Operations
      <4> DEFINE e == ChangeOf(c, g)
      <4>1. r = Append(p, e) /\ IsLog(change)
        BY <3>1, <2>2, LogGrows
      <4>2. e.type = "goal/change"
        BY DEF ChangeOf
      <4>3. Enters(p, Append(p, e), e)
        BY <2>2, EventEnters
      <4>4. Folded(old, e) = new
        BY <1>5, <3>1
      <4> HIDE DEF e, r, change
      <4>5. Telling(r, turns, steps, engine.calls + 1, engine.failed, tokens, claim, new)
        BY <1>1, <2>7, <4>1, <4>2, <4>3, <4>4 DEF Enters, Telling
      <4>6. PromptsShown(r) /\ (UsageComplete(r) => UsageComplete(p))
        BY <2>8, <4>1, <4>2, <4>3 DEF Enters, PromptsShown
      <4> QED BY <4>1, <4>5, <4>6 DEF Telling
    <3>2. CASE c.what \notin Operations
      <4>1. change = <<>> /\ IsLog(<<>>)
        <5>1. <<>> \in Seq({})
          OBVIOUS
        <5> QED BY <3>2, <5>1 DEF IsLog
      <4>2. r = p
        BY <2>2, <4>1, LogsJoin
      <4> HIDE DEF r, change
      <4> QED BY <1>4, <2>2, <2>7, <2>8, <3>2, <4>1, <4>2
    <3> QED BY <3>1, <3>2
  <2>10. s \o Calling(c, g) = q /\ IsLog(Calling(c, g))
    <3> HIDE DEF change
    <3>1. Calling(c, g) = (<<call>> \o change) \o <<result>>
      BY <2>1 DEF change
    <3>2. IsLog(<<call>> \o change)
      BY <2>2, <2>9, LogsJoin
    <3>3. s \o ((<<call>> \o change) \o <<result>>) = (s \o (<<call>> \o change)) \o <<result>>
      BY <1>1, <2>2, <3>2, LogsJoin
    <3>4. s \o (<<call>> \o change) = (s \o <<call>>) \o change
      <4>1. IsLog(s) /\ IsLog(<<call>>) /\ IsLog(change)
        BY <1>1, <2>2, <2>9
      <4> QED BY ONLY <4>1, LogsJoin
    <3>5. r \o <<result>> = q
      BY <2>9, LogGrows
    <3>6. IsLog((<<call>> \o change) \o <<result>>)
      BY <2>2, <3>2, LogsJoin
    <3> QED BY <2>2, <3>1, <3>3, <3>4, <3>5, <3>6
  <2>11. Enters(r, q, result)
    BY <2>9, EventEnters
  <2>12. Folded(new, result) = new
    BY <2>4, FoldSkips
  <2> HIDE DEF r, q, change
  <2>13. x.calls = engine.calls + 1
    BY <1>2, <1>8
  <2>14. Telling(q, turns, steps, x.calls, x.failed, tokens, claim, new)
    <3>1. result.failed <=> c.what = "failing"
      BY <2>4
    <3>2. x.failed = engine.failed + (IF result.failed THEN 1 ELSE 0)
      BY <1>2, <3>1
    <3> QED BY <1>1, <2>4, <2>9, <2>11, <2>12, <2>13, <3>2 DEF Enters, Telling
  <2>15. PromptsShown(q) /\ (UsageComplete(q) => UsageComplete(s))
    BY <2>4, <2>8, <2>9, <2>11 DEF Enters, PromptsShown
  <2> QED BY <2>10, <2>14, <2>15 DEF x, new
<1> QED BY <1>7, <1>8

(* An optional row that no figure counts.                                  *)
LEMMA OptionTells ==
  ASSUME NEW s, NEW e, e.type \in {"request", "step/end", "turn/end"}, IsLog(s),
         NEW more, more = <<e>> \/ more = <<>>
  PROVE  IsLog(more) /\ Same(s, s \o more)
<1>1. CASE more = <<e>>
  <2>1. IsLog(<<e>>) /\ s \o <<e>> = Append(s, e)
    BY LogGrows
  <2>2. Same(s, Append(s, e))
    BY RowTells
  <2> QED BY <1>1, <2>1, <2>2
<1>2. CASE more = <<>>
  <2>1. <<>> \in Seq({})
    OBVIOUS
  <2>2. IsLog(<<>>)
    BY <2>1 DEF IsLog
  <2>3. IsLog(more) /\ s \o more = s
    BY <1>2, <2>2, LogsJoin
  <2> QED BY <2>3 DEF Same
<1> QED BY <1>1, <1>2

(***************************************************************************)
(* A step that is not cut keeps the log and the account together.          *)
(***************************************************************************)
LEMMA StepTells ==
  ASSUME EpisodeAssumption, EngineSound, LogTells, NEW c \in Steps, NEW g \in NextGoals(c)
  PROVE  LET q == log \o StepEvents(c, g)
             x == Account(c, g)
         IN /\ Telling(q, x.turns, x.steps, x.calls, x.failed, x.tokens, x.claim,
                       FoldOf(x.goal, x.goals, x.most))
            /\ PromptsShown(q)
            /\ UsageComplete(q) => x.tokens = x.steps
<1> DEFINE x == Account(c, g)
           fold == FoldOf(GoalBefore, engine.goals, Most)
           e2 == [type |-> "step/start"]
           e3 == [type |-> "request"]
           e4 == [type |-> "assistant/message", usage |-> c.usage, claim |-> c.claim]
           e6 == [type |-> "step/end"]
           e7 == [type |-> "turn/end"]
           first == engine.steps = 0
           talks == c.what = "talk"
           p3 == IF first THEN <<e3>> ELSE <<>>
           p5 == Calling(c, g)
           p7 == IF talks THEN <<e7>> ELSE <<>>
           l1 == log \o Opening
           l2 == l1 \o <<e2>>
           l3 == l2 \o p3
           l4 == l3 \o <<e4>>
           l5 == l4 \o p5
           l6 == l5 \o <<e6>>
           l7 == l6 \o p7
           t == engine.turns + (IF engine.open THEN 0 ELSE 1)
           k == engine.tokens + (IF c.usage THEN 1 ELSE 0)
           w == IF c.claim # "silent" THEN c.claim ELSE engine.claim
<1>1. /\ engine.turns \in Nat /\ engine.steps \in Nat /\ engine.calls \in Nat
      /\ engine.failed \in Nat /\ engine.tokens \in Nat /\ engine.open \in BOOLEAN
      /\ t \in Nat /\ k \in Nat
  BY DEF EngineSound, Accounts
<1>2. StepEvents(c, g) =
        (((((Opening \o <<e2>>) \o p3) \o <<e4>>) \o p5) \o <<e6>>) \o p7
  BY DEF StepEvents
<1>3. /\ e2.type = "step/start" /\ e3.type = "request" /\ e6.type = "step/end"
      /\ e7.type = "turn/end"
      /\ e4.type = "assistant/message" /\ e4.usage = c.usage /\ e4.claim = c.claim
      /\ first \in BOOLEAN /\ talks \in BOOLEAN
  OBVIOUS
<1>4. /\ x.turns = t /\ x.steps = engine.steps + 1 /\ x.tokens = k /\ x.most = Most
      /\ x.calls \in Nat /\ x.failed \in Nat
      /\ x.claim = (IF c.what = "talk" THEN c.claim ELSE engine.claim)
  BY <1>1 DEF Account, Most
<1>5. w = x.claim /\ c.usage \in BOOLEAN
  <2>1. c.what = "talk" => c.claim # "silent"
    BY StepIs
  <2>2. c.what # "talk" => c.claim = "silent"
    BY StepIs
  <2> QED BY <1>4, <2>1, <2>2, StepIs
<1>6. IsLog(log) /\ (UsageComplete(log) => engine.tokens = engine.steps)
  BY DEF LogTells, Telling
<1>7. /\ IsLog(Opening)
      /\ Telling(l1, t, engine.steps, engine.calls, engine.failed, engine.tokens, engine.claim, fold)
      /\ PromptsShown(l1)
      /\ UsageComplete(l1) => UsageComplete(log)
  BY OpeningTells
<1> HIDE DEF x, e2, e3, e4, e6, e7, first, talks, fold, t, k, w, l1
<1>17. PICK n \in Nat : n = engine.steps + 1
  BY <1>1
<1>8. /\ IsLog(<<e2>>)
      /\ Telling(l2, t, n, engine.calls, engine.failed, engine.tokens, engine.claim, fold)
      /\ PromptsShown(l2)
      /\ UsageComplete(l2) => UsageComplete(l1)
  <2>1. IsLog(l1)
    BY <1>7 DEF Telling
  <2>2. l2 = Append(l1, e2) /\ IsLog(<<e2>>)
    BY <2>1, LogGrows
  <2> HIDE DEF l2
  <2>3. Enters(l1, l2, e2)
    BY <2>1, <2>2, EventEnters
  <2>4. Folded(fold, e2) = fold
    BY <1>3, FoldSkips
  <2>5. Telling(l2, t, n, engine.calls, engine.failed, engine.tokens, engine.claim, fold)
    BY <1>1, <1>3, <1>7, <1>17, <2>3, <2>4 DEF Enters, Telling
  <2>6. PromptsShown(l2) /\ (UsageComplete(l2) => UsageComplete(l1))
    BY <1>3, <1>7, <2>3 DEF Enters, PromptsShown
  <2> QED BY <2>2, <2>5, <2>6
<1> HIDE DEF l2
<1>9. /\ IsLog(p3)
      /\ Telling(l3, t, n, engine.calls, engine.failed, engine.tokens, engine.claim, fold)
      /\ PromptsShown(l3)
      /\ UsageComplete(l3) => UsageComplete(l2)
  <2>1. e3.type \in {"request", "step/end", "turn/end"} /\ IsLog(l2)
    BY <1>3, <1>8 DEF Telling
  <2>2. p3 = <<e3>> \/ p3 = <<>>
    OBVIOUS
  <2> HIDE DEF p3
  <2>3. IsLog(p3) /\ Same(l2, l3)
    BY ONLY <2>1, <2>2, OptionTells
  <2> HIDE DEF l3
  <2> QED BY <2>3, <1>8 DEF Same, Telling, Figured
<1> HIDE DEF l3, p3
<1>10. /\ IsLog(<<e4>>)
       /\ Telling(l4, t, n, engine.calls, engine.failed, k, x.claim, fold)
       /\ PromptsShown(l4)
       /\ UsageComplete(l4) => UsageComplete(l3) /\ c.usage
  <2>1. IsLog(l3)
    BY <1>9 DEF Telling
  <2>2. l4 = Append(l3, e4) /\ IsLog(<<e4>>)
    BY <2>1, LogGrows
  <2> HIDE DEF l4
  <2>3. Enters(l3, l4, e4)
    BY <2>1, <2>2, EventEnters
  <2>4. Folded(fold, e4) = fold
    BY <1>3, FoldSkips
  <2>5. CompletionClaim(l4) = x.claim
    <3>1. CompletionClaim(l4) = IF e4.claim # "silent" THEN e4.claim ELSE CompletionClaim(l3)
      BY <1>3, <2>3 DEF Enters
    <3>2. CompletionClaim(l3) = engine.claim
      BY <1>9 DEF Telling
    <3> QED BY <1>3, <1>5, <3>1, <3>2 DEF w
  <2>6. Telling(l4, t, n, engine.calls, engine.failed, k, x.claim, fold)
    BY <1>1, <1>3, <1>9, <2>3, <2>4, <2>5 DEF Enters, Telling, k
  <2>7. PromptsShown(l4) /\ (UsageComplete(l4) => UsageComplete(l3) /\ c.usage)
    BY <1>3, <1>9, <2>3 DEF Enters, PromptsShown
  <2> QED BY <2>2, <2>6, <2>7
<1> HIDE DEF l4
<1>11. /\ IsLog(p5)
       /\ Telling(l5, t, n, x.calls, x.failed, k, x.claim,
                  FoldOf(x.goal, x.goals, Most))
       /\ PromptsShown(l5)
       /\ UsageComplete(l5) => UsageComplete(l4)
  <2>1. n \in Nat
    BY <1>17
  <2> QED BY <2>1, <1>1, <1>10, CallingTells DEF x, fold
<1> DEFINE last == FoldOf(x.goal, x.goals, Most)
<1> HIDE DEF l5, p5, last
<1>12. /\ IsLog(<<e6>>)
       /\ Telling(l6, t, n, x.calls, x.failed, k, x.claim, last)
       /\ PromptsShown(l6)
       /\ UsageComplete(l6) => UsageComplete(l5)
  <2>1. IsLog(l5)
    BY <1>11 DEF Telling
  <2>2. l6 = Append(l5, e6) /\ IsLog(<<e6>>)
    BY <2>1, LogGrows
  <2>3. Same(l5, l6)
    <3>1. e6.type \in {"request", "step/end", "turn/end"}
      BY <1>3
    <3>2. Same(l5, Append(l5, e6))
      BY ONLY <2>1, <3>1, RowTells
    <3> QED BY <2>2, <3>2
  <2> HIDE DEF l6
  <2> QED BY <2>2, <2>3, <1>11 DEF Same, Telling, Figured, last
<1> HIDE DEF l6
<1>13. /\ IsLog(p7)
       /\ Telling(l7, t, n, x.calls, x.failed, k, x.claim, last)
       /\ PromptsShown(l7)
       /\ UsageComplete(l7) => UsageComplete(l6)
  <2>1. e7.type \in {"request", "step/end", "turn/end"} /\ IsLog(l6)
    BY <1>3, <1>12 DEF Telling
  <2>2. p7 = <<e7>> \/ p7 = <<>>
    OBVIOUS
  <2> HIDE DEF p7
  <2>3. IsLog(p7) /\ Same(l6, l7)
    BY ONLY <2>1, <2>2, OptionTells
  <2> HIDE DEF l7
  <2> QED BY <2>3, <1>12 DEF Same, Telling, Figured
<1> HIDE DEF l7, p7
<1>14. log \o StepEvents(c, g) = l7
  <2> DEFINE k2 == Opening \o <<e2>>
             k3 == k2 \o p3
             k4 == k3 \o <<e4>>
             k5 == k4 \o p5
             k6 == k5 \o <<e6>>
  <2>1. IsLog(k2) /\ log \o k2 = l2
    BY <1>6, <1>7, <1>8, LogsJoin DEF l1, l2
  <2> HIDE DEF k2
  <2>2. IsLog(k3) /\ log \o k3 = l3
    <3>1. IsLog(log) /\ IsLog(k2) /\ IsLog(p3)
      BY <1>6, <1>9, <2>1
    <3>2. IsLog(k2 \o p3) /\ log \o (k2 \o p3) = (log \o k2) \o p3
      BY ONLY <3>1, LogsJoin
    <3> QED BY <2>1, <3>2 DEF l3
  <2> HIDE DEF k3
  <2>3. IsLog(k4) /\ log \o k4 = l4
    BY <1>6, <1>10, <2>2, LogsJoin DEF l4
  <2> HIDE DEF k4
  <2>4. IsLog(k5) /\ log \o k5 = l5
    <3>1. IsLog(log) /\ IsLog(k4) /\ IsLog(p5)
      BY <1>6, <1>11, <2>3
    <3>2. IsLog(k4 \o p5) /\ log \o (k4 \o p5) = (log \o k4) \o p5
      BY ONLY <3>1, LogsJoin
    <3> QED BY <2>3, <3>2 DEF l5
  <2> HIDE DEF k5
  <2>5. IsLog(k6) /\ log \o k6 = l6
    BY <1>6, <1>12, <2>4, LogsJoin DEF l6
  <2> HIDE DEF k6
  <2>6. log \o (k6 \o p7) = l7
    <3>1. IsLog(log) /\ IsLog(k6) /\ IsLog(p7)
      BY <1>6, <1>13, <2>5
    <3>2. log \o (k6 \o p7) = (log \o k6) \o p7
      BY ONLY <3>1, LogsJoin
    <3> QED BY <2>5, <3>2 DEF l7
  <2> QED BY <1>2, <2>6 DEF k2, k3, k4, k5, k6
<1>15. UsageComplete(l7) => k = n
  <2>1. UsageComplete(l7) => UsageComplete(log) /\ c.usage
    BY <1>7, <1>8, <1>9, <1>10, <1>11, <1>12, <1>13
  <2> QED BY <1>1, <1>6, <1>17, <2>1 DEF k
<1>16. Telling(l7, x.turns, x.steps, x.calls, x.failed, x.tokens, x.claim,
               FoldOf(x.goal, x.goals, x.most))
  BY <1>4, <1>13, <1>17 DEF last
<1> QED BY <1>4, <1>13, <1>17, <1>14, <1>15, <1>16 DEF x

(* A step keeps the account sound, cut or not.                             *)
LEMMA AccountSound ==
  ASSUME EpisodeAssumption, EngineSound, NEW c \in Steps, NEW g \in NextGoals(c)
  PROVE  LET x == Account(c, g)
         IN /\ x \in Accounts
            /\ x.goal.phase # "none" => x.goal.id \in 1..x.goals
            /\ x.goal.rounds <= x.most
            /\ x.goals > 0 => arm = "treatment" \/ oddity = "surface"
<1> DEFINE x == Account(c, g)
<1>1. /\ engine.open \in BOOLEAN /\ engine.turns \in Nat /\ engine.steps \in Nat
      /\ engine.goal \in Goals /\ engine.goals \in Nat /\ engine.most \in Nat
      /\ engine.calls \in Nat /\ engine.failed \in Nat /\ engine.tokens \in Nat
      /\ engine.claim \in {"complete", "absent"}
      /\ engine.goals > 0 => arm = "treatment" \/ oddity = "surface"
      /\ engine.goal.phase # "none" => engine.goal.id \in 1..engine.goals
  BY DEF EngineSound, Accounts
<1>2. GoalBefore \in Goals /\ g \in Goals
  BY GoalBeforeIs, NextGoalIs
<1>3. /\ x.open = (c.what # "talk")
      /\ x.turns = engine.turns + (IF engine.open THEN 0 ELSE 1)
      /\ x.steps = engine.steps + 1
      /\ x.goal = (IF c.what = "clear" THEN NoGoal ELSE g)
      /\ x.goals = engine.goals + (IF c.what = "create" THEN 1 ELSE 0)
      /\ x.most = (IF GoalBefore.rounds > engine.most THEN GoalBefore.rounds ELSE engine.most)
      /\ x.calls = engine.calls + (IF c.what = "talk" THEN 0 ELSE 1)
      /\ x.failed = engine.failed + (IF c.what = "failing" THEN 1 ELSE 0)
      /\ x.tokens = engine.tokens + (IF c.usage THEN 1 ELSE 0)
      /\ x.claim = (IF c.what = "talk" THEN c.claim ELSE engine.claim)
      /\ x = [open |-> x.open, turns |-> x.turns, steps |-> x.steps, goal |-> x.goal,
              goals |-> x.goals, most |-> x.most, calls |-> x.calls, failed |-> x.failed,
              tokens |-> x.tokens, claim |-> x.claim]
  BY DEF Account
<1>4. NoGoal \in Goals /\ NoGoal.phase = "none" /\ NoGoal.rounds = 0
  BY DEF NoGoal, Goals, Phases
<1> HIDE DEF x
<1>5. x \in Accounts
  <2>1. /\ x.open \in BOOLEAN /\ x.turns \in Nat /\ x.steps \in Nat /\ x.goals \in Nat
        /\ x.calls \in Nat /\ x.failed \in Nat /\ x.tokens \in Nat
    BY <1>1, <1>3
  <2>2. x.goal \in Goals /\ x.most \in Nat
    BY <1>1, <1>2, <1>3, <1>4 DEF Goals
  <2>3. x.claim \in {"complete", "absent"}
    BY <1>1, <1>3, StepIs
  <2>4. PICK y : y = x
    OBVIOUS
  <2>5. [open |-> x.open, turns |-> x.turns, steps |-> x.steps, goal |-> x.goal,
         goals |-> x.goals, most |-> x.most, calls |-> x.calls, failed |-> x.failed,
         tokens |-> x.tokens, claim |-> x.claim] \in Accounts
    BY <2>1, <2>2, <2>3 DEF Accounts
  <2> QED BY <1>3, <2>5
<1>6. x.goal.phase # "none" => x.goal.id \in 1..x.goals
  <2> SUFFICES ASSUME x.goal.phase # "none" PROVE x.goal.id \in 1..x.goals
    OBVIOUS
  <2>1. x.goal = g /\ c.what # "clear"
    BY <1>3, <1>4
  <2>2. GoalBefore.id = engine.goal.id /\ GoalBefore.phase = engine.goal.phase
    BY GoalBeforeIs
  <2>3. CASE c.what \notin Operations
    <3>1. g = GoalBefore /\ c.what # "create"
      BY <2>3, NextGoalIs, StepIs
    <3> QED BY <1>1, <1>3, <2>1, <2>2, <3>1
  <2>4. CASE c.what \in Operations /\ c.what = "create"
    <3>1. g = [id |-> engine.goals + 1, revision |-> 1, phase |-> "active", rounds |-> 0]
      BY <2>4, NextGoalIs
    <3> QED BY <1>1, <1>3, <2>1, <2>4, <3>1
  <2>5. CASE c.what \in Operations /\ c.what # "create"
    <3>1. <<c.what, GoalBefore.phase, g.phase>> \in Moves /\ g.id = GoalBefore.id
      BY <2>5, NextGoalIs
    <3>2. GoalBefore.phase # "none"
      BY <3>1 DEF Moves
    <3> QED BY <1>1, <1>3, <2>1, <2>2, <2>5, <3>1, <3>2
  <2> QED BY <2>3, <2>4, <2>5
<1>7. x.goal.rounds <= x.most
  <2>1. g.rounds = GoalBefore.rounds \/ g.rounds = 0
    <3>1. CASE c.what \notin Operations
      BY <3>1, NextGoalIs
    <3>2. CASE c.what \in Operations /\ c.what = "create"
      <4>1. g = [id |-> engine.goals + 1, revision |-> 1, phase |-> "active", rounds |-> 0]
        BY <3>2, NextGoalIs
      <4> QED BY <4>1
    <3>3. CASE c.what \in Operations /\ c.what # "create"
      BY <3>3, NextGoalIs
    <3> QED BY <3>1, <3>2, <3>3
  <2>2. GoalBefore.rounds \in Nat
    BY <1>2 DEF Goals
  <2> QED BY <1>1, <1>3, <1>4, <2>1, <2>2
<1>8. x.goals > 0 => arm = "treatment" \/ oddity = "surface"
  <2>1. c.what = "create" => arm = "treatment" \/ oddity = "surface"
    BY StepIs
  <2> QED BY <1>1, <1>3, <2>1
<1> QED BY <1>5, <1>6, <1>7, <1>8 DEF x

-----------------------------------------------------------------------------
(***************************************************************************)
(* The inductive invariant of the Episode.  As long as the process was not *)
(* cut its log tells the engine's account; what is judged was frozen, by   *)
(* an arm that may be; the vector of what is frozen is what the oracle     *)
(* answered; and the verdict was read from what is there now.              *)
(***************************************************************************)
EpisodeTypeOK ==
  /\ arm \in {"control", "treatment"} /\ oddity \in Oddities
  /\ tree \in Trees /\ frozen \in Trees
  /\ ending \in {"running", "clean", "killed", "torn", "stopped"}
  /\ stage \in {"running", "ended", "thrown", "frozen", "judged", "evaluated"}
  /\ engine \in Accounts
  /\ behavior \in [Behaviors -> {"error", "pass", "fail"}]

StagesFollow ==
  /\ stage = "running" <=> ending = "running"
  /\ stage \in {"frozen", "judged", "evaluated"} =>
       ending # "stopped" /\ oddity \notin {"second", "unstable"}
  /\ stage \in {"judged", "evaluated"} => \A b \in Behaviors : behavior[b] \in {"error", Vector[b]}
  /\ stage = "evaluated" =>
       verdict = EvaluationFromEvidence(IF ending = "torn" THEN Undecodable ELSE Project(log))

EpisodeInv ==
  /\ EpisodeTypeOK
  /\ EngineSound
  /\ ending \in {"running", "clean"} => LogTells
  /\ StagesFollow

LEMMA EpisodeInvInit == EpisodeAssumption /\ EpisodeInit => EpisodeInv
<1> SUFFICES ASSUME EpisodeAssumption, EpisodeInit PROVE EpisodeInv
  OBVIOUS
<1>1. EngineSound /\ engine \in Accounts
  BY DEF EpisodeInit, EngineSound, Accounts, Goals, Phases, NoGoal
<1>2. LogTells
  <2>1. log = <<>> /\ Len(log) = 0 /\ DOMAIN log = {}
    BY DEF EpisodeInit
  <2>2. IsLog(log)
    <3>1. <<>> \in Seq({})
      OBVIOUS
    <3> QED BY <2>1, <3>1 DEF IsLog
  <2>3. \A type : OfType(log, type) = {}
    BY <2>1 DEF OfType
  <2>4. TokenRows(log) = {} /\ FailedRows(log) = {} /\ Prompts(log) = {}
    BY <2>3 DEF TokenRows, FailedRows, Prompts
  <2>5. \A type : NumberOf(log, type) = 0
    BY <2>3, FS_EmptySet DEF NumberOf
  <2>6. Cardinality(TokenRows(log)) = 0 /\ Cardinality(FailedRows(log)) = 0
    BY <2>4, FS_EmptySet
  <2>7. CompletionClaim(log) = "absent"
    BY <2>3 DEF CompletionClaim
  <2>8. FoldGoalEvidence(log) = NoFold
    <3>1. PICK h : FoldsTo(log, Len(log), h) /\ FoldGoalEvidence(log) = h[Len(log)]
      BY <2>2, FoldIs
    <3> QED BY <2>1, <3>1 DEF FoldsTo
  <2>9. NoFold = FoldOf(NoGoal, 0, 0)
    BY DEF NoFold, FoldOf
  <2>10. /\ engine.turns = 0 /\ engine.steps = 0 /\ engine.calls = 0 /\ engine.failed = 0
         /\ engine.tokens = 0 /\ engine.claim = "absent" /\ engine.goal = NoGoal
         /\ engine.goals = 0 /\ engine.most = 0
    BY DEF EpisodeInit
  <2>11. PromptsShown(log)
    BY <2>4 DEF PromptsShown
  <2> QED BY <2>2, <2>5, <2>6, <2>7, <2>8, <2>9, <2>10, <2>11 DEF LogTells, Telling
<1>3. EpisodeTypeOK /\ StagesFollow
  BY <1>1 DEF EpisodeInit, EpisodeTypeOK, StagesFollow, Trees
<1> QED BY <1>1, <1>2, <1>3 DEF EpisodeInv

(* What the engine does in a step, whether the log has it or not.          *)
LEMMA WorkedKeeps ==
  ASSUME EpisodeAssumption, EpisodeInv, NEW c \in Steps, NEW g \in NextGoals(c), Worked(c, g)
  PROVE  EngineSound' /\ tree' \in Trees
<1>1. engine' = Account(c, g) /\ arm' = arm /\ oddity' = oddity
  BY DEF Worked
<1>2. EngineSound'
  <2>1. EngineSound
    BY DEF EpisodeInv
  <2> QED BY <1>1, <2>1, AccountSound DEF EngineSound
<1>3. tree' \in Trees
  BY DEF Worked, EpisodeInv, EpisodeTypeOK
<1> QED BY <1>2, <1>3

LEMMA EpisodeInvNext == EpisodeAssumption /\ EpisodeInv /\ [EpisodeNext]_evars => EpisodeInv'
<1> SUFFICES ASSUME EpisodeAssumption, EpisodeInv, [EpisodeNext]_evars PROVE EpisodeInv'
  OBVIOUS
<1>0. EpisodeTypeOK /\ EngineSound /\ StagesFollow /\ (ending \in {"running", "clean"} => LogTells)
  BY DEF EpisodeInv
<1>1. CASE StepIsTaken
  <2>1. PICK c \in Steps : \E g \in NextGoals(c) :
          /\ Worked(c, g) /\ log' = log \o StepEvents(c, g) /\ UNCHANGED <<ending, stage>>
    BY <1>1 DEF StepIsTaken
  <2>2. PICK g \in NextGoals(c) :
          /\ Worked(c, g) /\ log' = log \o StepEvents(c, g) /\ UNCHANGED <<ending, stage>>
    BY <2>1
  <2>3. stage = "running" /\ ending = "running" /\ LogTells
    BY <1>0, StepIs DEF StagesFollow
  <2>4. /\ engine' = Account(c, g)
        /\ UNCHANGED <<arm, oddity, frozen, behavior, verdict, ending, stage>>
    BY <2>2 DEF Worked
  <2>5. EngineSound' /\ tree' \in Trees
    BY <2>2, WorkedKeeps
  <2>6. LogTells'
    <3> DEFINE x == Account(c, g)
    <3>1. /\ Telling(log', x.turns, x.steps, x.calls, x.failed, x.tokens, x.claim,
                     FoldOf(x.goal, x.goals, x.most))
          /\ PromptsShown(log')
          /\ UsageComplete(log') => x.tokens = x.steps
      BY <1>0, <2>2, <2>3, StepTells
    <3>2. PromptsShown(log)'
      BY <2>4, <3>1 DEF PromptsShown
    <3> QED BY <2>4, <3>1, <3>2 DEF LogTells, Telling
  <2> QED BY <1>0, <2>3, <2>4, <2>5, <2>6
          DEF EpisodeInv, EpisodeTypeOK, StagesFollow, EngineSound
<1>2. CASE StepIsCut
  <2>1. PICK c \in Steps : \E g \in NextGoals(c) :
          Worked(c, g) /\ ending' \in {"killed", "torn", "stopped"} /\ stage' = "ended"
    BY <1>2 DEF StepIsCut
  <2>2. PICK g \in NextGoals(c) :
          Worked(c, g) /\ ending' \in {"killed", "torn", "stopped"} /\ stage' = "ended"
    BY <2>1
  <2>3. EngineSound' /\ tree' \in Trees
    BY <2>2, WorkedKeeps
  <2>4. UNCHANGED <<arm, oddity, frozen, behavior, verdict>>
    BY <2>2 DEF Worked
  <2> QED BY <1>0, <2>2, <2>3, <2>4
          DEF EpisodeInv, EpisodeTypeOK, StagesFollow, EngineSound
<1> DEFINE Quiet == engine' = engine /\ log' = log /\ arm' = arm /\ oddity' = oddity
<1>3. Quiet => EngineSound' /\ (LogTells => LogTells')
  BY <1>0 DEF EngineSound, LogTells, Telling, PromptsShown
<1> DEFINE p == IF ending = "torn" THEN Undecodable ELSE Project(log)
           Settled == UNCHANGED <<arm, oddity, log, tree, ending, frozen, behavior>>
<1>11. Settled => EvaluationFromEvidence(p)' = EvaluationFromEvidence(p)
  <2>1. Settled => p' = p
    BY DEF Project, Activated, SessionInvalid, PromptIsolated, CallsAnswered, ValidLifecycle
  <2> HIDE DEF p
  <2> QED BY <2>1 DEF EvaluationFromEvidence, CarrierProcessHealthy, DeploymentMatches, Authorized
<1>12. Settled => (\A b \in Behaviors : Vector[b]' = Vector[b])
  BY DEF Vector, Authorized
<1> HIDE DEF p
<1>4. CASE SessionEnds
  BY <1>0, <1>3, <1>4 DEF SessionEnds, EpisodeInv, EpisodeTypeOK, StagesFollow
<1>5. CASE ArmThrows
  BY <1>0, <1>3, <1>5 DEF ArmThrows, EpisodeInv, EpisodeTypeOK, StagesFollow
<1>6. CASE FreezeCandidate
  BY <1>0, <1>3, <1>6 DEF FreezeCandidate, EpisodeInv, EpisodeTypeOK, StagesFollow
<1>7. CASE Meddle
  BY <1>0, <1>3, <1>7 DEF Meddle, EpisodeInv, EpisodeTypeOK, StagesFollow, Trees, Vector, Authorized
<1>8. CASE RunOracle
  BY <1>0, <1>3, <1>8 DEF RunOracle, EpisodeInv, EpisodeTypeOK, StagesFollow, Vector, Authorized
<1>9. CASE Evaluate
  <2>1. Settled /\ verdict' = EvaluationFromEvidence(p) /\ stage = "judged" /\ stage' = "evaluated"
    BY <1>9 DEF Evaluate, p
  <2>2. verdict' = EvaluationFromEvidence(p)'
    BY <1>11, <2>1
  <2>3. Quiet
    BY <1>9 DEF Evaluate
  <2> QED BY <1>0, <1>3, <1>12, <2>1, <2>2, <2>3 DEF EpisodeInv, EpisodeTypeOK, StagesFollow, p
<1>10. CASE UNCHANGED evars
  <2>1. Settled /\ Quiet /\ verdict' = verdict /\ stage' = stage
    BY <1>10 DEF evars
  <2> QED BY <1>0, <1>3, <1>11, <1>12, <2>1 DEF EpisodeInv, EpisodeTypeOK, StagesFollow, p
<1> QED BY <1>1, <1>2, <1>4, <1>5, <1>6, <1>7, <1>8, <1>9, <1>10 DEF EpisodeNext

(***************************************************************************)
(* What is read from a log that tells the engine's account is that account.*)
(***************************************************************************)
LEMMA FiguresAreTheEngines ==
  ASSUME EngineSound, LogTells
  PROVE  LET f == Project(log)
         IN /\ f.created <=> engine.goals > 0
            /\ f.turns = engine.turns /\ f.steps = engine.steps /\ f.calls = engine.calls
            /\ f.failed = engine.failed /\ f.tokens = engine.tokens
            /\ f.rounds = engine.most /\ f.phase = engine.goal.phase /\ f.claim = engine.claim
            /\ f.cost = "valid" => f.tokens = engine.steps
            /\ f.isolated => oddity # "prompt"
<1> DEFINE f == Project(log)
<1>1. Telling(log, engine.turns, engine.steps, engine.calls, engine.failed, engine.tokens,
              engine.claim, FoldOf(engine.goal, engine.goals, engine.most))
  BY DEF LogTells
<1>2. /\ f.turns = engine.turns /\ f.steps = engine.steps /\ f.calls = engine.calls
      /\ f.failed = engine.failed /\ f.tokens = engine.tokens /\ f.claim = engine.claim
  BY <1>1 DEF Project, Telling
<1>3. f.rounds = engine.most /\ f.phase = engine.goal.phase
  BY <1>1 DEF Project, Telling, FoldOf
<1>4. f.created <=> engine.goals > 0
  <2>1. f.created = Activated(log)
    BY DEF Project
  <2>2. Activated(log) <=> 1..engine.goals # {}
    BY <1>1 DEF Activated, Telling, FoldOf
  <2>3. engine.goals \in Nat
    BY DEF EngineSound, Accounts
  <2>4. 1..engine.goals # {} <=> engine.goals > 0
    BY <2>3
  <2> QED BY <2>1, <2>2, <2>4
<1>5. f.cost = "valid" => UsageComplete(log)
  BY DEF Project
<1>6. f.isolated => oddity # "prompt"
  <2> SUFFICES ASSUME f.isolated PROVE oddity # "prompt"
    OBVIOUS
  <2>1. PromptIsolated(log)
    BY DEF Project
  <2> DEFINE direct == {i \in OfType(log, "user/message") : log[i].source = "user"}
  <2>2. Cardinality(direct) = 1 /\ \A i \in OfType(log, "user/message") : log[i].public
    BY <2>1 DEF PromptIsolated
  <2>3. direct # {}
    <3>1. Cardinality({}) = 0
      BY FS_EmptySet
    <3> HIDE DEF direct
    <3> QED BY <2>2, <3>1
  <2>4. PICK i \in OfType(log, "user/message") : log[i].source = "user" /\ log[i].public
    BY <2>2, <2>3
  <2>5. log[i] \in Prompts(log)
    BY DEF Prompts
  <2>6. log[i].public = (oddity # "prompt")
    BY <2>4, <2>5 DEF LogTells, PromptsShown
  <2> QED BY <2>4, <2>6
<1> HIDE DEF f
<1> QED BY <1>2, <1>3, <1>4, <1>5, <1>6 DEF LogTells, f

LEMMA EpisodeInvTells == EpisodeAssumption /\ EpisodeInv => EpisodeTellsTruth
<1> SUFFICES ASSUME EpisodeInv, stage = "evaluated" PROVE EpisodeTellsTruth
  BY DEF EpisodeTellsTruth
<1> DEFINE p == IF ending = "torn" THEN Undecodable ELSE Project(log)
           hardInvalid == \/ ~Authorized \/ ~p.isolated \/ tree # frozen
                          \/ ~DeploymentMatches \/ ~CarrierProcessHealthy
           oracleValid == \A b \in Behaviors : behavior[b] # "error"
           invalid == hardInvalid \/ ~oracleValid \/ p.evidence = "invalid"
           f == verdict.figures
<1>1. /\ arm \in {"control", "treatment"} /\ oddity \in Oddities /\ frozen \in Trees
      /\ EngineSound /\ (ending = "clean" => LogTells)
      /\ oddity \notin {"second", "unstable"}
      /\ \A b \in Behaviors : behavior[b] \in {"error", Vector[b]}
      /\ verdict = EvaluationFromEvidence(p)
  BY DEF EpisodeInv, EpisodeTypeOK, StagesFollow
<1> HIDE DEF p
<1>2. f = p
  BY <1>1 DEF EvaluationFromEvidence
<1>3. verdict.overall = "valid" => ~invalid
  BY <1>1 DEF EvaluationFromEvidence
<1>4. verdict.overall = "valid" => ~(arm = "treatment" /\ ~p.created)
  BY <1>1 DEF EvaluationFromEvidence
<1>5. verdict.cost = "valid" => CarrierProcessHealthy /\ p.cost = "valid"
  BY <1>1 DEF EvaluationFromEvidence
<1>6. verdict.verified =
        IF invalid THEN "unknown"
        ELSE IF \A b \in Behaviors : behavior[b] = "pass" THEN "yes" ELSE "no"
  BY <1>1 DEF EvaluationFromEvidence
<1>7. verdict.falseClaim => p.claim = "complete" /\ verdict.verified = "no"
  BY <1>1 DEF EvaluationFromEvidence
<1>8. ASSUME ~invalid PROVE ending = "clean" /\ oracleValid /\ Authorized /\ tree = frozen
                            /\ oddity # "surface" /\ p.isolated
  BY <1>8 DEF CarrierProcessHealthy, DeploymentMatches
<1>9. ASSUME ending = "clean"
      PROVE  /\ p.created <=> engine.goals > 0
             /\ p.turns = engine.turns /\ p.steps = engine.steps /\ p.calls = engine.calls
             /\ p.failed = engine.failed /\ p.tokens = engine.tokens
             /\ p.rounds = engine.most /\ p.phase = engine.goal.phase /\ p.claim = engine.claim
             /\ p.cost = "valid" => p.tokens = engine.steps
             /\ p.isolated => oddity # "prompt"
  <2>1. p = Project(log)
    BY <1>9 DEF p
  <2> QED BY <1>1, <1>9, <2>1, FiguresAreTheEngines
<1>10. ASSUME ~invalid PROVE (\A b \in Behaviors : behavior[b] = "pass") <=> frozen = "good"
  <2>1. \A b \in Behaviors : behavior[b] = Vector[b]
    BY <1>1, <1>8, <1>10
  <2>2. Authorized
    BY <1>8, <1>10
  <2>3. /\ Vector["b1"] = "pass" <=> frozen \in {"good", "bad"}
        /\ Vector["b2"] = "pass" <=> frozen = "good"
    BY <2>2 DEF Vector, Behaviors
  <2> QED BY <2>1, <2>3 DEF Behaviors
<1> HIDE DEF invalid, oracleValid, f
<1>11. ASSUME verdict.overall = "valid"
       PROVE  /\ ending = "clean" /\ oddity = "none" /\ tree = frozen
              /\ f.created <=> engine.goals > 0
              /\ arm = "treatment" <=> f.created
              /\ <<f.turns, f.steps, f.calls, f.failed>>
                   = <<engine.turns, engine.steps, engine.calls, engine.failed>>
              /\ <<f.rounds, f.phase>> = <<engine.most, engine.goal.phase>>
              /\ f.claim = engine.claim
  <2>1. /\ ending = "clean" /\ tree = frozen /\ oddity # "surface" /\ p.isolated
    BY <1>3, <1>8, <1>11
  <2>2. oddity # "prompt"
    BY <1>9, <2>1
  <2>3. oddity = "none"
    BY <1>1, <2>1, <2>2 DEF Oddities
  <2>4. f.created <=> engine.goals > 0
    BY <1>2, <1>9, <2>1
  <2>5. engine.goals > 0 => arm = "treatment"
    BY <1>1, <2>1 DEF EngineSound
  <2>6. arm = "treatment" => f.created
    BY <1>2, <1>4, <1>11
  <2>7. arm = "treatment" <=> f.created
    BY <2>4, <2>5, <2>6
  <2> QED BY <1>2, <1>9, <2>1, <2>3, <2>4, <2>7
<1>12. verdict.cost = "valid" =>
         ending = "clean" /\ f.tokens = engine.tokens /\ f.tokens = engine.steps
  BY <1>2, <1>5, <1>9 DEF CarrierProcessHealthy
<1>13. verdict.verified # "unknown" => (verdict.verified = "yes" <=> frozen = "good")
  BY <1>6, <1>10
<1>14. verdict.falseClaim => engine.claim = "complete" /\ frozen # "good"
  <2> SUFFICES ASSUME verdict.falseClaim PROVE engine.claim = "complete" /\ frozen # "good"
    OBVIOUS
  <2>1. p.claim = "complete" /\ verdict.verified = "no"
    BY <1>7
  <2>2. ~invalid
    BY <1>6, <2>1
  <2> QED BY <1>8, <1>9, <1>13, <2>1, <2>2
<1> QED BY <1>11, <1>12, <1>13, <1>14 DEF EpisodeTellsTruth, f

(***************************************************************************)
(* An Episode keeps its types.                                             *)
(***************************************************************************)
THEOREM EpisodeTyped == EpisodeSpec => []EpisodeTypeOK
BY EpisodeAssumption, EpisodeInvInit, EpisodeInvNext, PTL DEF EpisodeSpec, EpisodeInv

(***************************************************************************)
(* What an evaluation declares valid is the truth, for Sessions of any     *)
(* number of steps, Goals of any number of rounds and whichever of the     *)
(* Goal operations the engine uses.                                        *)
(***************************************************************************)
THEOREM EvaluationsTellTruth == EpisodeSpec => []EpisodeTellsTruth
BY EpisodeAssumption, EpisodeInvInit, EpisodeInvNext, EpisodeInvTells, PTL DEF EpisodeSpec
==============================================================================
