----------------------------- MODULE Suite_proofs -----------------------------
(***************************************************************************)
(* Proofs about Suite, for any number of report commands.                  *)
(***************************************************************************)
EXTENDS Suite, TLAPS

(***************************************************************************)
(* What a step of a script has achieved once the process is past it.       *)
(***************************************************************************)
Achieved(s) ==
  /\ s.do = "write" => AllThere(s.files)
  /\ s.do = "reserve" => reserved
  /\ s.do = "reconstruct" => evidence # "disagreeing" /\ AllThere(Evidence)
  /\ s.do = "scan" => evidence # "leaking"
  /\ s.do = "replay" => evidence # "disagreeing" /\ AllThere(Evidence \cup Derived)

Working == {"next", "measuring", "writing", "declaring"}

(***************************************************************************)
(* The inductive invariant: a process is past a step only when the step    *)
(* has achieved what it is for, and a derived artifact is in flight only   *)
(* when all the evidence is there.                                         *)
(***************************************************************************)
StepInScript ==
  \A p \in Process :
    /\ mode[p] \in Working => step[p] \in 1 .. Len(Script(p))
    /\ mode[p] = "done" => step[p] = Len(Script(p)) + 1
    /\ mode[p] = "measuring" => p = Runner /\ RunScript[step[p]].do = "measure"

PastStepsAchieved ==
  \A p \in Process : \A k \in 1 .. Len(Script(p)) :
    k < step[p] => Achieved(Script(p)[k])

WritesOfStep ==
  \A p \in Process :
    /\ mode[p] \in {"next", "measuring", "done"} => pending[p] = {}
    /\ mode[p] = "writing" =>
         /\ Script(p)[step[p]].do = "write"
         /\ pending[p] \subseteq Script(p)[step[p]].files
         /\ \A f \in Script(p)[step[p]].files : f \in pending[p] \/ file[f] = "there"

InFlightFromEvidence ==
  \A p \in Process : \A f \in pending[p] \cap Derived :
    evidence # "leaking" /\ AllThere(Evidence)

ReservedLate == reserved => step[Runner] > 4

MeasuredLate == \A t \in measured : step[Runner] >= 3 + 2 * t

IInv ==
  /\ TypeOK
  /\ StepInScript
  /\ PastStepsAchieved
  /\ WritesOfStep
  /\ InFlightFromEvidence
  /\ DerivedFromEvidence
  /\ ReservedLate
  /\ MeasuredLate

-----------------------------------------------------------------------------
LEMMA ScriptLengths == Len(RunScript) = 13 /\ Len(ReportScript) = 6
BY DEF RunScript, ReportScript

LEMMA RunScriptSteps ==
  ASSUME NEW k \in 1 .. 13
  PROVE  /\ RunScript[k].do = "write" => k \in {1, 3, 6, 8, 10, 12}
         /\ k \in {1, 3, 6, 8, 10, 12} =>
              RunScript[k].do = "write" /\ RunScript[k].files \subseteq File \ Invalid
         /\ RunScript[k].do = "measure" => k \in {5, 7, 9}
         /\ k \in {5, 7, 9} => RunScript[k].task \in Task /\ k = 3 + 2 * RunScript[k].task
         /\ RunScript[k].do = "reserve" <=> k = 4
         /\ RunScript[k].do = "scan" <=> k = 11
         /\ RunScript[k].do = "replay" <=> k = 13
         /\ RunScript[k].do # "reconstruct"
         /\ RunScript[k].do \in {"write", "measure", "reserve", "scan", "replay", "ask"}
BY DEF RunScript, Write, Do, Measure, Task, File, Invalid, Evidence, Primary, Pointers,
       Derived

LEMMA RunScriptWrites ==
  /\ RunScript[1].files = Primary
  /\ RunScript[3].files = {"qualification"}
  /\ \A t \in Task : RunScript[4 + 2 * t].files = {PointerOf[t]}
  /\ RunScript[12].files = Derived
  /\ \A k \in {1, 3, 6, 8, 10} : RunScript[k].files \cap Derived = {}
  /\ \A f \in Evidence : \E k \in {1, 3, 6, 8, 10} : f \in RunScript[k].files
BY DEF RunScript, Write, Do, Measure, Task, PointerOf, Evidence, Primary, Pointers, Derived

LEMMA ReportScriptSteps ==
  ASSUME NEW k \in 1 .. 6
  PROVE  /\ ReportScript[k].do = "write" <=> k \in {3, 4, 5}
         /\ k \in {3, 4, 5} => ReportScript[k].files \subseteq Derived
         /\ ReportScript[k].do = "reconstruct" <=> k = 1
         /\ ReportScript[k].do = "scan" <=> k = 2
         /\ ReportScript[k].do = "replay" <=> k = 6
         /\ ReportScript[k].do \in {"write", "reconstruct", "scan", "replay"}
BY DEF ReportScript, Write, Do, Derived

LEMMA ReportScriptWrites ==
  \A f \in Derived : \E k \in {3, 4, 5} : f \in ReportScript[k].files
BY DEF ReportScript, Write, Do, Derived

LEMMA WrittenFiles ==
  ASSUME NEW p \in Process, NEW k \in 1 .. Len(Script(p)), Script(p)[k].do = "write"
  PROVE  Script(p)[k].files \subseteq File \ Invalid
<1>1. Derived \subseteq File \ Invalid
  BY DEF Derived, File, Invalid
<1>2. QED
  BY <1>1, RunScriptSteps, ReportScriptSteps, ScriptLengths DEF Script

-----------------------------------------------------------------------------
(***************************************************************************)
(* A step of one process, which leaves the others alone.                   *)
(***************************************************************************)
Act(p) ==
  \/ p = Runner /\ Run
  \/ p \in Reporters /\ Report(p)
  \/ Crash(p)

LEMMA NextIsAct ==
  ASSUME Next
  PROVE  \E p \in Process : Act(p)
BY Next DEF Next, Act, Process

LEMMA ActFrame ==
  ASSUME TypeOK, NEW p \in Process, Act(p)
  PROVE  /\ \A q \in Process : q # p =>
              step'[q] = step[q] /\ mode'[q] = mode[q] /\ pending'[q] = pending[q]
         /\ evidence' = evidence
         /\ \A f \in File : file[f] = "there" => file'[f] = "there"
         /\ reserved => reserved'
<1> USE DEF TypeOK, Proceed, Catch, Throw, Goto
<1>1. ASSUME Work(p)
      PROVE  /\ \A q \in Process : q # p =>
                  step'[q] = step[q] /\ mode'[q] = mode[q] /\ pending'[q] = pending[q]
             /\ evidence' = evidence
             /\ \A f \in File : file[f] = "there" => file'[f] = "there"
             /\ reserved' = reserved
  BY <1>1 DEF Work, Scan, Replay, IssueWrites, PublishArtifact, RefuseEnvelope,
     AwaitWrites, AwaitEnvelope
<1>2. CASE p = Runner /\ Run
  BY <1>1, <1>2 DEF Run, Ask, Reserve, BeginCampaign, EndCampaign, FailCampaign,
     OpenTemporary, RefuseArtifact
<1>3. CASE p \in Reporters /\ Report(p)
  BY <1>1, <1>3 DEF Report, Reconstruct
<1>4. CASE Crash(p)
  BY <1>4 DEF Crash
<1>5. QED
  BY <1>2, <1>3, <1>4, Act(p) DEF Act

(***************************************************************************)
(* How a process goes on.                                                  *)
(***************************************************************************)
Advances(p) ==
  /\ mode[p] \in {"next", "measuring", "writing"}
  /\ step'[p] = step[p] + 1
  /\ mode'[p] = IF step[p] = Len(Script(p)) THEN "done" ELSE "next"
  /\ pending'[p] = {}
  /\ \A k \in Nat : k = step[p] => Achieved(Script(p)[k])'

Issues(p) ==
  /\ At(p, "write")
  /\ mode'[p] = "writing"
  /\ step'[p] = step[p]
  /\ pending'[p] = Script(p)[step[p]].files

Begins(p) ==
  /\ p = Runner
  /\ At(p, "measure")
  /\ mode'[p] = "measuring"
  /\ step'[p] = step[p]
  /\ pending'[p] = pending[p]

KeepsOn(p) ==
  /\ mode'[p] = mode[p]
  /\ step'[p] = step[p]
  /\ pending'[p] \subseteq pending[p]
  /\ mode[p] = "writing" =>
       \A f \in File : f \in pending[p] => f \in pending'[p] \/ file'[f] = "there"

Ends(p) ==
  /\ mode[p] \in Working
  /\ mode'[p] \in {"declaring", "failed", "crashed"}
  /\ step'[p] = step[p]
  /\ pending'[p] \subseteq pending[p] \cup Invalid

LEMMA ActCases ==
  ASSUME IInv, NEW p \in Process, Act(p)
  PROVE  Advances(p) \/ Issues(p) \/ Begins(p) \/ KeepsOn(p) \/ Ends(p)
<1> USE DEF IInv, Goto
<1>1. /\ TypeOK
      /\ step \in [Process -> 1 .. 14] /\ pending \in [Process -> SUBSET File]
      /\ mode \in [Process -> {"next", "measuring", "writing", "declaring", "done",
                               "failed", "crashed"}]
      /\ file \in [File -> {"absent", "temporary", "there", TaskFailure,
                            IntegrityFailure}]
  BY DEF TypeOK
<1>2. mode[p] \in {"next", "measuring"} => pending[p] = {}
  BY DEF WritesOfStep
<1>3. ASSUME Proceed(p), mode[p] \in {"next", "measuring"},
             \A k \in Nat : k = step[p] => Achieved(Script(p)[k])'
      PROVE  Advances(p)
  BY <1>1, <1>2, <1>3 DEF Proceed, Advances
<1>4. ASSUME Throw(p), mode[p] \in {"next", "measuring"}
      PROVE  Ends(p)
  BY <1>1, <1>4 DEF Throw, Catch, Ends, Working
<1>5. CASE Scan(p)
  BY <1>3, <1>4, <1>5 DEF Scan, At, Achieved
<1>6. CASE Replay(p)
  BY <1>3, <1>4, <1>6 DEF Replay, At, Achieved, AllThere
<1>7. CASE IssueWrites(p)
  BY <1>1, <1>7 DEF IssueWrites, Issues
<1>8. ASSUME NEW f \in File, PublishArtifact(p, f)
      PROVE  KeepsOn(p)
  <2>1. mode[p] = "writing" => f \notin Invalid
    BY <1>8, WrittenFiles DEF PublishArtifact, Writes, WritesOfStep, StepInScript, Working
  <2>2. QED
    BY <1>1, <1>8, <2>1 DEF PublishArtifact, KeepsOn, Content
<1>9. ASSUME NEW f \in File, RefuseEnvelope(p, f)
      PROVE  KeepsOn(p) \/ Ends(p)
  <2>1. mode[p] # "writing"
    BY <1>9, WrittenFiles DEF RefuseEnvelope, Writes, WritesOfStep, StepInScript, Working
  <2>2. mode[p] \in {"declaring", "failed"}
    BY <1>1, <1>2, <1>9, <2>1 DEF RefuseEnvelope, Writes, WritesOfStep
  <2>3. QED
    BY <1>1, <1>9, <2>2 DEF RefuseEnvelope, KeepsOn, Ends, Working
<1>10. CASE AwaitWrites(p)
  <2>1. Script(p)[step[p]].do = "write" /\ AllThere(Script(p)[step[p]].files)
    BY <1>10 DEF AwaitWrites, WritesOfStep, AllThere
  <2>2. \A k \in Nat : k = step[p] => Achieved(Script(p)[k])'
    BY <1>10, <2>1 DEF AwaitWrites, Achieved, AllThere
  <2>3. QED
    BY <1>1, <1>10, <2>2 DEF AwaitWrites, Proceed, Advances
<1>11. CASE AwaitEnvelope(p)
  BY <1>1, <1>11 DEF AwaitEnvelope, Ends, Working
<1>12. ASSUME Work(p)
       PROVE  Advances(p) \/ Issues(p) \/ Begins(p) \/ KeepsOn(p) \/ Ends(p)
  <2>1. CASE \E f \in File : PublishArtifact(p, f) \/ RefuseEnvelope(p, f)
    BY <1>8, <1>9, <2>1
  <2>2. CASE Scan(p) \/ Replay(p)
    BY <1>5, <1>6, <2>2
  <2>3. CASE IssueWrites(p) \/ AwaitWrites(p) \/ AwaitEnvelope(p)
    BY <1>7, <1>10, <1>11, <2>3
  <2>4. QED
    BY <1>12, <2>1, <2>2, <2>3 DEF Work
<1>13. CASE p = Runner /\ Run
  <2>1. CASE Ask
    BY <1>3, <1>4, <1>13, <2>1 DEF Ask, At, Achieved
  <2>2. CASE Reserve
    BY <1>3, <1>4, <1>13, <2>2 DEF Reserve, At, Achieved
  <2>3. CASE BeginCampaign
    BY <1>1, <1>13, <2>3 DEF BeginCampaign, Begins
  <2>4. CASE EndCampaign
    BY <1>3, <1>13, <2>4 DEF EndCampaign, Achieved, StepInScript, Script
  <2>5. CASE FailCampaign
    BY <1>4, <1>13, <2>5 DEF FailCampaign
  <2>6. ASSUME NEW f \in File, OpenTemporary(f)
        PROVE  KeepsOn(p)
    BY <1>1, <1>13, <2>6 DEF OpenTemporary, KeepsOn
  <2>7. ASSUME NEW f \in File, RefuseArtifact(f)
        PROVE  KeepsOn(p) \/ Ends(p)
    BY <1>1, <1>13, <2>7 DEF RefuseArtifact, Catch, KeepsOn, Ends, Working
  <2>8. QED
    BY <1>12, <1>13, <2>1, <2>2, <2>3, <2>4, <2>5, <2>6, <2>7 DEF Run
<1>14. CASE p \in Reporters /\ Report(p)
  <2>1. CASE Reconstruct(p)
    BY <1>3, <1>4, <2>1 DEF Reconstruct, At, Achieved, AllThere
  <2>2. QED
    BY <1>12, <1>14, <2>1 DEF Report
<1>15. CASE Crash(p)
  BY <1>1, <1>15 DEF Crash, Ends, Working
<1>16. QED
  BY <1>13, <1>14, <1>15, Act(p) DEF Act

-----------------------------------------------------------------------------
LEMMA StepTypeOK ==
  ASSUME IInv, NEW p \in Process, Act(p)
  PROVE  TypeOK'
<1> USE DEF IInv
<1>1. Len(Script(p)) \in {6, 13}
  BY ScriptLengths DEF Script
<1>2. Advances(p) \/ Issues(p) \/ Begins(p) \/ KeepsOn(p) \/ Ends(p)
  BY ActCases
<1>3. step[p] \in 1 .. Len(Script(p)) \/ step'[p] = step[p]
  BY <1>2 DEF Advances, Issues, Begins, KeepsOn, Ends, StepInScript, Working
<1>4. /\ step' \in [Process -> 1 .. 14]
      /\ mode' \in [Process -> {"next", "measuring", "writing", "declaring", "done",
                                "failed", "crashed"}]
  <2>1. /\ DOMAIN step' = Process /\ step' = [q \in Process |-> step'[q]]
        /\ DOMAIN mode' = Process /\ mode' = [q \in Process |-> mode'[q]]
    BY Act(p) DEF TypeOK, Act, Run, Report, Work, Crash, Ask, Reserve, BeginCampaign,
       EndCampaign, FailCampaign, OpenTemporary, RefuseArtifact, Scan, Replay,
       IssueWrites, PublishArtifact, RefuseEnvelope, AwaitWrites, AwaitEnvelope,
       Reconstruct, Proceed, Throw, Catch, Goto
  <2>2. step'[p] \in 1 .. 14
    BY SMTT(30), <1>1, <1>2, <1>3 DEF Advances, Issues, Begins, KeepsOn, Ends, TypeOK
  <2>3. mode'[p] \in {"next", "measuring", "writing", "declaring", "done", "failed",
                      "crashed"}
    BY <1>2 DEF Advances, Issues, Begins, KeepsOn, Ends, TypeOK
  <2>4. \A q \in Process : q # p => step'[q] = step[q] /\ mode'[q] = mode[q]
    BY ActFrame
  <2>5. QED
    BY <2>1, <2>2, <2>3, <2>4 DEF TypeOK
<1>5. pending' \in [Process -> SUBSET File]
  <2>1. DOMAIN pending' = Process /\ pending' = [q \in Process |-> pending'[q]]
    BY Act(p) DEF TypeOK, Act, Run, Report, Work, Crash, Ask, Reserve, BeginCampaign,
       EndCampaign, FailCampaign, OpenTemporary, RefuseArtifact, Scan, Replay,
       IssueWrites, PublishArtifact, RefuseEnvelope, AwaitWrites, AwaitEnvelope,
       Reconstruct, Proceed, Throw, Catch, Goto
  <2>2. Issues(p) => Script(p)[step[p]].files \subseteq File
    BY WrittenFiles DEF Issues, At, StepInScript, Working
  <2>3. pending'[p] \subseteq File
    BY <1>2, <2>2 DEF Advances, Issues, Begins, KeepsOn, Ends, TypeOK, File
  <2>4. \A q \in Process : q # p => pending'[q] = pending[q]
    BY ActFrame
  <2>5. QED
    BY <2>1, <2>3, <2>4 DEF TypeOK
<1>6. file' \in [File -> {"absent", "temporary", "there", TaskFailure, IntegrityFailure}]
  BY Act(p) DEF TypeOK, Act, Run, Report, Work, Crash, Ask, Reserve, BeginCampaign,
     EndCampaign, FailCampaign, OpenTemporary, RefuseArtifact, Scan, Replay,
     IssueWrites, PublishArtifact, RefuseEnvelope, AwaitWrites, AwaitEnvelope,
     Reconstruct, Content, Reason
<1>7. measured' \subseteq Task
  <2>1. BeginCampaign => RunScript[step[Runner]].task \in Task
    <3>1. ASSUME BeginCampaign
          PROVE  step[Runner] \in 1 .. 13 /\ RunScript[step[Runner]].do = "measure"
      BY <3>1, ScriptLengths DEF BeginCampaign, At, StepInScript, Working, Script, Process
    <3>2. QED
      BY <3>1, RunScriptSteps
  <2>2. QED
    BY <2>1, Act(p) DEF TypeOK, Act, Run, Report, Work, Crash, Ask, Reserve,
       BeginCampaign, EndCampaign, FailCampaign, OpenTemporary, RefuseArtifact, Scan,
       Replay, IssueWrites, PublishArtifact, RefuseEnvelope, AwaitWrites,
       AwaitEnvelope, Reconstruct
<1>8. /\ stage' \in {"pre-measurement", "task-measurement", "derived-artifacts"}
      /\ cause' \in {"none", "infrastructure", "integrity"}
      /\ reserved' \in BOOLEAN
      /\ evidence' \in {"sound", "leaking", "disagreeing"}
  BY Act(p) DEF TypeOK, Act, Run, Report, Work, Crash, Ask, Reserve, BeginCampaign,
     EndCampaign, FailCampaign, OpenTemporary, RefuseArtifact, Scan, Replay,
     IssueWrites, PublishArtifact, RefuseEnvelope, AwaitWrites, AwaitEnvelope,
     Reconstruct
<1>9. QED
  BY <1>4, <1>5, <1>6, <1>7, <1>8 DEF TypeOK

LEMMA StepStepInScript ==
  ASSUME IInv, NEW p \in Process, Act(p)
  PROVE  StepInScript'
<1>1. SUFFICES ASSUME NEW q \in Process
               PROVE  /\ mode'[q] \in Working => step'[q] \in 1 .. Len(Script(q))
                      /\ mode'[q] = "done" => step'[q] = Len(Script(q)) + 1
                      /\ mode'[q] = "measuring" =>
                           q = Runner /\ RunScript[step'[q]].do = "measure"
  BY DEF StepInScript
<1>2. CASE q # p
  BY <1>2, ActFrame DEF IInv, StepInScript
<1>3. CASE q = p
  <2>1. Len(Script(q)) \in {6, 13} /\ step[q] \in 1 .. 14
    BY ScriptLengths DEF Script, IInv, TypeOK
  <2>2. CASE Advances(p)
    BY <1>3, <2>1, <2>2 DEF Advances, IInv, StepInScript, Working
  <2>3. CASE Issues(p) \/ KeepsOn(p) \/ Ends(p)
    BY <1>3, <2>1, <2>3 DEF Issues, At, KeepsOn, Ends, IInv, StepInScript, Working
  <2>4. CASE Begins(p)
    BY <1>3, <2>1, <2>4 DEF Begins, At, Script, IInv, StepInScript, Working
  <2>5. QED
    BY <2>2, <2>3, <2>4, ActCases
<1>4. QED
  BY <1>2, <1>3

(***************************************************************************)
(* What was achieved stays so.                                             *)
(***************************************************************************)
LEMMA StepPastStepsAchieved ==
  ASSUME IInv, NEW p \in Process, Act(p)
  PROVE  PastStepsAchieved'
<1>1. SUFFICES ASSUME NEW q \in Process, NEW k \in 1 .. Len(Script(q)), k < step'[q]
               PROVE  Achieved(Script(q)[k])'
  BY DEF PastStepsAchieved
<1>2. /\ evidence' = evidence
      /\ \A f \in File : file[f] = "there" => file'[f] = "there"
      /\ reserved => reserved'
  BY ActFrame DEF IInv
<1>3. k \in Nat /\ step[q] \in 1 .. 14
  BY ScriptLengths DEF Script, IInv, TypeOK
<1>4. CASE k < step[q]
  <2>1. Achieved(Script(q)[k])
    BY <1>4 DEF IInv, PastStepsAchieved
  <2>2. Script(q)[k].do = "write" => Script(q)[k].files \subseteq File
    BY WrittenFiles
  <2>3. Evidence \subseteq File /\ Derived \subseteq File
    BY DEF File
  <2>4. QED
    BY <1>2, <2>1, <2>2, <2>3 DEF Achieved, AllThere
<1>5. CASE ~(k < step[q])
  <2>1. q = p /\ Advances(p)
    BY <1>1, <1>5, ActCases, ActFrame DEF Issues, Begins, KeepsOn, Ends, IInv
  <2>2. k = step[q]
    BY <1>1, <1>3, <1>5, <2>1 DEF Advances
  <2>3. QED
    BY <1>3, <2>1, <2>2 DEF Advances
<1>6. QED
  BY <1>4, <1>5

LEMMA StepWritesOfStep ==
  ASSUME IInv, NEW p \in Process, Act(p)
  PROVE  WritesOfStep'
<1>1. SUFFICES ASSUME NEW q \in Process
               PROVE  /\ mode'[q] \in {"next", "measuring", "done"} => pending'[q] = {}
                      /\ mode'[q] = "writing" =>
                           /\ Script(q)[step'[q]].do = "write"
                           /\ pending'[q] \subseteq Script(q)[step'[q]].files
                           /\ \A f \in Script(q)[step'[q]].files :
                                f \in pending'[q] \/ file'[f] = "there"
  BY DEF WritesOfStep
<1>2. \A f \in File : file[f] = "there" => file'[f] = "there"
  BY ActFrame DEF IInv
<1>3. mode[q] = "writing" =>
        /\ Script(q)[step[q]].do = "write"
        /\ Script(q)[step[q]].files \subseteq File
        /\ pending[q] \subseteq Script(q)[step[q]].files
        /\ \A f \in Script(q)[step[q]].files : f \in pending[q] \/ file[f] = "there"
  BY WrittenFiles DEF IInv, WritesOfStep, StepInScript, Working
<1>4. mode[q] \in {"next", "measuring", "done"} => pending[q] = {}
  BY DEF IInv, WritesOfStep
<1>5. CASE q # p
  <2>1. step'[q] = step[q] /\ mode'[q] = mode[q] /\ pending'[q] = pending[q]
    BY <1>5, ActFrame DEF IInv
  <2>2. QED
    BY <1>2, <1>3, <1>4, <2>1
<1>6. CASE q = p
  <2>1. CASE Advances(p) \/ Ends(p)
    BY <1>6, <2>1 DEF Advances, Ends
  <2>2. CASE Issues(p)
    BY <1>6, <2>2 DEF Issues, At
  <2>3. CASE Begins(p)
    BY <1>4, <1>6, <2>3 DEF Begins, At
  <2>4. CASE KeepsOn(p)
    <3>1. step'[q] = step[q] /\ mode'[q] = mode[q] /\ pending'[q] \subseteq pending[q]
      BY <1>6, <2>4 DEF KeepsOn
    <3>2. ASSUME mode[q] = "writing", NEW f \in Script(q)[step[q]].files
          PROVE  f \in pending'[q] \/ file'[f] = "there"
      BY <1>2, <1>3, <1>6, <2>4, <3>2 DEF KeepsOn
    <3>3. QED
      BY <1>3, <1>4, <3>1, <3>2
  <2>5. QED
    BY <2>1, <2>2, <2>3, <2>4, ActCases
<1>7. QED
  BY <1>5, <1>6

(***************************************************************************)
(* A process that writes derived artifacts has been through the evidence.  *)
(***************************************************************************)
LEMMA DerivedComeLate ==
  ASSUME IInv, NEW p \in Process, At(p, "write"),
         Script(p)[step[p]].files \cap Derived # {}
  PROVE  evidence # "leaking" /\ AllThere(Evidence)
<1>1. step[p] \in 1 .. Len(Script(p)) /\ Script(p)[step[p]].do = "write"
  BY DEF At, IInv, StepInScript, Working
<1>2. CASE p = Runner
  <2>1. step[p] \in 1 .. 13 /\ RunScript[step[p]].do = "write"
        /\ RunScript[step[p]].files \cap Derived # {}
    BY <1>1, <1>2, ScriptLengths DEF Script
  <2>2. step[p] = 12
    BY <2>1, RunScriptSteps, RunScriptWrites
  <2>3. \A k \in 1 .. 13 : k < 12 => Achieved(RunScript[k])
    BY <1>2, <2>2, ScriptLengths DEF IInv, PastStepsAchieved, Script
  <2>4. evidence # "leaking"
    BY <2>3, RunScriptSteps DEF Achieved
  <2>5. ASSUME NEW f \in Evidence
        PROVE  file[f] = "there"
    <3>1. PICK k \in {1, 3, 6, 8, 10} : f \in RunScript[k].files
      BY RunScriptWrites
    <3>2. Achieved(RunScript[k]) /\ RunScript[k].do = "write"
      BY <2>3, RunScriptSteps
    <3>3. QED
      BY <3>1, <3>2 DEF Achieved, AllThere
  <2>6. QED
    BY <2>4, <2>5 DEF AllThere
<1>3. CASE p # Runner
  <2>1. step[p] \in 1 .. 6 /\ ReportScript[step[p]].do = "write"
    BY <1>1, <1>3, ScriptLengths DEF Script
  <2>2. step[p] > 2
    BY <2>1, ReportScriptSteps
  <2>3. \A k \in 1 .. 6 : k < step[p] => Achieved(ReportScript[k])
    BY <1>3, ScriptLengths DEF IInv, PastStepsAchieved, Script
  <2>4. Achieved(ReportScript[1]) /\ Achieved(ReportScript[2])
    BY <2>1, <2>2, <2>3
  <2>5. QED
    BY <2>4, ReportScriptSteps DEF Achieved
<1>4. QED
  BY <1>2, <1>3

LEMMA StepInFlight ==
  ASSUME IInv, NEW p \in Process, Act(p)
  PROVE  InFlightFromEvidence'
<1>1. SUFFICES ASSUME NEW q \in Process, NEW f \in pending'[q] \cap Derived
               PROVE  evidence' # "leaking" /\ AllThere(Evidence)'
  BY DEF InFlightFromEvidence
<1>2. evidence # "leaking" /\ AllThere(Evidence)
  <2>1. f \in pending[q] \/ (q = p /\ Issues(p))
    BY ActCases, ActFrame DEF IInv, Advances, Issues, Begins, KeepsOn, Ends, Derived,
       Invalid
  <2>2. QED
    BY <1>1, <2>1, DerivedComeLate DEF Issues, IInv, InFlightFromEvidence
<1>3. QED
  BY <1>2, ActFrame DEF IInv, AllThere, File

LEMMA StepDerived ==
  ASSUME IInv, NEW p \in Process, Act(p)
  PROVE  DerivedFromEvidence'
<1>1. SUFFICES ASSUME NEW f \in Derived, file'[f] # "absent"
               PROVE  evidence' # "leaking" /\ AllThere(Evidence)'
  BY DEF DerivedFromEvidence
<1>2. evidence # "leaking" /\ AllThere(Evidence)
  <2>1. CASE file[f] # "absent"
    BY <2>1 DEF IInv, DerivedFromEvidence
  <2>2. CASE file[f] = "absent"
    <3>1. f \in pending[p]
      <4>1. f \notin Pointers /\ file' # file
        BY <1>1, <2>2 DEF Derived, Pointers
      <4>2. \E g \in File : \/ PublishArtifact(p, g)
                            \/ p = Runner /\ (OpenTemporary(g) \/ RefuseArtifact(g))
        BY <4>1, Act(p) DEF Act, Run, Report, Work, Crash, Ask, Reserve, BeginCampaign,
           EndCampaign, FailCampaign, Scan, Replay, IssueWrites, RefuseEnvelope,
           AwaitWrites, AwaitEnvelope, Reconstruct
      <4>3. PICK g \in File : \/ PublishArtifact(p, g)
                              \/ p = Runner /\ (OpenTemporary(g) \/ RefuseArtifact(g))
        BY <4>2
      <4>4. \E v : file' = [file EXCEPT ![g] = v]
        BY <4>3 DEF PublishArtifact, OpenTemporary, RefuseArtifact
      <4>5. f = g
        BY <1>1, <2>2, <4>4 DEF IInv, TypeOK, Derived, File
      <4>6. g \in pending[p]
        BY <4>3 DEF PublishArtifact, OpenTemporary, RefuseArtifact, Writes
      <4>7. QED
        BY <4>5, <4>6
    <3>2. QED
      BY <3>1 DEF IInv, InFlightFromEvidence
  <2>3. QED
    BY <2>1, <2>2
<1>3. QED
  BY <1>2, ActFrame DEF IInv, AllThere, File

LEMMA StepOrder ==
  ASSUME IInv, NEW p \in Process, Act(p)
  PROVE  ReservedLate' /\ MeasuredLate'
<1>1. /\ Runner \in Process /\ step[Runner] \in 1 .. 14
      /\ step \in [Process -> 1 .. 14]
      /\ \A t \in measured : t \in Task
      /\ \A t \in Task : t \in Nat
  BY DEF Process, IInv, TypeOK, Task
<1>2. step'[Runner] >= step[Runner] /\ step'[Runner] \in Nat
  <2>1. step'[Runner] = step[Runner] \/ step'[Runner] = step[Runner] + 1
    <3>1. Advances(p) \/ step'[p] = step[p]
      BY ActCases DEF Issues, Begins, KeepsOn, Ends
    <3>2. p # Runner => step'[Runner] = step[Runner]
      BY <1>1, ActFrame DEF IInv
    <3>3. QED
      BY <3>1, <3>2 DEF Advances
  <2>2. QED
    BY <1>1, <2>1
<1>3. CASE Reserve
  <2>1. step[Runner] = 4
    BY <1>1, <1>3, RunScriptSteps, ScriptLengths DEF Reserve, At, IInv, StepInScript,
       Working, Script
  <2>2. reserved' => step'[Runner] = 5 \/ reserved
    <3>1. Proceed(Runner) => step'[Runner] = 5
      BY <1>1, <2>1 DEF Proceed
    <3>2. Proceed(Runner) \/ reserved' = reserved
      BY <1>3 DEF Reserve
    <3>3. QED
      BY <3>1, <3>2
  <2>3. QED
    BY <1>1, <1>2, <1>3, <2>2 DEF Reserve, IInv, ReservedLate, MeasuredLate
<1>4. CASE BeginCampaign
  <2>1. step[Runner] \in 1 .. 13 /\ RunScript[step[Runner]].do = "measure"
    BY <1>1, <1>4, ScriptLengths DEF BeginCampaign, At, IInv, StepInScript, Working,
       Script
  <2>2. /\ RunScript[step[Runner]].task \in Task
        /\ step[Runner] = 3 + 2 * RunScript[step[Runner]].task
    BY <2>1, RunScriptSteps
  <2>3. step' = step /\ reserved' = reserved
        /\ measured' = measured \cup {RunScript[step[Runner]].task}
    BY <1>4 DEF BeginCampaign
  <2>4. QED
    BY <1>1, <2>2, <2>3 DEF IInv, ReservedLate, MeasuredLate
<1>5. CASE ~Reserve /\ ~BeginCampaign
  <2>1. reserved' = reserved /\ measured' = measured
    BY <1>5, Act(p) DEF Act, Run, Report, Work, Crash, Ask, EndCampaign, FailCampaign,
       OpenTemporary, RefuseArtifact, Scan, Replay, IssueWrites, PublishArtifact,
       RefuseEnvelope, AwaitWrites, AwaitEnvelope, Reconstruct
  <2>2. QED
    BY <1>1, <1>2, <2>1 DEF IInv, ReservedLate, MeasuredLate
<1>6. QED
  BY <1>3, <1>4, <1>5

-----------------------------------------------------------------------------
LEMMA InitIInv ==
  ASSUME Init
  PROVE  IInv
<1>1. TypeOK
  <2>1. step \in [Process -> 1 .. 14] /\ mode \in [Process -> {"next"}]
        /\ pending \in [Process -> {{}}] /\ file \in [File -> {"absent"}]
    BY Init DEF Init
  <2>2. /\ stage = "pre-measurement" /\ cause = "none" /\ reserved = FALSE
        /\ measured = {} /\ evidence \in {"sound", "leaking", "disagreeing"}
    BY Init DEF Init
  <2>3. QED
    BY <2>1, <2>2 DEF TypeOK
<1>2. \A p \in Process : step[p] = 1 /\ mode[p] = "next" /\ pending[p] = {}
  BY Init DEF Init
<1>3. \A p \in Process : Len(Script(p)) \in {6, 13}
  BY ScriptLengths DEF Script
<1>4. StepInScript /\ WritesOfStep
  <2>1. \A p \in Process : step[p] \in 1 .. Len(Script(p))
    <3>1. \A n \in {6, 13} : 1 \in 1 .. n
      OBVIOUS
    <3>2. QED
      BY <1>2, <1>3, <3>1
  <2>2. QED
    BY <1>2, <2>1 DEF StepInScript, WritesOfStep
<1>5. PastStepsAchieved
  BY <1>2, <1>3 DEF PastStepsAchieved
<1>6. InFlightFromEvidence
  BY <1>2 DEF InFlightFromEvidence
<1>7. MeasuredLate /\ ReservedLate
  BY Init DEF Init, MeasuredLate, ReservedLate
<1>8. DerivedFromEvidence
  BY Init DEF Init, DerivedFromEvidence, File
<1>9. QED
  BY <1>1, <1>4, <1>5, <1>6, <1>7, <1>8 DEF IInv

LEMMA NextIInv ==
  ASSUME IInv, [Next]_vars
  PROVE  IInv'
<1>1. CASE UNCHANGED vars
  BY <1>1 DEF vars, IInv, TypeOK, StepInScript, PastStepsAchieved, Achieved, AllThere,
     WritesOfStep, InFlightFromEvidence, DerivedFromEvidence, ReservedLate, MeasuredLate
<1>2. CASE Next
  <2>1. PICK p \in Process : Act(p)
    BY <1>2, NextIsAct
  <2>2. QED
    BY <2>1, StepTypeOK, StepStepInScript, StepPastStepsAchieved, StepWritesOfStep,
       StepInFlight, StepDerived, StepOrder DEF IInv
<1>3. QED
  BY <1>1, <1>2, [Next]_vars

-----------------------------------------------------------------------------
(***************************************************************************)
(* Why the run ended, and what its envelope may say of it.  While no       *)
(* report command has declared the Suite invalid, an envelope is the       *)
(* run's, with the reason that its stage and its cause give.               *)
(***************************************************************************)
AtWork == {"next", "measuring", "writing", "done"}

CauseComesLast ==
  /\ mode[Runner] \in AtWork => cause = "none"
  /\ mode[Runner] = "measuring" => stage = "task-measurement"
  /\ cause # "none" => stage = "task-measurement"

NothingDeclaredBefore ==
  /\ stage # "pre-measurement" => measured # {}
  /\ stage = "pre-measurement" =>
       mode[Runner] # "declaring" /\ pending[Runner] \cap Invalid = {}

TaskFailureIsTrue == \A f \in Invalid : file[f] = TaskFailure => cause = "infrastructure"

EnvelopeOfRun ==
  ~ReporterDeclared => \A f \in Invalid :
    /\ file[f] \in {"absent", Reason(Runner)}
    /\ mode[Runner] \in AtWork \/ stage = "pre-measurement" => file[f] = "absent"
    /\ mode[Runner] \in {"declaring", "failed"} /\ stage # "pre-measurement" =>
         f \in pending[Runner] \/ file[f] = Reason(Runner)
    /\ mode[Runner] = "failed" => f \notin pending[Runner]

CInv == CauseComesLast /\ NothingDeclaredBefore /\ TaskFailureIsTrue /\ EnvelopeOfRun

LEMMA DeclaredStays ==
  ASSUME IInv, NEW p \in Process, Act(p), ReporterDeclared
  PROVE  ReporterDeclared'
<1>1. PICK r \in Reporters : mode[r] \in {"declaring", "failed", "crashed"}
  BY DEF ReporterDeclared
<1>2. mode'[r] \in {"declaring", "failed", "crashed"}
  <2>1. CASE r = p
    BY <1>1, <2>1, ActCases DEF Advances, Issues, Begins, KeepsOn, Ends, At
  <2>2. CASE r # p
    BY <1>1, <2>2, ActFrame DEF IInv, Process
  <2>3. QED
    BY <2>1, <2>2
<1>3. QED
  BY <1>2 DEF ReporterDeclared

LEMMA EnvelopeWriter ==
  ASSUME IInv, NEW p \in Process, NEW f \in pending[p], f \in Invalid
  PROVE  mode[p] \in {"declaring", "failed", "crashed"}
<1>1. mode[p] # "writing"
  BY WrittenFiles DEF IInv, WritesOfStep, StepInScript, Working
<1>2. QED
  BY <1>1 DEF IInv, WritesOfStep, TypeOK

LEMMA EnvelopeWritten ==
  ASSUME TypeOK, NEW p \in Process, Act(p), NEW f \in Invalid
  PROVE  file'[f] = file[f] \/ PublishArtifact(p, f)
<1>1. \A g \in File : file'[g] # file[g] => g \notin Invalid \/ PublishArtifact(p, g)
  <2>1. ASSUME NEW g \in File, PublishArtifact(p, g)
        PROVE  \A h \in File : file'[h] # file[h] => h = g
    BY <2>1 DEF PublishArtifact, TypeOK
  <2>2. ASSUME NEW g \in File, OpenTemporary(g) \/ RefuseArtifact(g)
        PROVE  \A h \in Invalid : file'[h] = file[h]
    BY <2>2 DEF OpenTemporary, RefuseArtifact, TypeOK, Invalid, Pointers, File
  <2>3. CASE \E g \in File : PublishArtifact(p, g)
    BY <2>1, <2>3
  <2>4. CASE \E g \in File : OpenTemporary(g) \/ RefuseArtifact(g)
    BY <2>2, <2>4
  <2>5. CASE ~(\E g \in File : PublishArtifact(p, g))
             /\ ~(\E g \in File : OpenTemporary(g) \/ RefuseArtifact(g))
    BY <2>5, Act(p) DEF Act, Run, Report, Work, Crash, Ask, Reserve, BeginCampaign,
       EndCampaign, FailCampaign, Scan, Replay, IssueWrites, RefuseEnvelope, AwaitWrites,
       AwaitEnvelope, Reconstruct
  <2>6. QED
    BY <2>3, <2>4, <2>5
<1>2. QED
  BY <1>1 DEF File

(***************************************************************************)
(* Another process may only declare, and it gives its own reason.          *)
(***************************************************************************)
LEMMA OthersKeepCause ==
  ASSUME IInv, CInv, NEW p \in Process, p # Runner, Act(p)
  PROVE  CInv'
<1>1. p \in Reporters /\ Runner \in Process
  BY DEF Process
<1>2. /\ mode'[Runner] = mode[Runner] /\ pending'[Runner] = pending[Runner]
      /\ stage' = stage /\ cause' = cause /\ measured' = measured
  <2>1. mode'[Runner] = mode[Runner] /\ pending'[Runner] = pending[Runner]
    BY <1>1, ActFrame DEF IInv
  <2>2. stage' = stage /\ cause' = cause /\ measured' = measured
    BY <1>1, Act(p) DEF Act, Report, Work, Crash, Scan, Replay, IssueWrites,
       PublishArtifact, RefuseEnvelope, AwaitWrites, AwaitEnvelope, Reconstruct
  <2>3. QED
    BY <2>1, <2>2
<1>3. ASSUME NEW f \in Invalid, file'[f] # file[f]
      PROVE  file'[f] = IntegrityFailure /\ ReporterDeclared
  <2>1. PublishArtifact(p, f)
    BY <1>3, EnvelopeWritten DEF IInv
  <2>2. f \in pending[p] /\ file'[f] = Reason(p)
    BY <2>1, <1>3 DEF PublishArtifact, Writes, Content, IInv, TypeOK, File
  <2>3. mode[p] \in {"declaring", "failed", "crashed"}
    BY <2>2, EnvelopeWriter
  <2>4. QED
    BY <1>1, <2>2, <2>3 DEF Reason, ReporterDeclared
<1>4. ReporterDeclared => ReporterDeclared'
  BY DeclaredStays
<1>5. CauseComesLast' /\ NothingDeclaredBefore'
  BY <1>2 DEF CInv, CauseComesLast, NothingDeclaredBefore
<1>6. TaskFailureIsTrue'
  BY <1>2, <1>3 DEF CInv, TaskFailureIsTrue, TaskFailure, IntegrityFailure
<1>7. EnvelopeOfRun'
  <2>1. SUFFICES ASSUME ~ReporterDeclared'
                 PROVE  EnvelopeOfRun'
    BY DEF EnvelopeOfRun
  <2>2. ~ReporterDeclared /\ \A f \in Invalid : file'[f] = file[f]
    BY <1>3, <1>4, <2>1
  <2>3. Reason(Runner)' = Reason(Runner)
    BY <1>2 DEF Reason
  <2>4. QED
    BY <1>2, <2>2, <2>3 DEF CInv, EnvelopeOfRun
<1>8. QED
  BY <1>5, <1>6, <1>7 DEF CInv

(***************************************************************************)
(* The run: the steps at work keep the cause unknown and declare nothing;  *)
(* a failure decides what the envelope will say; and then it is written.   *)
(***************************************************************************)
LEMMA RunKeepsCause ==
  ASSUME IInv, CInv, Act(Runner)
  PROVE  CInv'
<1>1. /\ Runner \in Process /\ TypeOK
      /\ step \in [Process -> 1 .. 14] /\ pending \in [Process -> SUBSET File]
      /\ mode \in [Process -> {"next", "measuring", "writing", "declaring", "done",
                               "failed", "crashed"}]
      /\ file \in [File -> {"absent", "temporary", "there", TaskFailure,
                            IntegrityFailure}]
  BY DEF IInv, TypeOK, Process
<1>2. /\ \A r \in Reporters : mode'[r] = mode[r]
      /\ ReporterDeclared' <=> ReporterDeclared
  <2>1. \A r \in Reporters : mode'[r] = mode[r]
    BY ActFrame, SuiteAssumption DEF IInv, Process
  <2>2. QED
    BY <2>1 DEF ReporterDeclared
<1>3. ASSUME mode[Runner] \in AtWork, mode'[Runner] \in AtWork \cup {"crashed"},
             UNCHANGED <<stage, cause, measured>>,
             pending'[Runner] \cap Invalid = {},
             mode'[Runner] = "measuring" => stage = "task-measurement"
      PROVE  CInv'
  <2>1. \A f \in Invalid : file'[f] = file[f]
    <3>1. ASSUME NEW f \in Invalid, PublishArtifact(Runner, f)
          PROVE  FALSE
      BY <1>1, <1>3, <3>1, EnvelopeWriter DEF PublishArtifact, Writes, AtWork
    <3>2. QED
      BY <1>1, <3>1, EnvelopeWritten
  <2>2. Reason(Runner)' = Reason(Runner)
    BY <1>3 DEF Reason
  <2>3. QED
    BY <1>2, <1>3, <2>1, <2>2 DEF CInv, CauseComesLast, NothingDeclaredBefore,
       TaskFailureIsTrue, EnvelopeOfRun, AtWork
<1>4. ASSUME mode[Runner] \in {"next", "measuring", "writing"},
             NEW inFlight \in SUBSET File, inFlight \cap Invalid = {},
             Catch(Runner, inFlight), UNCHANGED <<stage, measured>>,
             cause' = cause \/ (stage = "task-measurement" /\ cause' # "none")
      PROVE  CInv'
  <2>1. \A f \in Invalid : file'[f] = file[f] /\ file[f] # TaskFailure
    <3>1. ASSUME NEW f \in Invalid, PublishArtifact(Runner, f)
          PROVE  FALSE
      BY <1>1, <1>4, <3>1, EnvelopeWriter DEF PublishArtifact, Writes
    <3>2. QED
      BY <1>1, <1>4, <3>1, EnvelopeWritten DEF CInv, TaskFailureIsTrue, CauseComesLast, AtWork
  <2>2. IF stage = "pre-measurement"
          THEN mode'[Runner] = "failed" /\ pending'[Runner] = inFlight
          ELSE mode'[Runner] = "declaring" /\ pending'[Runner] = inFlight \cup Invalid
    BY <1>1, <1>4 DEF Catch, Goto
  <2>3. CauseComesLast' /\ NothingDeclaredBefore'
    BY <1>4, <2>2 DEF CInv, CauseComesLast, NothingDeclaredBefore, AtWork
  <2>4. TaskFailureIsTrue'
    BY <2>1 DEF TaskFailureIsTrue
  <2>5. EnvelopeOfRun'
    BY <1>2, <1>4, <2>1, <2>2 DEF CInv, EnvelopeOfRun, AtWork
  <2>6. QED
    BY <2>3, <2>4, <2>5 DEF CInv
<1>5. ASSUME mode[Runner] \in {"next", "measuring"}, Throw(Runner),
             UNCHANGED <<stage, measured>>,
             cause' = cause \/ (stage = "task-measurement" /\ cause' # "none")
      PROVE  CInv'
  <2>1. pending[Runner] = {}
    BY <1>1, <1>5 DEF IInv, WritesOfStep
  <2>2. QED
    BY <1>4, <1>5, <2>1 DEF Throw
<1>6. ASSUME mode[Runner] \in {"next", "measuring", "writing"}, Proceed(Runner),
             pending[Runner] = {}, UNCHANGED <<stage, cause, measured>>
      PROVE  CInv'
  BY <1>1, <1>3, <1>6 DEF Proceed, Goto, AtWork
<1>7. CASE Ask \/ Reserve \/ Scan(Runner) \/ Replay(Runner)
  <2>1. mode[Runner] = "next" /\ pending[Runner] = {}
    BY <1>1, <1>7 DEF Ask, Reserve, Scan, Replay, At, IInv, WritesOfStep
  <2>2. /\ Proceed(Runner) \/ Throw(Runner)
        /\ UNCHANGED <<stage, cause, measured>>
    BY <1>7 DEF Ask, Reserve, Scan, Replay
  <2>3. QED
    BY <1>5, <1>6, <2>1, <2>2
<1>8. CASE BeginCampaign
  <2>1. /\ mode[Runner] = "next" /\ mode'[Runner] = "measuring"
        /\ pending' = pending /\ file' = file /\ cause' = cause
        /\ stage' = "task-measurement" /\ measured' # {}
    BY <1>1, <1>8 DEF BeginCampaign, At, Goto
  <2>2. \A f \in Invalid : ~ReporterDeclared => file[f] = "absent"
    BY <2>1 DEF CInv, EnvelopeOfRun, AtWork
  <2>3. QED
    BY <1>2, <2>1, <2>2 DEF CInv, CauseComesLast, NothingDeclaredBefore,
       TaskFailureIsTrue, EnvelopeOfRun, AtWork
<1>9. CASE EndCampaign
  <2>1. /\ mode[Runner] = "measuring" /\ mode'[Runner] \in {"next", "done"}
        /\ pending' = pending /\ file' = file /\ cause' = cause
        /\ stage' = "derived-artifacts" /\ measured' = measured
    BY <1>1, <1>9 DEF EndCampaign, Proceed, Goto
  <2>2. /\ \A f \in Invalid : ~ReporterDeclared => file[f] = "absent"
        /\ cause = "none" /\ measured # {}
    BY <2>1 DEF CInv, EnvelopeOfRun, AtWork, CauseComesLast, NothingDeclaredBefore
  <2>3. QED
    BY <1>2, <2>1, <2>2 DEF CInv, CauseComesLast, NothingDeclaredBefore,
       TaskFailureIsTrue, EnvelopeOfRun, AtWork
<1>10. CASE FailCampaign
  BY <1>5, <1>10 DEF FailCampaign, CInv, CauseComesLast
<1>11. CASE IssueWrites(Runner)
  <2>1. /\ mode[Runner] = "next" /\ mode'[Runner] = "writing"
        /\ pending'[Runner] = Script(Runner)[step[Runner]].files
        /\ UNCHANGED <<stage, cause, measured>>
    BY <1>1, <1>11 DEF IssueWrites, At, Goto
  <2>2. pending'[Runner] \cap Invalid = {}
    BY <1>1, <1>11, <2>1, WrittenFiles DEF IssueWrites, At, IInv, StepInScript, Working
  <2>3. QED
    BY <1>3, <2>1, <2>2 DEF AtWork
<1>12. CASE AwaitWrites(Runner)
  BY <1>6, <1>12 DEF AwaitWrites
<1>13. ASSUME NEW f \in File, PublishArtifact(Runner, f) \/ OpenTemporary(f)
       PROVE  CInv'
  <2>1. /\ UNCHANGED <<mode, stage, cause, measured>>
        /\ \/ pending' = pending
           \/ PublishArtifact(Runner, f) /\ pending'[Runner] = pending[Runner] \ {f}
                /\ file'[f] = Content(Runner, f)
    BY <1>1, <1>13 DEF PublishArtifact, OpenTemporary
  <2>2. \A g \in Invalid : g # f \/ ~PublishArtifact(Runner, f) => file'[g] = file[g]
    BY <1>1, <1>13 DEF PublishArtifact, OpenTemporary, Invalid, File, Pointers
  <2>3. Reason(Runner)' = Reason(Runner)
    BY <2>1 DEF Reason
  <2>4. CASE f \in Invalid /\ PublishArtifact(Runner, f)
    <3>1. f \in pending[Runner] /\ file'[f] = Reason(Runner) /\ mode[Runner] \notin AtWork
      BY <1>1, <2>1, <2>4, EnvelopeWriter DEF PublishArtifact, Writes, Content, AtWork
    <3>2. stage # "pre-measurement"
      BY <2>4, <3>1 DEF CInv, NothingDeclaredBefore
    <3>3. Reason(Runner) = TaskFailure => cause = "infrastructure"
      BY DEF Reason, TaskFailure, IntegrityFailure
    <3>4. TaskFailureIsTrue'
      BY <2>1, <2>2, <3>1, <3>3 DEF CInv, TaskFailureIsTrue
    <3>5. EnvelopeOfRun'
      BY <1>2, <2>1, <2>2, <2>3, <2>4, <3>1, <3>2 DEF CInv, EnvelopeOfRun
    <3>6. QED
      BY <2>1, <3>4, <3>5, <2>4 DEF CInv, CauseComesLast, NothingDeclaredBefore
  <2>5. CASE f \notin Invalid \/ ~PublishArtifact(Runner, f)
    <3>1. \A g \in Invalid : file'[g] = file[g] /\ (g \in pending'[Runner] <=> g \in pending[Runner])
      BY <2>1, <2>2, <2>5
    <3>2. QED
      BY <1>2, <2>1, <2>3, <3>1 DEF CInv, CauseComesLast, NothingDeclaredBefore,
         TaskFailureIsTrue, EnvelopeOfRun
  <2>6. QED
    BY <2>4, <2>5
<1>14. ASSUME NEW f \in File, RefuseArtifact(f)
       PROVE  CInv'
  <2>1. f \notin Invalid /\ UNCHANGED <<stage, cause, measured>>
        /\ \A g \in Invalid : file'[g] = file[g]
    BY <1>1, <1>14 DEF RefuseArtifact, File
  <2>2. CASE mode[Runner] = "writing"
    <3>1. pending[Runner] \cap Invalid = {}
      BY <1>1, <2>2, EnvelopeWriter
    <3>2. QED
      BY <1>1, <1>4, <1>14, <2>1, <2>2, <3>1 DEF RefuseArtifact
  <2>3. CASE mode[Runner] # "writing"
    <3>1. mode' = mode /\ \A g \in Invalid : g \in pending'[Runner] <=> g \in pending[Runner]
      BY <1>1, <1>14, <2>1, <2>3 DEF RefuseArtifact
    <3>2. Reason(Runner)' = Reason(Runner)
      BY <2>1 DEF Reason
    <3>3. QED
      BY <1>2, <2>1, <3>1, <3>2 DEF CInv, CauseComesLast, NothingDeclaredBefore,
         TaskFailureIsTrue, EnvelopeOfRun
  <2>4. QED
    BY <2>2, <2>3
<1>15. ASSUME NEW f \in File, RefuseEnvelope(Runner, f)
       PROVE  CInv'
  <2>1. /\ f \in Invalid /\ f \in pending[Runner]
        /\ file[f] \notin {"absent", Reason(Runner)}
        /\ mode'[Runner] = "failed" /\ pending'[Runner] \subseteq pending[Runner]
        /\ UNCHANGED <<file, stage, cause, measured>>
    BY <1>1, <1>15 DEF RefuseEnvelope, Writes, Content, Goto
  <2>2. ReporterDeclared /\ ReporterDeclared'
    BY <1>2, <2>1 DEF CInv, EnvelopeOfRun
  <2>3. QED
    BY <2>1, <2>2 DEF CInv, CauseComesLast, NothingDeclaredBefore, TaskFailureIsTrue,
       EnvelopeOfRun, AtWork
<1>16. CASE AwaitEnvelope(Runner)
  <2>1. /\ mode[Runner] = "declaring" /\ mode'[Runner] = "failed"
        /\ pending[Runner] \cap Invalid = {}
        /\ UNCHANGED <<pending, file, stage, cause, measured>>
    BY <1>1, <1>16 DEF AwaitEnvelope, Goto
  <2>2. Reason(Runner)' = Reason(Runner)
    BY <2>1 DEF Reason
  <2>3. QED
    BY <1>2, <2>1, <2>2 DEF CInv, CauseComesLast, NothingDeclaredBefore,
       TaskFailureIsTrue, EnvelopeOfRun, AtWork
<1>17. CASE Crash(Runner)
  <2>1. /\ mode[Runner] # "failed" /\ mode'[Runner] = "crashed"
        /\ UNCHANGED <<pending, file, stage, cause, measured>>
    BY <1>1, <1>17 DEF Crash, Goto
  <2>2. Reason(Runner)' = Reason(Runner)
    BY <2>1 DEF Reason
  <2>3. QED
    BY <1>2, <2>1, <2>2 DEF CInv, CauseComesLast, NothingDeclaredBefore,
       TaskFailureIsTrue, EnvelopeOfRun, AtWork
<1>18. QED
  <2>1. Run \/ Crash(Runner)
    BY Act(Runner), SuiteAssumption DEF Act
  <2>2. QED
    BY <1>7, <1>8, <1>9, <1>10, <1>11, <1>12, <1>13, <1>14, <1>15, <1>16, <1>17, <2>1
    DEF Run, Work

LEMMA NextCInv ==
  ASSUME IInv, CInv, [Next]_vars
  PROVE  CInv'
<1>1. CASE UNCHANGED vars
  BY <1>1 DEF vars, CInv, CauseComesLast, NothingDeclaredBefore, TaskFailureIsTrue,
     EnvelopeOfRun, ReporterDeclared, Reason
<1>2. CASE Next
  BY <1>2, NextIsAct, OthersKeepCause, RunKeepsCause
<1>3. QED
  BY <1>1, <1>2, [Next]_vars


THEOREM Invariance == Spec => []IInv
<1>1. Init => IInv
  BY InitIInv
<1>2. IInv /\ [Next]_vars => IInv'
  BY NextIInv
<1>3. QED
  BY <1>1, <1>2, PTL DEF Spec

(***************************************************************************)
(* Type correctness of a Suite and its report commands.                    *)
(***************************************************************************)
THEOREM TypeCorrect == Spec => []TypeOK
<1>1. IInv => TypeOK
  BY DEF IInv
<1>2. QED
  BY <1>1, Invariance, PTL

(***************************************************************************)
(* Derived artifacts, of the run, of a report command or in flight, are    *)
(* only written next to complete evidence and without a secret.            *)
(***************************************************************************)
THEOREM DerivedIsGrounded == Spec => []DerivedFromEvidence
<1>1. IInv => DerivedFromEvidence
  BY DEF IInv
<1>2. QED
  BY <1>1, Invariance, PTL

(***************************************************************************)
(* The envelope of a Suite names what ended it: "task infrastructure       *)
(* failure" only and, unless a report command was first, always when that  *)
(* is so; a run that failed before it measured anything declares nothing   *)
(* (the catch block of runPhase2Suite).                                    *)
(***************************************************************************)
THEOREM EnvelopeTellsCause == Spec => []EnvelopeNamesCause
<1>1. Init => CInv
  <2>1. SUFFICES ASSUME Init
                 PROVE  CInv
    OBVIOUS
  <2>2. /\ Runner \in Process
        /\ mode[Runner] = "next" /\ pending[Runner] = {} /\ cause = "none"
        /\ stage = "pre-measurement" /\ \A f \in Invalid : file[f] = "absent"
    BY <2>1 DEF Init, Process, File
  <2>3. QED
    BY <2>2 DEF CInv, CauseComesLast, NothingDeclaredBefore, TaskFailureIsTrue,
       EnvelopeOfRun, TaskFailure
<1>2. IInv /\ CInv /\ [Next]_vars => CInv'
  BY NextCInv
<1>3. CInv => EnvelopeNamesCause
  <2>1. SUFFICES ASSUME CInv
                 PROVE  EnvelopeNamesCause
    OBVIOUS
  <2>2. ASSUME ~ReporterDeclared, mode[Runner] = "failed", cause = "infrastructure"
        PROVE  \A f \in Invalid : file[f] = TaskFailure
    <3>1. stage = "task-measurement"
      BY <2>1, <2>2 DEF CInv, CauseComesLast
    <3>2. QED
      BY <2>1, <2>2, <3>1 DEF CInv, EnvelopeOfRun, Reason
  <2>3. ASSUME ~ReporterDeclared, measured = {}
        PROVE  \A f \in Invalid : file[f] = "absent"
    BY <2>1, <2>3 DEF CInv, EnvelopeOfRun, NothingDeclaredBefore
  <2>4. QED
    BY <2>1, <2>2, <2>3 DEF EnvelopeNamesCause, CInv, TaskFailureIsTrue
<1>4. QED
  BY <1>1, <1>2, <1>3, Invariance, PTL DEF Spec

(***************************************************************************)
(* A completed run and a printed report rest on sound, complete evidence.  *)
(***************************************************************************)
THEOREM ReportsClosed == Spec => []ReportsAreClosed
<1>1. IInv => ReportsAreClosed
  <2>1. SUFFICES ASSUME IInv, NEW p \in Process, mode[p] = "done"
                 PROVE  evidence = "sound" /\ AllThere(Evidence \cup Derived)
    BY DEF ReportsAreClosed
  <2>2. \A k \in 1 .. Len(Script(p)) : Achieved(Script(p)[k])
    BY <2>1, ScriptLengths DEF IInv, StepInScript, PastStepsAchieved, Script
  <2>3. CASE p = Runner
    <3>1. Achieved(RunScript[11]) /\ Achieved(RunScript[13])
      <4>1. \A k \in 1 .. 13 : Achieved(RunScript[k])
        BY <2>2, <2>3, ScriptLengths DEF Script
      <4>2. QED
        BY <4>1
    <3>2. RunScript[11].do = "scan" /\ RunScript[13].do = "replay"
      BY RunScriptSteps
    <3>3. QED
      BY <2>1, <3>1, <3>2 DEF Achieved, IInv, TypeOK
  <2>4. CASE p # Runner
    <3>1. Achieved(ReportScript[2]) /\ Achieved(ReportScript[6])
      <4>1. \A k \in 1 .. 6 : Achieved(ReportScript[k])
        BY <2>2, <2>4, ScriptLengths DEF Script
      <4>2. QED
        BY <4>1
    <3>2. ReportScript[2].do = "scan" /\ ReportScript[6].do = "replay"
      BY ReportScriptSteps
    <3>3. QED
      BY <2>1, <3>1, <3>2 DEF Achieved, IInv, TypeOK
  <2>5. QED
    BY <2>3, <2>4
<1>2. QED
  BY <1>1, Invariance, PTL

(***************************************************************************)
(* Qualification, reservation and the tasks happen in their order, each on *)
(* top of what is durable before it.                                       *)
(***************************************************************************)
THEOREM FrozenBeforeMeasured == Spec => []MeasuredWhenFrozen
<1>1. IInv => MeasuredWhenFrozen
  <2>1. SUFFICES ASSUME IInv
                 PROVE  MeasuredWhenFrozen
    OBVIOUS
  <2>2. Runner \in Process /\ step[Runner] \in 1 .. 14
    BY <2>1 DEF Process, IInv, TypeOK
  <2>3. \A k \in 1 .. 13 : k < step[Runner] => Achieved(RunScript[k])
    BY <2>1, <2>2, ScriptLengths DEF IInv, PastStepsAchieved, Script
  <2>4. ASSUME reserved
        PROVE  AllThere(Primary \cup {"qualification"})
    <3>1. Achieved(RunScript[1]) /\ Achieved(RunScript[3])
      BY <2>1, <2>2, <2>3, <2>4 DEF IInv, ReservedLate
    <3>2. QED
      BY <3>1, RunScriptSteps, RunScriptWrites DEF Achieved, AllThere
  <2>5. ASSUME NEW t \in measured
        PROVE  reserved /\ \A u \in Task : u < t => file[PointerOf[u]] = "there"
    <3>1. t \in 1 .. 3 /\ step[Runner] >= 3 + 2 * t
      BY <2>1, <2>5 DEF IInv, TypeOK, Task, MeasuredLate
    <3>2. Achieved(RunScript[4])
      BY <2>2, <2>3, <3>1
    <3>3. ASSUME NEW u \in Task, u < t
          PROVE  file[PointerOf[u]] = "there"
      <4>1. 4 + 2 * u \in {6, 8} /\ 4 + 2 * u < step[Runner]
        BY <2>2, <3>1, <3>3 DEF Task
      <4>2. Achieved(RunScript[4 + 2 * u]) /\ RunScript[4 + 2 * u].do = "write"
        BY <2>3, <4>1, RunScriptSteps
      <4>3. QED
        BY <4>2, RunScriptWrites DEF Achieved, AllThere
    <3>4. QED
      BY <3>2, <3>3, RunScriptSteps DEF Achieved
  <2>6. QED
    BY <2>4, <2>5 DEF MeasuredWhenFrozen
<1>2. QED
  BY <1>1, Invariance, PTL

(***************************************************************************)
(* A report command given over complete, sound evidence stays on the path  *)
(* to "done".                                                              *)
(***************************************************************************)
THEOREM Rebuilds == Spec => RebuildsFromEvidence
<1>1. SUFFICES ASSUME NEW r \in Reporters
               PROVE  Spec => [](evidence = "sound" /\ AllThere(Evidence) /\ ~Begun(r)
                                   => [](mode[r] # "declaring"))
  BY DEF RebuildsFromEvidence
<1> DEFINE Given == evidence = "sound" /\ AllThere(Evidence) /\ ~Begun(r)
           OnPath == /\ evidence = "sound" /\ AllThere(Evidence)
                     /\ mode[r] \in {"next", "writing", "done", "crashed"}
                     /\ pending[r] \cap Invalid = {}
           Off == mode[r] # "declaring"
<1>2. IInv /\ Given => OnPath
  BY DEF Begun, IInv, WritesOfStep, Process
<1>3. OnPath => Off
  OBVIOUS
<1>4. IInv /\ OnPath /\ [Next]_vars => OnPath'
  <2>1. SUFFICES ASSUME IInv, OnPath, [Next]_vars
                 PROVE  OnPath'
    OBVIOUS
  <2>2. CASE UNCHANGED vars
    BY <2>1, <2>2 DEF vars, AllThere
  <2>3. CASE Next
    <3>1. PICK p \in Process : Act(p)
      BY <2>3, NextIsAct
    <3>2. evidence' = "sound" /\ AllThere(Evidence)'
      BY <2>1, <3>1, ActFrame DEF IInv, AllThere, File
    <3>3. r \in Process /\ r # Runner /\ Script(r) = ReportScript
      BY SuiteAssumption DEF Process, Script
    <3>4. CASE p # r
      BY <2>1, <3>1, <3>2, <3>3, <3>4, ActFrame DEF IInv
    <3>5. CASE p = r
      <4>1. Report(r) \/ Crash(r)
        BY <3>1, <3>3, <3>5 DEF Act
      <4>2. Report(r) => ~Ends(r)
        <5>1. ASSUME Replay(r)
              PROVE  AllThere(Evidence \cup Derived)
          <6>1. step[r] = 6
            BY <2>1, <3>3, <5>1, ReportScriptSteps, ScriptLengths DEF Replay, At, IInv,
               StepInScript, Working
          <6>2. \A k \in {3, 4, 5} : Achieved(ReportScript[k])
                  /\ ReportScript[k].do = "write"
            <7>1. \A k \in 1 .. 6 : k < 6 => Achieved(ReportScript[k])
              BY <2>1, <3>3, <6>1, ScriptLengths DEF IInv, PastStepsAchieved
            <7>2. QED
              BY <7>1, ReportScriptSteps
          <6>3. AllThere(Derived)
            BY <6>2, ReportScriptWrites DEF Achieved, AllThere
          <6>4. QED
            BY <2>1, <6>3 DEF AllThere
        <5>2. ASSUME Reconstruct(r) \/ Scan(r) \/ Replay(r)
              PROVE  step'[r] # step[r]
          BY <2>1, <3>3, <5>1, <5>2 DEF Reconstruct, Scan, Replay, Proceed, IInv, TypeOK
        <5>3. \A f \in File : ~RefuseEnvelope(r, f)
          BY <2>1 DEF RefuseEnvelope, Writes
        <5>4. ~AwaitEnvelope(r)
          BY <2>1 DEF AwaitEnvelope
        <5>5. ASSUME IssueWrites(r) \/ AwaitWrites(r)
                       \/ \E f \in File : PublishArtifact(r, f)
              PROVE  mode'[r] \notin {"declaring", "failed", "crashed"}
          <6>1. CASE IssueWrites(r) \/ AwaitWrites(r)
            BY <2>1, <3>3, <6>1 DEF IssueWrites, AwaitWrites, Proceed, Goto, IInv, TypeOK
          <6>2. CASE \E f \in File : PublishArtifact(r, f)
            BY <2>1, <6>2 DEF PublishArtifact, Writes
          <6>3. QED
            BY <5>5, <6>1, <6>2
        <5>6. ASSUME Report(r)
              PROVE  \/ Reconstruct(r) \/ Scan(r) \/ Replay(r)
                     \/ IssueWrites(r) \/ AwaitWrites(r)
                     \/ \E f \in File : PublishArtifact(r, f)
          BY <5>3, <5>4, <5>6 DEF Report, Work
        <5>7. QED
          BY <5>2, <5>5, <5>6 DEF Ends
      <4>3. CASE Crash(r)
        <5>1. mode'[r] = "crashed" /\ pending'[r] = pending[r]
          BY <2>1, <3>3, <4>3 DEF Crash, Goto, IInv, TypeOK
        <5>2. QED
          BY <2>1, <3>2, <5>1
      <4>4. CASE Report(r)
        <5>1. Advances(r) \/ Issues(r) \/ KeepsOn(r)
          BY <2>1, <3>1, <3>3, <3>5, <4>2, <4>4, ActCases DEF Begins
        <5>2. Issues(r) => pending'[r] \cap Invalid = {}
          BY <2>1, <3>3, WrittenFiles DEF Issues, At, IInv, StepInScript, Working
        <5>3. QED
          BY <2>1, <3>2, <5>1, <5>2 DEF Advances, Issues, KeepsOn
      <4>5. QED
        BY <4>1, <4>3, <4>4
    <3>6. QED
      BY <3>4, <3>5
  <2>4. QED
    BY <2>1, <2>2, <2>3
<1>5. QED
  BY <1>2, <1>3, <1>4, Invariance, PTL DEF Spec
=============================================================================
