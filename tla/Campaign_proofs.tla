--------------------------- MODULE Campaign_proofs ---------------------------
(***************************************************************************)
(* Proofs about Campaign, for any number of report commands.               *)
(***************************************************************************)
EXTENDS Campaign, TLAPS

(***************************************************************************)
(* The phase that the coordinator has persisted before each step.          *)
(***************************************************************************)
PhaseAt ==
  <<"absent", "prepared", "prepared", "prepared", "qualified", "arm_1_running",
    "arm_1_running", "arm_1_running", "arm_1_running", "arm_1_frozen",
    "arm_2_running", "arm_2_running", "arm_2_running", "arm_2_running",
    "arm_2_frozen", "oracle_running", "oracle_running", "oracle_running",
    "oracle_running", "oracle_running", "oracle_running", "oracle_running",
    "oracle_running", "projected", "projected", "projected", "projected",
    "reported">>

(***************************************************************************)
(* The inductive invariant: every write before the current step is         *)
(* complete, and the persisted phase is that of the step.                  *)
(***************************************************************************)
StepLive ==
  /\ mode \in {"next", "writing", "declaring", "declaring_markdown", "catching"}
       => step \in 1 .. 27
  /\ mode \in {"declaring", "declaring_markdown", "catching"} => step >= TryFrom

WritingStep ==
  mode = "writing" =>
    /\ Script[step].do = "write"
    /\ \A f \in Script[step].files : f \in pending \/ file[f] = Settled

WrittenSettled ==
  \A k \in 1 .. 27 :
    k < step /\ Script[k].do = "write"
      => \A f \in Script[k].files : file[f] = Settled

PhaseOfStep ==
  phase = PhaseAt[step] \/ (mode = "failed" /\ phase = "interrupted")

JudgedLate == judged # {} => step > 13

ReplayedSound == step > 26 => sound

PrintedClosed ==
  (\E r \in Reporters : command[r] = "printed") => Replayable(Evidence \cup Derived)

IInv ==
  /\ TypeOK
  /\ StepLive
  /\ WritingStep
  /\ WrittenSettled
  /\ PhaseOfStep
  /\ JudgedLate
  /\ ReplayedSound
  /\ PrintedClosed

-----------------------------------------------------------------------------
LEMMA ScriptLength == Len(Script) = 27
BY DEF Script

(***************************************************************************)
(* What the script does at each step, split in three to keep the provers   *)
(* fast.                                                                   *)
(***************************************************************************)
LEMMA ScriptSteps ==
  ASSUME NEW k \in 1 .. 27
  PROVE  /\ Script[k].do = "judge" => k \in {16, 17} /\ Script[k].arm \in Arm
         /\ Script[k].do = "scan" => k \in {7, 12, 19, 21}
         /\ Script[k].do = "write" => Script[k].files \subseteq File
         /\ Script[k].do = "move" =>
              /\ PhaseAt[k + 1] = Script[k].to
              /\ Script[k].to \in Transitions[PhaseAt[k]]
         /\ Script[k].do # "move" => PhaseAt[k + 1] = PhaseAt[k]
         /\ Script[k].do = "replay" <=> k = 26
         /\ PhaseAt[k] \in Phase /\ PhaseAt[k + 1] \in Phase
         /\ PhaseAt[k] # "reported"
         /\ PhaseAt[k] # "interrupted"
         /\ k >= TryFrom => "interrupted" \in Transitions[PhaseAt[k]]
<1> USE DEF Script, PhaseAt, Write, Move, Run, Judge, Scan, Replay, Transitions, Arm,
            File, Inputs, ArmFiles, OracleFiles, Evidence, Derived, Invalid, Phase,
            TryFrom
<1>1. CASE k \in 1 .. 9
  BY <1>1
<1>2. CASE k \in 10 .. 18
  BY <1>2
<1>3. CASE k \in 19 .. 27
  BY <1>3
<1>4. QED
  BY <1>1, <1>2, <1>3

(***************************************************************************)
(* Where the artifacts of the evidence and the reports are written.        *)
(***************************************************************************)
LEMMA ScriptWrites ==
  /\ \A k \in {2, 3, 8, 13, 18, 20, 22, 24, 25} : Script[k].do = "write"
  /\ Script[8].files = ArmFiles[1] /\ Script[13].files = ArmFiles[2]
  /\ \A f \in Evidence \cup Derived :
       \E k \in {2, 3, 8, 13, 18, 20, 22, 24, 25} : f \in Script[k].files
BY DEF Script, Write, Move, Run, Judge, Scan, Replay, Inputs, ArmFiles, OracleFiles,
       Evidence, Derived, Arm

(***************************************************************************)
(* A settled file stays settled and soundness is a fact of the evidence.   *)
(***************************************************************************)
LEMMA StepFrame ==
  ASSUME TypeOK, CampaignAssumption, Next
  PROVE  /\ sound' = sound
         /\ \A f \in File : file[f] = Settled => file'[f] = Settled
<1>1. /\ Absent # Settled
      /\ Coordinator # Settled
      /\ \A r \in Reporters : r # Settled
  BY CampaignAssumption
<1> USE DEF TypeOK, GotoCommand
<1>2. CASE Coordinate
  <2>1. CASE \/ MovePhase \/ RunArm \/ JudgeArm \/ ScanSecrets \/ ReplayReport
             \/ IssueWrites \/ AwaitWrites \/ MarkInterrupted
    BY <2>1 DEF MovePhase, RunArm, JudgeArm, ScanSecrets, ReplayReport, IssueWrites,
       AwaitWrites, MarkInterrupted
  <2>2. ASSUME NEW f \in File, LinkArtifact(f) \/ SettleArtifact(f) \/ RefuseArtifact(f)
        PROVE  sound' = sound /\ \A g \in File : file[g] = Settled => file'[g] = Settled
    BY <1>1, <2>2 DEF LinkArtifact, SettleArtifact, RefuseArtifact
  <2>3. CASE DeclareInvalid
    BY <1>1, <2>3 DEF DeclareInvalid, WriteInvalid, LinkInvalid, SettleInvalid,
       DeclaredInvalid, DeclareRefused
  <2>4. QED
    BY <1>2, <2>1, <2>2, <2>3 DEF Coordinate
<1>3. CASE CrashCoordinator
  BY <1>3 DEF CrashCoordinator
<1>4. ASSUME NEW r \in Reporters, Report(r) \/ CrashCommand(r)
      PROVE  sound' = sound /\ \A f \in File : file[f] = Settled => file'[f] = Settled
  BY <1>1, <1>4 DEF Report, CrashCommand, ReadPointers, ReplayEvidence, RewriteDerived,
     VerifyReport, LinkDeclaration, SettleDeclaration, RefuseDeclaration
<1>5. QED
  BY <1>2, <1>3, <1>4, Next DEF Next

(***************************************************************************)
(* Report commands leave the coordinator's variables alone.                *)
(***************************************************************************)
LEMMA CommandFrame ==
  ASSUME TypeOK, NEW r \in Reporters, Report(r) \/ CrashCommand(r)
  PROVE  /\ UNCHANGED <<phase, step, mode, pending, sound, judged>>
         /\ \A q \in Reporters : q # r => command'[q] = command[q]
         /\ command'[r] = "printed" => Replayable(Evidence \cup Derived)
BY DEF TypeOK, GotoCommand, Report, CrashCommand, ReadPointers, ReplayEvidence,
   RewriteDerived, VerifyReport, LinkDeclaration, SettleDeclaration, RefuseDeclaration,
   After, CommandEnded, Derived

LEMMA CoordinateFrame ==
  ASSUME Coordinate \/ CrashCoordinator
  PROVE  command' = command
BY DEF Coordinate, CrashCoordinator, MovePhase, RunArm, JudgeArm, ScanSecrets,
   ReplayReport, IssueWrites, AwaitWrites, MarkInterrupted, LinkArtifact,
   SettleArtifact, RefuseArtifact, DeclareInvalid, WriteInvalid, LinkInvalid,
   SettleInvalid, DeclaredInvalid, DeclareRefused

-----------------------------------------------------------------------------
(***************************************************************************)
(* The part of the invariant that only coordinator steps can disturb, one  *)
(* action at a time.                                                       *)
(***************************************************************************)
CoordinatorInv ==
  /\ phase \in Phase
  /\ step \in 1 .. 28
  /\ mode \in {"next", "writing", "declaring", "declaring_markdown", "catching",
               "done", "failed", "crashed"}
  /\ pending \subseteq File
  /\ judged \subseteq Arm
  /\ StepLive
  /\ PhaseOfStep
  /\ JudgedLate
  /\ ReplayedSound

LEMMA StepCoordinatorInv ==
  ASSUME IInv, CampaignAssumption, Coordinate \/ CrashCoordinator
  PROVE  CoordinatorInv'
<1>1. CoordinatorInv
  BY ScriptLength DEF IInv, TypeOK, CoordinatorInv
<1>2. ASSUME mode = "next"
      PROVE  /\ step \in 1 .. 27
             /\ phase = PhaseAt[step]
  BY <1>1, <1>2 DEF CoordinatorInv, StepLive, PhaseOfStep
<1>3. CASE MovePhase
  <2>1. step \in 1 .. 27 /\ Script[step].do = "move"
    BY <1>2, <1>3 DEF MovePhase, At
  <2>2. phase' = PhaseAt[step + 1] /\ phase' \in Phase
    BY <1>3, <2>1, ScriptSteps DEF MovePhase
  <2>3. mode' = (IF step = 27 THEN "done" ELSE "next")
    BY <1>3, ScriptLength DEF MovePhase, Proceed
  <2>4. step # 26
    BY <2>1, ScriptSteps
  <2>5. QED
    BY <1>1, <1>3, <2>1, <2>2, <2>3, <2>4 DEF MovePhase, Proceed, CoordinatorInv, StepLive,
       PhaseOfStep, JudgedLate, ReplayedSound
<1>4. CASE RunArm
  <2>1. step \in 1 .. 27 /\ Script[step].do = "run" /\ phase = PhaseAt[step]
    BY <1>2, <1>4 DEF RunArm, At
  <2>2. step # 26 /\ step # 27 /\ PhaseAt[step + 1] = PhaseAt[step]
    <3>1. step # 27
      BY <2>1 DEF Script, Move
    <3>2. QED
      BY <2>1, <3>1, ScriptSteps
  <2>3. QED
    BY <1>1, <1>4, <2>1, <2>2, ScriptLength DEF RunArm, Proceed, Throw, TryFrom, CoordinatorInv,
       StepLive, PhaseOfStep, JudgedLate, ReplayedSound
<1>5. CASE JudgeArm
  <2>1. step \in 1 .. 27 /\ Script[step].do = "judge" /\ phase = PhaseAt[step]
    BY <1>2, <1>5 DEF JudgeArm, At
  <2>2. step \in {16, 17} /\ Script[step].arm \in Arm
        /\ PhaseAt[step + 1] = PhaseAt[step]
    BY <2>1, ScriptSteps
  <2>3. QED
    BY <1>1, <1>5, <2>1, <2>2, ScriptLength DEF JudgeArm, Proceed, Throw, TryFrom, CoordinatorInv,
       StepLive, PhaseOfStep, JudgedLate, ReplayedSound
<1>6. CASE ScanSecrets
  <2>1. step \in 1 .. 27 /\ Script[step].do = "scan" /\ phase = PhaseAt[step]
    BY <1>2, <1>6 DEF ScanSecrets, At
  <2>2. step \in {7, 12, 19, 21} /\ PhaseAt[step + 1] = PhaseAt[step]
    BY <2>1, ScriptSteps
  <2>3. QED
    BY <1>1, <1>6, <2>1, <2>2, ScriptLength DEF ScanSecrets, Proceed, TryFrom, CoordinatorInv,
       StepLive, PhaseOfStep, JudgedLate, ReplayedSound
<1>7. CASE ReplayReport
  <2>1. step \in 1 .. 27 /\ Script[step].do = "replay" /\ phase = PhaseAt[step]
    BY <1>2, <1>7 DEF ReplayReport, At
  <2>2. step = 26 /\ PhaseAt[step + 1] = PhaseAt[step]
    BY <2>1, ScriptSteps
  <2>3. QED
    BY <1>1, <1>7, <2>1, <2>2, ScriptLength DEF ReplayReport, Replayable, Proceed, Throw, TryFrom,
       CoordinatorInv, StepLive, PhaseOfStep, JudgedLate, ReplayedSound
<1>8. CASE IssueWrites
  <2>1. step \in 1 .. 27 /\ Script[step].do = "write" /\ phase = PhaseAt[step]
    BY <1>2, <1>8 DEF IssueWrites, At
  <2>2. Script[step].files \subseteq File
    BY <2>1, ScriptSteps
  <2>3. QED
    BY <1>1, <1>8, <2>1, <2>2 DEF IssueWrites, CoordinatorInv, StepLive, PhaseOfStep,
       JudgedLate, ReplayedSound
<1>9. ASSUME NEW f \in File, LinkArtifact(f) \/ SettleArtifact(f) \/ RefuseArtifact(f)
      PROVE  CoordinatorInv'
  <2>1. /\ step' = step /\ phase' = phase /\ sound' = sound /\ judged' = judged
        /\ pending' \subseteq pending
        /\ mode' = mode \/ (mode = "writing" /\ mode' = "failed")
             \/ (mode = "writing" /\ mode' = "catching" /\ step >= TryFrom)
    BY <1>1, <1>9 DEF CoordinatorInv, TryFrom, LinkArtifact, SettleArtifact,
       RefuseArtifact, Throw
  <2>2. QED
    BY <1>1, <2>1 DEF CoordinatorInv, StepLive, PhaseOfStep, JudgedLate, ReplayedSound
<1>10. CASE AwaitWrites
  <2>1. step \in 1 .. 27 /\ Script[step].do = "write" /\ phase = PhaseAt[step]
    BY <1>1, <1>10, IInv DEF AwaitWrites, IInv, WritingStep, CoordinatorInv, StepLive,
       PhaseOfStep
  <2>2. step # 26 /\ step # 27 /\ PhaseAt[step + 1] = PhaseAt[step]
    <3>1. step # 27
      BY <2>1 DEF Script, Move
    <3>2. QED
      BY <2>1, <3>1, ScriptSteps
  <2>3. QED
    BY <1>1, <1>10, <2>1, <2>2, ScriptLength DEF AwaitWrites, Proceed, CoordinatorInv, StepLive,
       PhaseOfStep, JudgedLate, ReplayedSound
<1>11. CASE DeclareInvalid
  BY <1>1, <1>11 DEF DeclareInvalid, WriteInvalid, LinkInvalid, SettleInvalid,
     DeclaredInvalid, DeclareRefused, CoordinatorInv, StepLive, PhaseOfStep, JudgedLate,
     ReplayedSound
<1>12. CASE MarkInterrupted
  BY <1>1, <1>12 DEF MarkInterrupted, CoordinatorInv, StepLive, PhaseOfStep, JudgedLate,
     ReplayedSound, Phase
<1>13. CASE CrashCoordinator
  BY <1>1, <1>13 DEF CrashCoordinator, CoordinatorEnded, CoordinatorInv, StepLive,
     PhaseOfStep, JudgedLate, ReplayedSound
<1>14. QED
  BY <1>3, <1>4, <1>5, <1>6, <1>7, <1>8, <1>9, <1>10, <1>11, <1>12, <1>13,
     Coordinate \/ CrashCoordinator DEF Coordinate

(***************************************************************************)
(* The writes of the script: what has been awaited has settled.            *)
(***************************************************************************)
LEMMA StepWrites ==
  ASSUME IInv, CampaignAssumption, Coordinate \/ CrashCoordinator
  PROVE  WritingStep' /\ WrittenSettled'
<1>1. /\ TypeOK /\ StepLive /\ WritingStep /\ WrittenSettled
      /\ \A f \in File : file[f] = Settled => file'[f] = Settled
      /\ \A k \in 1 .. 27 : Script[k].do = "write" => Script[k].files \subseteq File
  BY StepFrame, ScriptSteps DEF IInv, Next
<1>2. CASE step' = step /\ ~IssueWrites
  <2>1. WrittenSettled'
    BY <1>1, <1>2 DEF WrittenSettled
  <2>2. mode' = "writing" => mode = "writing"
    BY <1>2, Coordinate \/ CrashCoordinator DEF Coordinate, CrashCoordinator, MovePhase,
       RunArm, JudgeArm, ScanSecrets, ReplayReport, AwaitWrites, MarkInterrupted,
       LinkArtifact, SettleArtifact, RefuseArtifact, DeclareInvalid, WriteInvalid,
       LinkInvalid, SettleInvalid, DeclaredInvalid, DeclareRefused, Proceed, Throw
  <2>3. ASSUME mode' = "writing", NEW f \in File, f \in pending
        PROVE  f \in pending' \/ file'[f] = Settled
    <3>1. CASE \E g \in File : LinkArtifact(g) \/ SettleArtifact(g) \/ RefuseArtifact(g)
      BY <1>1, <2>2, <2>3, <3>1 DEF LinkArtifact, SettleArtifact, RefuseArtifact, Throw,
         TypeOK
    <3>2. CASE ~\E g \in File : LinkArtifact(g) \/ SettleArtifact(g) \/ RefuseArtifact(g)
      BY <1>2, <2>3, <3>2, Coordinate \/ CrashCoordinator DEF Coordinate,
         CrashCoordinator, MovePhase, RunArm, JudgeArm, ScanSecrets, ReplayReport,
         AwaitWrites, MarkInterrupted, DeclareInvalid, WriteInvalid, LinkInvalid,
         SettleInvalid, DeclaredInvalid, DeclareRefused, Proceed
    <3>3. QED
      BY <3>1, <3>2
  <2>4. ASSUME mode' = "writing"
        PROVE  WritingStep'
    <3>1. step \in 1 .. 27 /\ Script[step].do = "write" /\ Script[step].files \subseteq File
      BY <1>1, <2>2, <2>4 DEF WritingStep, StepLive
    <3>2. \A f \in Script[step].files : f \in pending \/ file[f] = Settled
      BY <1>1, <2>2, <2>4 DEF WritingStep
    <3>3. \A f \in Script[step].files : f \in pending' \/ file'[f] = Settled
      BY <1>1, <2>3, <2>4, <3>1, <3>2
    <3>4. QED
      BY <1>2, <3>1, <3>3 DEF WritingStep
  <2>5. QED
    BY <2>1, <2>4 DEF WritingStep
<1>3. CASE IssueWrites
  BY <1>1, <1>3 DEF IssueWrites, At, WritingStep, WrittenSettled
<1>4. CASE step' # step
  <2>1. step' = step + 1 /\ mode' # "writing" /\ mode \in {"next", "writing"}
    BY <1>4, Coordinate \/ CrashCoordinator DEF Coordinate, CrashCoordinator, MovePhase,
       RunArm, JudgeArm, ScanSecrets, ReplayReport, IssueWrites, AwaitWrites,
       MarkInterrupted, LinkArtifact, SettleArtifact, RefuseArtifact, DeclareInvalid,
       WriteInvalid, LinkInvalid, SettleInvalid, DeclaredInvalid, DeclareRefused, Proceed,
       Throw, At
  <2>2. step \in 1 .. 27
    BY <1>1, <2>1 DEF StepLive
  <2>3. Script[step].do = "write" => \A f \in Script[step].files : file'[f] = Settled
    <3>1. CASE AwaitWrites
      <4>1. \A f \in Script[step].files : file[f] = Settled
        BY <1>1, <3>1 DEF AwaitWrites, WritingStep
      <4>2. QED
        BY <1>1, <2>2, <4>1
    <3>2. CASE ~AwaitWrites
      <4>1. Script[step].do \in {"move", "run", "judge", "scan", "replay"}
        BY <1>4, <3>2, Coordinate \/ CrashCoordinator DEF Coordinate, CrashCoordinator,
           MovePhase, RunArm, JudgeArm, ScanSecrets, ReplayReport, IssueWrites,
           MarkInterrupted, LinkArtifact, SettleArtifact, RefuseArtifact, DeclareInvalid,
           WriteInvalid, LinkInvalid, SettleInvalid, DeclaredInvalid, DeclareRefused,
           Throw, At
      <4>2. QED
        BY <4>1
    <3>3. QED
      BY <3>1, <3>2
  <2>4. WrittenSettled'
    <3>1. SUFFICES ASSUME NEW k \in 1 .. 27, k < step', Script[k].do = "write",
                          NEW f \in Script[k].files
                   PROVE  file'[f] = Settled
      BY DEF WrittenSettled
    <3>2. CASE k < step
      BY <1>1, <3>1, <3>2 DEF WrittenSettled
    <3>3. CASE k = step
      BY <2>3, <3>1, <3>3
    <3>4. QED
      BY <2>1, <2>2, <3>1, <3>2, <3>3
  <2>5. QED
    BY <2>1, <2>4 DEF WritingStep
<1>5. QED
  BY <1>2, <1>3, <1>4

LEMMA StepTypeOK ==
  ASSUME IInv, CampaignAssumption, Next
  PROVE  TypeOK'
<1>1. sound' \in BOOLEAN
  BY StepFrame DEF IInv, TypeOK
<1>2. /\ phase' \in Phase /\ step' \in 1 .. 28 /\ pending' \subseteq File
      /\ judged' \subseteq Arm
      /\ mode' \in {"next", "writing", "declaring", "declaring_markdown", "catching",
                    "done", "failed", "crashed"}
  <2>1. CASE Coordinate \/ CrashCoordinator
    BY <2>1, StepCoordinatorInv DEF CoordinatorInv
  <2>2. ASSUME NEW r \in Reporters, Report(r) \/ CrashCommand(r)
        PROVE  UNCHANGED <<phase, step, mode, pending, sound, judged>>
    BY <2>2, CommandFrame DEF IInv
  <2>3. QED
    BY <2>1, <2>2, ScriptLength, Next DEF Next, IInv, TypeOK
<1> USE DEF TypeOK, GotoCommand, Process, File, Invalid
<1>3. file' \in [File -> Process \cup {Absent, Settled}]
  <2>1. CASE Coordinate \/ CrashCoordinator
    BY <2>1, IInv DEF IInv, Coordinate, CrashCoordinator, MovePhase, RunArm, JudgeArm,
       ScanSecrets, ReplayReport, IssueWrites, AwaitWrites, MarkInterrupted,
       LinkArtifact, SettleArtifact, RefuseArtifact, DeclareInvalid, WriteInvalid,
       LinkInvalid, SettleInvalid, DeclaredInvalid, DeclareRefused
  <2>2. ASSUME NEW r \in Reporters, Report(r) \/ CrashCommand(r)
        PROVE  file' \in [File -> Process \cup {Absent, Settled}]
    BY <2>2, IInv DEF IInv, Report, CrashCommand, ReadPointers, ReplayEvidence,
       RewriteDerived, VerifyReport, LinkDeclaration, SettleDeclaration,
       RefuseDeclaration
  <2>3. QED
    BY <2>1, <2>2, Next DEF Next
<1>4. command' \in [Reporters ->
         Derived \cup {"idle", "replaying", "verifying", "printed", "declaring",
                       "declaring_markdown", "declared", "threw", "crashed"}]
  <2>1. CASE Coordinate \/ CrashCoordinator
    BY <2>1, IInv, CoordinateFrame DEF IInv
  <2>2. ASSUME NEW r \in Reporters, Report(r) \/ CrashCommand(r)
        PROVE  command' \in [Reporters ->
                 Derived \cup {"idle", "replaying", "verifying", "printed", "declaring",
                               "declaring_markdown", "declared", "threw", "crashed"}]
    BY <2>2, IInv DEF IInv, Report, CrashCommand, ReadPointers, ReplayEvidence,
       RewriteDerived, VerifyReport, LinkDeclaration, SettleDeclaration,
       RefuseDeclaration, After, Derived
  <2>3. QED
    BY <2>1, <2>2, Next DEF Next
<1>5. QED
  BY <1>1, <1>2, <1>3, <1>4, ScriptLength

-----------------------------------------------------------------------------
LEMMA InitIInv ==
  ASSUME CampaignAssumption, Init
  PROVE  IInv
<1>1. TypeOK
  BY Init, ScriptLength DEF Init, TypeOK, Phase, Arm
<1>2. StepLive /\ WritingStep /\ WrittenSettled /\ JudgedLate /\ ReplayedSound
  BY Init DEF Init, StepLive, WritingStep, WrittenSettled, JudgedLate, ReplayedSound
<1>3. PhaseOfStep
  BY Init DEF Init, PhaseOfStep, PhaseAt
<1>4. PrintedClosed
  BY Init DEF Init, PrintedClosed
<1>5. QED
  BY <1>1, <1>2, <1>3, <1>4 DEF IInv

LEMMA NextIInv ==
  ASSUME CampaignAssumption, IInv, [Next]_vars
  PROVE  IInv'
<1>1. CASE UNCHANGED vars
  BY <1>1, IInv DEF IInv, vars, TypeOK, StepLive, WritingStep, WrittenSettled,
     PhaseOfStep, JudgedLate, ReplayedSound, PrintedClosed, Replayable, AllSettled
<1>2. CASE Next
  <2>1. TypeOK'
    BY <1>2, StepTypeOK
  <2>2. /\ sound' = sound
        /\ \A f \in File : file[f] = Settled => file'[f] = Settled
    BY <1>2, StepFrame DEF IInv
  <2>3. Replayable(Evidence \cup Derived) => Replayable(Evidence \cup Derived)'
    BY <2>2 DEF Replayable, AllSettled, File
  <2>4. CASE Coordinate \/ CrashCoordinator
    <3>1. PrintedClosed'
      BY <2>3, <2>4, CoordinateFrame DEF IInv, PrintedClosed
    <3>2. QED
      BY <2>1, <2>4, <3>1, StepCoordinatorInv, StepWrites DEF IInv, CoordinatorInv
  <2>5. ASSUME NEW r \in Reporters, Report(r) \/ CrashCommand(r)
        PROVE  IInv'
    <3>1. /\ UNCHANGED <<phase, step, mode, pending, sound, judged>>
          /\ \A q \in Reporters : q # r => command'[q] = command[q]
          /\ command'[r] = "printed" => Replayable(Evidence \cup Derived)
      BY <2>5, CommandFrame DEF IInv
    <3>2. PrintedClosed'
      BY <2>3, <3>1 DEF IInv, PrintedClosed
    <3>3. StepLive' /\ PhaseOfStep' /\ JudgedLate' /\ ReplayedSound'
      BY <3>1, IInv DEF IInv, StepLive, PhaseOfStep, JudgedLate, ReplayedSound
    <3>4. \A k \in 1 .. 27 : Script[k].do = "write" => Script[k].files \subseteq File
      BY ScriptSteps
    <3>5. WrittenSettled'
      BY <2>2, <3>1, <3>4, IInv DEF IInv, WrittenSettled
    <3>6. WritingStep'
      BY <2>2, <3>1, <3>4, IInv DEF IInv, WritingStep, StepLive
    <3>7. QED
      BY <2>1, <3>2, <3>3, <3>5, <3>6 DEF IInv
  <2>6. QED
    BY <1>2, <2>4, <2>5 DEF Next
<1>3. QED
  BY <1>1, <1>2, [Next]_vars

THEOREM Invariance == Spec => []IInv
<1>1. Init => IInv
  BY InitIInv, CampaignAssumption
<1>2. IInv /\ [Next]_vars => IInv'
  BY NextIInv, CampaignAssumption
<1>3. QED
  BY <1>1, <1>2, PTL DEF Spec

(***************************************************************************)
(* Type correctness of a campaign and its report commands.                 *)
(***************************************************************************)
THEOREM TypeCorrect == Spec => []TypeOK
<1>1. IInv => TypeOK
  BY DEF IInv
<1>2. QED
  BY <1>1, Invariance, PTL

(***************************************************************************)
(* Everything is settled once the coordinator is past its last step.       *)
(***************************************************************************)
LEMMA PastTheEnd ==
  ASSUME IInv, phase = "reported"
  PROVE  Replayable(Evidence \cup Derived)
<1>1. step = 28
  BY ScriptSteps, ScriptLength DEF IInv, TypeOK, PhaseOfStep
<1>2. ASSUME NEW f \in Evidence \cup Derived
      PROVE  file[f] = Settled
  <2>1. PICK k \in {2, 3, 8, 13, 18, 20, 22, 24, 25} : f \in Script[k].files
    BY ScriptWrites
  <2>2. Script[k].do = "write" /\ k \in 1 .. 27 /\ k < 28
    BY ScriptWrites
  <2>3. QED
    BY <1>1, <2>1, <2>2 DEF IInv, WrittenSettled
<1>3. QED
  BY <1>1, <1>2 DEF IInv, ReplayedSound, Replayable, AllSettled

(***************************************************************************)
(* What is called reported, or printed as a report, rests on complete and  *)
(* sound evidence.                                                         *)
(***************************************************************************)
THEOREM ReportsClosed == Spec => []ReportsAreClosed
<1>1. IInv => ReportsAreClosed
  BY PastTheEnd DEF IInv, PrintedClosed, ReportsAreClosed
<1>2. QED
  BY <1>1, Invariance, PTL

(***************************************************************************)
(* The oracle runs after both arms are frozen.                             *)
(***************************************************************************)
THEOREM FrozenBeforeOracle == Spec => []JudgedWhenFrozen
<1>1. IInv => JudgedWhenFrozen
  <2>1. SUFFICES ASSUME IInv, judged # {}, NEW f \in ArmFiles[1] \cup ArmFiles[2]
                 PROVE  file[f] = Settled
    BY DEF JudgedWhenFrozen, AllSettled
  <2>2. step \in 1 .. 28 /\ 8 < step /\ 13 < step
    BY <2>1, ScriptLength DEF IInv, TypeOK, JudgedLate
  <2>3. Script[8].do = "write" /\ Script[13].do = "write"
    BY ScriptWrites
  <2>4. f \in Script[8].files \/ f \in Script[13].files
    BY <2>1, ScriptWrites
  <2>5. QED
    BY <2>1, <2>2, <2>3, <2>4 DEF IInv, WrittenSettled
<1>2. QED
  BY <1>1, Invariance, PTL

(***************************************************************************)
(* A step that changes the phase is a transition of the table.             *)
(***************************************************************************)
LEMMA PhaseStep ==
  ASSUME IInv, Next, phase' # phase
  PROVE  phase' \in Transitions[phase]
<1>1. Coordinate \/ CrashCoordinator
  BY Next, CommandFrame DEF Next, IInv
<1>2. MovePhase \/ MarkInterrupted
  BY <1>1 DEF Coordinate, CrashCoordinator, RunArm, JudgeArm, ScanSecrets,
     ReplayReport, IssueWrites, AwaitWrites, LinkArtifact, SettleArtifact,
     RefuseArtifact, DeclareInvalid, WriteInvalid, LinkInvalid, SettleInvalid,
     DeclaredInvalid, DeclareRefused
<1>3. CASE MovePhase
  <2>1. step \in 1 .. 27 /\ Script[step].do = "move" /\ phase = PhaseAt[step]
    BY <1>3 DEF MovePhase, At, IInv, StepLive, PhaseOfStep
  <2>2. QED
    BY <1>3, <2>1, ScriptSteps DEF MovePhase
<1>4. CASE MarkInterrupted
  <2>1. step \in 1 .. 27 /\ step >= TryFrom /\ phase = PhaseAt[step]
    BY <1>4 DEF MarkInterrupted, IInv, StepLive, PhaseOfStep
  <2>2. phase' = "interrupted"
    BY <1>4 DEF MarkInterrupted
  <2>3. QED
    BY <2>1, <2>2, ScriptSteps
<1>5. QED
  BY <1>2, <1>3, <1>4

(***************************************************************************)
(* campaign-state.json follows TRANSITIONS.                                *)
(***************************************************************************)
THEOREM PhasesFollow == Spec => PhaseFollowsTransitions
<1>1. IInv /\ [Next]_vars => [phase' # phase => phase' \in Transitions[phase]]_vars
  BY PhaseStep
<1>2. QED
  BY <1>1, Invariance, PTL DEF Spec, PhaseFollowsTransitions

(***************************************************************************)
(* A command given after the campaign was reported never reaches its catch *)
(* block: the invariant is that it stays on the path to "printed".         *)
(***************************************************************************)
THEOREM Reproducible == Spec => ReportedIsReproducible
<1>1. SUFFICES ASSUME NEW r \in Reporters
               PROVE  Spec => [](phase = "reported" /\ command[r] = "idle"
                 => []~(command[r] \in {"declaring", "declaring_markdown", "declared"}))
  BY DEF ReportedIsReproducible
<1> DEFINE Given == phase = "reported" /\ command[r] = "idle"
           OnPath == /\ phase = "reported"
                     /\ command[r] \in Derived \cup {"idle", "replaying", "verifying",
                                                     "printed", "crashed"}
           Off == command[r] \in {"declaring", "declaring_markdown", "declared"}
<1>2. Given => OnPath
  OBVIOUS
<1>3. OnPath => ~Off
  BY DEF Derived
<1>4. IInv /\ OnPath /\ [Next]_vars => OnPath'
  <2>1. SUFFICES ASSUME IInv, OnPath, [Next]_vars
                 PROVE  OnPath'
    OBVIOUS
  <2>2. CASE UNCHANGED vars
    BY <2>1, <2>2 DEF vars
  <2>3. CASE Next
    <3>1. phase' = "reported"
      <4>1. phase' # phase => phase' \in Transitions[phase]
        BY <2>1, <2>3, PhaseStep
      <4>2. QED
        BY <2>1, <4>1 DEF Transitions
    <3>2. ASSUME NEW q \in Reporters, q # r, Report(q) \/ CrashCommand(q)
          PROVE  command'[r] = command[r]
      BY <2>1, <3>2, CommandFrame DEF IInv
    <3>3. CASE Report(r) \/ CrashCommand(r)
      <4>1. sound /\ \A f \in Evidence \cup Derived : file[f] = Settled
        BY <2>1, PastTheEnd DEF Replayable, AllSettled
      <4>2. file["report"] = Settled /\ file["markdown"] # Absent
        BY <4>1, CampaignAssumption DEF Derived
      <4>3. command \in [Reporters -> Derived \cup {"idle", "replaying", "verifying",
              "printed", "declaring", "declaring_markdown", "declared", "threw",
              "crashed"}]
        BY <2>1 DEF IInv, TypeOK
      <4>4. /\ Replayable(Evidence \cup {"report"})
            /\ Replayable(Evidence \cup Derived)
            /\ \A d \in Derived : file[d] = Settled
        BY <4>1 DEF Replayable, AllSettled, Derived
      <4> DEFINE Kept == command'[r] \in Derived \cup {"idle", "replaying", "verifying",
                                                     "printed", "crashed"}
      <4>5. ASSUME ReadPointers(r) PROVE Kept
        BY <4>2, <4>3, <4>5 DEF ReadPointers, GotoCommand
      <4>6. ASSUME ReplayEvidence(r) PROVE Kept
        BY <4>3, <4>4, <4>6 DEF ReplayEvidence, GotoCommand, Derived
      <4>7. ASSUME RewriteDerived(r) PROVE Kept
        BY <4>3, <4>4, <4>7 DEF RewriteDerived, GotoCommand, After, Derived
      <4>8. ASSUME VerifyReport(r) PROVE Kept
        BY <4>3, <4>4, <4>8 DEF VerifyReport, GotoCommand
      <4>9. ASSUME CrashCommand(r) PROVE Kept
        BY <4>3, <4>9 DEF CrashCommand, GotoCommand
      <4>10. ASSUME LinkDeclaration(r) \/ SettleDeclaration(r) \/ RefuseDeclaration(r)
             PROVE  Kept
        BY <2>1, <4>10 DEF LinkDeclaration, SettleDeclaration, RefuseDeclaration, Derived
      <4>11. Kept
        BY <3>3, <4>5, <4>6, <4>7, <4>8, <4>9, <4>10 DEF Report
      <4>12. QED
        BY <3>1, <4>11
    <3>4. CASE Coordinate \/ CrashCoordinator
      BY <2>1, <3>1, <3>4, CoordinateFrame
    <3>5. QED
      BY <2>1, <2>3, <3>1, <3>2, <3>3, <3>4 DEF Next
  <2>4. QED
    BY <2>1, <2>2, <2>3
<1>5. QED
  BY <1>2, <1>3, <1>4, Invariance, PTL DEF Spec
=============================================================================
