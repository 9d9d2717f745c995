------------------------------ MODULE Campaign ------------------------------
(***************************************************************************)
(* A paired campaign: the coordinator that runs, freezes, judges and       *)
(* reports two arms (src/campaign/coordinator.ts), the campaign-state.json *)
(* it keeps (src/campaign/state.ts) and the `report` commands that rebuild *)
(* the report (src/app/default-executor.ts), which may be given at any     *)
(* time, also while the campaign runs or after its process died.           *)
(*                                                                         *)
(* A file is absent, in the link window of one process of ArtifactStore,   *)
(* where nobody else can read or rewrite it, or settled.  What is written  *)
(* under a name does not depend on who writes it, so contents are left     *)
(* out.  The arms are numbered in the order in which they run.             *)
(***************************************************************************)
EXTENDS Naturals, Sequences, FiniteSets

CONSTANTS
  Reporters,    (* `report` commands for this campaign.                    *)
  Coordinator,  (* The process that runs it.                               *)
  Absent,       (* There is no such file.                                  *)
  Settled       (* The file has its one final link.                        *)

ASSUME CampaignAssumption ==
  /\ Coordinator \notin Reporters
  /\ {Absent, Settled} \cap (Reporters \cup {Coordinator}) = {}
  /\ Absent # Settled

Process == Reporters \cup {Coordinator}

Arm == {1, 2}

Phase ==
  {"absent", "prepared", "qualified", "arm_1_running", "arm_1_frozen",
   "arm_2_running", "arm_2_frozen", "oracle_running", "projected", "reported",
   "interrupted"}

(***************************************************************************)
(* TRANSITIONS, and the creation of the file by initialize().              *)
(***************************************************************************)
Transitions ==
  [absent         |-> {"prepared"},
   prepared       |-> {"qualified", "interrupted"},
   qualified      |-> {"arm_1_running", "interrupted"},
   arm_1_running  |-> {"arm_1_frozen", "interrupted"},
   arm_1_frozen   |-> {"arm_2_running", "interrupted"},
   arm_2_running  |-> {"arm_2_frozen", "interrupted"},
   arm_2_frozen   |-> {"oracle_running", "interrupted"},
   oracle_running |-> {"projected", "interrupted"},
   projected      |-> {"reported", "interrupted"},
   reported       |-> {},
   interrupted    |-> {}]

(***************************************************************************)
(* The artifacts, several files of the code to a name: what replay needs,  *)
(* what it reconstructs, and the separate verdict of a failed measurement. *)
(***************************************************************************)
Inputs == {"variants", "task_pack"}

ArmFiles == [i \in Arm |-> IF i = 1 THEN {"session_1", "candidate_1"}
                                     ELSE {"session_2", "candidate_2"}]

OracleFiles == {"seed", "behaviors"}

Evidence ==
  Inputs \cup {"manifest"} \cup ArmFiles[1] \cup ArmFiles[2] \cup OracleFiles
    \cup {"episodes"}

Derived == {"evaluation", "report", "markdown"}

Invalid == {"invalid", "invalid_markdown"}

File == Evidence \cup Derived \cup Invalid

(***************************************************************************)
(* The steps of runPairedCampaign in their order.  Write awaits all of its *)
(* files, Move persists a phase, Scan is assertSecretFreeText.             *)
(***************************************************************************)
Write(files) == [do |-> "write", files |-> files]
Move(to) == [do |-> "move", to |-> to]
Run(i) == [do |-> "run", arm |-> i]
Judge(i) == [do |-> "judge", arm |-> i]
Scan == [do |-> "scan"]
Replay == [do |-> "replay"]

(* The campaign is reported before its report is written and replayed. *)
BadScriptReportsEarly ==
  <<Move("prepared"), Write(Inputs), Write({"manifest"}), Move("qualified"),
    Move("arm_1_running"), Run(1), Scan, Write(ArmFiles[1]), Move("arm_1_frozen"),
    Move("arm_2_running"), Run(2), Scan, Write(ArmFiles[2]), Move("arm_2_frozen"),
    Move("oracle_running"), Judge(1), Judge(2), Write(OracleFiles),
    Scan, Write({"episodes"}), Scan, Write({"evaluation"}), Move("projected"),
    Move("reported"), Write({"report"}), Write({"markdown"}), Replay>>

Script ==
  <<Move("prepared"), Write(Inputs), Write({"manifest"}), Move("qualified"),
    Move("arm_1_running"), Run(1), Scan, Write(ArmFiles[1]), Move("arm_1_frozen"),
    Move("arm_2_running"), Run(2), Scan, Write(ArmFiles[2]), Move("arm_2_frozen"),
    Move("oracle_running"), Judge(1), Judge(2), Write(OracleFiles),
    Scan, Write({"episodes"}), Scan, Write({"evaluation"}), Move("projected"),
    Write({"report"}), Write({"markdown"}), Replay, Move("reported")>>

TryFrom == 5   (* The try block starts once the campaign is qualified. *)

VARIABLES
  phase,    (* campaign-state.json.                                        *)
  step,     (* The step of Script that the coordinator is at.              *)
  mode,     (* How the coordinator is doing.                               *)
  pending,  (* Writes it has issued and that have not returned.            *)
  file,     (* Absent, Settled, or the process in whose link window it is. *)
  sound,    (* Whether the evidence will stand the cross-checks of replay. *)
  judged,   (* History: the arms that the oracle has been run on.          *)
  command   (* Where each report command is.                               *)

vars == <<phase, step, mode, pending, file, sound, judged, command>>

-----------------------------------------------------------------------------
AllSettled(files) == \A f \in files : file[f] = Settled

(***************************************************************************)
(* replayPairedImpactReport: every artifact reads back and the report is   *)
(* the one that the evidence determines.                                   *)
(***************************************************************************)
Replayable(files) == sound /\ AllSettled(files)

At(kind) == mode = "next" /\ Script[step].do = kind

Proceed ==
  /\ step' = step + 1
  /\ mode' = IF step = Len(Script) THEN "done" ELSE "next"

(* An exception before the try block reaches the caller at once. *)
Throw == step' = step /\ mode' = IF step < TryFrom THEN "failed" ELSE "catching"

-----------------------------------------------------------------------------
(***************************************************************************)
(* Plausible regressions of the definitions below, used to show that the   *)
(* properties can fail; nothing else refers to them.                       *)
(***************************************************************************)

(* The replay of the fresh report is not awaited. *)
BadReplayUnchecked ==
  /\ At("replay")
  /\ Proceed
  /\ UNCHANGED <<phase, pending, file, sound, judged, command>>

(* A leak is declared and the error rethrown without marking the campaign. *)
BadDeclareAndExit(f, from, to) ==
  /\ mode = from
  /\ file[f] = Settled
  /\ mode' = IF to = "catching" THEN "failed" ELSE to
  /\ UNCHANGED <<phase, step, pending, file, sound, judged, command>>

-----------------------------------------------------------------------------
Init ==
  /\ phase = "absent"
  /\ step = 1
  /\ mode = "next"
  /\ pending = {}
  /\ file = [f \in File |-> Absent]
  /\ sound \in BOOLEAN
  /\ judged = {}
  /\ command = [r \in Reporters |-> "idle"]

(***************************************************************************)
(* CampaignStateStore.initialize and transition.                           *)
(***************************************************************************)
MovePhase ==
  /\ At("move")
  /\ phase' = Script[step].to
  /\ Proceed
  /\ UNCHANGED <<pending, file, sound, judged, command>>

(***************************************************************************)
(* executeArm: the carrier, the discovery of its Session and the freeze of *)
(* the candidate may each fail.                                            *)
(***************************************************************************)
RunArm ==
  /\ At("run")
  /\ Proceed \/ Throw
  /\ UNCHANGED <<phase, pending, file, sound, judged, command>>

JudgeArm ==
  /\ At("judge")
  /\ judged' = judged \cup {Script[step].arm}
  /\ Proceed \/ Throw
  /\ UNCHANGED <<phase, pending, file, sound, command>>

ScanSecrets ==
  /\ At("scan")
  /\ \/ Proceed
     \/ mode' = "declaring" /\ UNCHANGED step
  /\ UNCHANGED <<phase, pending, file, sound, judged, command>>

ReplayReport ==
  /\ At("replay")
  /\ IF Replayable(Evidence \cup Derived) THEN Proceed ELSE Throw
  /\ UNCHANGED <<phase, pending, file, sound, judged, command>>

(***************************************************************************)
(* Promise.all over the writes of a step.  When one of them is refused the *)
(* others stay in flight: they may still publish their files after the     *)
(* campaign has been marked interrupted.                                   *)
(***************************************************************************)
IssueWrites ==
  /\ At("write")
  /\ pending' = Script[step].files
  /\ mode' = "writing"
  /\ UNCHANGED <<phase, step, file, sound, judged, command>>

LinkArtifact(f) ==
  /\ f \in pending
  /\ mode # "crashed"
  /\ file[f] = Absent
  /\ file' = [file EXCEPT ![f] = Coordinator]
  /\ UNCHANGED <<phase, step, mode, pending, sound, judged, command>>

SettleArtifact(f) ==
  /\ f \in pending
  /\ mode # "crashed"
  /\ file[f] = Coordinator
  /\ file' = [file EXCEPT ![f] = Settled]
  /\ pending' = pending \ {f}
  /\ UNCHANGED <<phase, step, mode, sound, judged, command>>

RefuseArtifact(f) ==
  /\ f \in pending
  /\ mode # "crashed"
  /\ file[f] = Absent
  /\ pending' = pending \ {f}
  /\ IF mode = "writing" THEN Throw ELSE UNCHANGED <<step, mode>>
  /\ UNCHANGED <<phase, file, sound, judged, command>>

AwaitWrites ==
  /\ mode = "writing"
  /\ pending = {}
  /\ Proceed
  /\ UNCHANGED <<phase, pending, file, sound, judged, command>>

(***************************************************************************)
(* The catch block: writeMeasurementInvalidReport after a SecretScanError, *)
(* which may meet a report command in the link window of the same file,    *)
(* and the transition to interrupted.                                      *)
(***************************************************************************)
LinkInvalid(f, from) ==
  /\ mode = from
  /\ file[f] = Absent
  /\ file' = [file EXCEPT ![f] = Coordinator]
  /\ UNCHANGED <<phase, step, mode, pending, sound, judged, command>>

SettleInvalid(f, from) ==
  /\ mode = from
  /\ file[f] = Coordinator
  /\ file' = [file EXCEPT ![f] = Settled]
  /\ UNCHANGED <<phase, step, mode, pending, sound, judged, command>>

DeclaredInvalid(f, from, to) ==
  /\ mode = from
  /\ file[f] = Settled
  /\ mode' = to
  /\ UNCHANGED <<phase, step, pending, file, sound, judged, command>>

DeclareRefused(f, from) ==
  /\ mode = from
  /\ file[f] \in Reporters
  /\ mode' = "failed"
  /\ UNCHANGED <<phase, step, pending, file, sound, judged, command>>

WriteInvalid(f, from, to) ==
  \/ LinkInvalid(f, from)
  \/ SettleInvalid(f, from)
  \/ DeclaredInvalid(f, from, to)
  \/ DeclareRefused(f, from)

DeclareInvalid ==
  \/ WriteInvalid("invalid", "declaring", "declaring_markdown")
  \/ WriteInvalid("invalid_markdown", "declaring_markdown", "catching")

MarkInterrupted ==
  /\ mode = "catching"
  /\ phase' = IF phase \in {"interrupted", "reported"} THEN phase ELSE "interrupted"
  /\ mode' = "failed"
  /\ UNCHANGED <<step, pending, file, sound, judged, command>>

CoordinatorEnded == mode \in {"done", "failed", "crashed"}

CrashCoordinator ==
  /\ ~CoordinatorEnded
  /\ mode' = "crashed"
  /\ UNCHANGED <<phase, step, pending, file, sound, judged, command>>

-----------------------------------------------------------------------------
GotoCommand(r, label) ==
  /\ command' = [command EXCEPT ![r] = label]
  /\ UNCHANGED <<phase, step, mode, pending, sound, judged>>

(***************************************************************************)
(* campaignPointers: both reports must be there, and report.json readable. *)
(***************************************************************************)
ReadPointers(r) ==
  /\ command[r] = "idle"
  /\ GotoCommand(r, IF file["report"] = Settled /\ file["markdown"] # Absent
                      THEN "replaying" ELSE "declaring")
  /\ UNCHANGED file

(***************************************************************************)
(* rebuildCampaignReport: replay without the persisted evaluation, rewrite *)
(* the three derived artifacts in order, replay again.                     *)
(***************************************************************************)
ReplayEvidence(r) ==
  /\ command[r] = "replaying"
  /\ GotoCommand(r, IF Replayable(Evidence \cup {"report"})
                      THEN "evaluation" ELSE "declaring")
  /\ UNCHANGED file

After == [evaluation |-> "report", report |-> "markdown", markdown |-> "verifying",
          declaring |-> "declaring_markdown", declaring_markdown |-> "declared"]

(***************************************************************************)
(* None of the three is absent here: report.json was read, evaluation.json *)
(* is written before it, and report.md was found by ReadPointers.  So a    *)
(* rewrite compares, and is refused in the link window of another writer.  *)
(***************************************************************************)
RewriteDerived(r) ==
  /\ command[r] \in Derived
  /\ GotoCommand(r, IF file[command[r]] = Settled
                      THEN After[command[r]] ELSE "declaring")
  /\ UNCHANGED file

VerifyReport(r) ==
  /\ command[r] = "verifying"
  /\ GotoCommand(r, IF Replayable(Evidence \cup Derived)
                      THEN "printed" ELSE "declaring")
  /\ UNCHANGED file

(***************************************************************************)
(* The command's catch block: writeMeasurementInvalidReport, and exit with *)
(* the error.                                                              *)
(***************************************************************************)
InvalidFile(r) == IF command[r] = "declaring" THEN "invalid" ELSE "invalid_markdown"

LinkDeclaration(r) ==
  /\ command[r] \in {"declaring", "declaring_markdown"}
  /\ file[InvalidFile(r)] = Absent
  /\ file' = [file EXCEPT ![InvalidFile(r)] = r]
  /\ GotoCommand(r, command[r])

SettleDeclaration(r) ==
  /\ command[r] \in {"declaring", "declaring_markdown"}
  /\ file[InvalidFile(r)] \in {r, Settled}
  /\ file' = [file EXCEPT ![InvalidFile(r)] = Settled]
  /\ GotoCommand(r, After[command[r]])

RefuseDeclaration(r) ==
  /\ command[r] \in {"declaring", "declaring_markdown"}
  /\ file[InvalidFile(r)] \in Process \ {r}
  /\ GotoCommand(r, "threw")
  /\ UNCHANGED file

CommandEnded(r) == command[r] \in {"printed", "declared", "threw", "crashed"}

CrashCommand(r) ==
  /\ command[r] # "idle"
  /\ ~CommandEnded(r)
  /\ GotoCommand(r, "crashed")
  /\ UNCHANGED file

-----------------------------------------------------------------------------
Coordinate ==
  \/ MovePhase
  \/ RunArm
  \/ JudgeArm
  \/ ScanSecrets
  \/ ReplayReport
  \/ IssueWrites
  \/ \E f \in File : LinkArtifact(f) \/ SettleArtifact(f) \/ RefuseArtifact(f)
  \/ AwaitWrites
  \/ DeclareInvalid
  \/ MarkInterrupted

Report(r) ==
  \/ ReadPointers(r)
  \/ ReplayEvidence(r)
  \/ RewriteDerived(r)
  \/ VerifyReport(r)
  \/ LinkDeclaration(r)
  \/ SettleDeclaration(r)
  \/ RefuseDeclaration(r)

Next ==
  \/ Coordinate
  \/ CrashCoordinator
  \/ \E r \in Reporters : Report(r) \/ CrashCommand(r)

Spec == Init /\ [][Next]_vars

(***************************************************************************)
(* Arms and oracle runs are bounded by timeouts, and file-system calls     *)
(* return: the coordinator goes on until it ends.                          *)
(***************************************************************************)
FairSpec == Spec /\ WF_vars(Coordinate)

-----------------------------------------------------------------------------
(***************************************************************************)
(* Type invariant of a campaign and its report commands.                   *)
(***************************************************************************)
TypeOK ==
  /\ phase \in Phase
  /\ step \in 1 .. Len(Script) + 1
  /\ mode \in {"next", "writing", "declaring", "declaring_markdown", "catching",
               "done", "failed", "crashed"}
  /\ pending \subseteq File
  /\ file \in [File -> Process \cup {Absent, Settled}]
  /\ sound \in BOOLEAN
  /\ judged \subseteq Arm
  /\ command \in [Reporters ->
       Derived \cup {"idle", "replaying", "verifying", "printed", "declaring",
                     "declaring_markdown", "declared", "threw", "crashed"}]

(***************************************************************************)
(* A campaign that says "reported", and a report that a command printed,   *)
(* rest on the complete frozen evidence: every artifact that replay needs  *)
(* reads back and stands the cross-checks, whatever was refused or died on *)
(* the way.                                                                *)
(***************************************************************************)
ReportsAreClosed ==
  phase = "reported" \/ (\E r \in Reporters : command[r] = "printed")
    => Replayable(Evidence \cup Derived)

(***************************************************************************)
(* candidate_frozen_before_oracle: the oracle runs on no arm before both   *)
(* arms' Sessions and candidates are durable artifacts, so no verdict can  *)
(* influence what the other arm produces.                                  *)
(***************************************************************************)
JudgedWhenFrozen == judged # {} => AllSettled(ArmFiles[1] \cup ArmFiles[2])

(***************************************************************************)
(* campaign-state.json only ever changes along TRANSITIONS: the coordinator*)
(* never meets CAMPAIGN_TRANSITION_INVALID, on any of its paths.           *)
(***************************************************************************)
PhaseFollowsTransitions == [][phase' # phase => phase' \in Transitions[phase]]_vars

(***************************************************************************)
(* Once a campaign is reported, a report command that is then given never  *)
(* declares the measurement invalid, whatever other commands do or did     *)
(* when they died: the report is reproducible.                             *)
(***************************************************************************)
ReportedIsReproducible ==
  \A r \in Reporters :
    [](phase = "reported" /\ command[r] = "idle"
         => []~(command[r] \in {"declaring", "declaring_markdown", "declared"}))

(***************************************************************************)
(* A campaign that was qualified ends reported or marked interrupted on    *)
(* every error path, unless its process dies or a report command holds the *)
(* link window of the verdict that the catch block wants to write.         *)
(***************************************************************************)
Overtaken == mode = "failed" /\ \E f \in Invalid : file[f] \in Reporters

EndsMarked ==
  phase = "qualified" ~>
    phase \in {"reported", "interrupted"} \/ mode = "crashed" \/ Overtaken

(***************************************************************************)
(* The phase 1 specification of `report`: it rebuilds evaluation.json,     *)
(* report.json and report.md from the frozen evidence, and only evidence   *)
(* that does not match becomes a measurement-invalid envelope.  Stated for *)
(* commands given after the campaign's process has ended.                  *)
(***************************************************************************)
RebuildsFromEvidence ==
  [][\A r \in Reporters :
       CoordinatorEnded /\ command[r] = "idle" /\ Replayable(Evidence)
         => command'[r] # "declaring"]_vars
=============================================================================
