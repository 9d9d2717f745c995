-------------------------------- MODULE Suite --------------------------------
(***************************************************************************)
(* A Suite: the run that freezes a manifest, asks the operator, reserves   *)
(* the holdout, measures three tasks as campaigns and derives a report     *)
(* (src/suite/run.ts, src/suite/coordinator.ts), and the `suite report`    *)
(* commands that rebuild the report from the frozen evidence               *)
(* (src/suite/recovery.ts, src/app/default-executor.ts), which may be      *)
(* given at any time once the Suite has its root.                          *)
(*                                                                         *)
(* The Suite store publishes an artifact in one link() and does not look   *)
(* at the number of links (ArtifactStore), so that a file is absent or     *)
(* there; only in the directory of a task is a temporary file noticed.     *)
(* The measurement of one task is the module Campaign, here one outcome.   *)
(* The tasks are numbered in the order in which they run; the last one is  *)
(* the holdout.                                                            *)
(***************************************************************************)
EXTENDS Naturals, Sequences, FiniteSets

CONSTANTS
  Reporters,  (* `suite report` commands for this Suite.                   *)
  Runner      (* The process of `suite run`.                               *)

ASSUME SuiteAssumption == Runner \notin Reporters

Process == Reporters \cup {Runner}

Task == 1 .. 3

(***************************************************************************)
(* The artifacts, several files of the code to a name.                     *)
(***************************************************************************)
Primary == {"manifest", "bindings"}

PointerOf == <<"pointer_1", "pointer_2", "pointer_3">>

Pointers == {"pointer_1", "pointer_2", "pointer_3"}

Evidence == Primary \cup {"qualification"} \cup Pointers

Derived == {"evaluation", "report", "markdown"}

Invalid == {"invalid", "invalid_markdown"}

File == Evidence \cup Derived \cup Invalid

TaskFailure == "TASK_INFRASTRUCTURE_FAILURE"

IntegrityFailure == "ARTIFACT_INTEGRITY_FAILURE"

(***************************************************************************)
(* The steps of the run and of a report command in their order.            *)
(***************************************************************************)
Write(files) == [do |-> "write", files |-> files]
Do(what) == [do |-> what]
Measure(t) == [do |-> "measure", task |-> t]

RunScript ==
  <<Write(Primary), Do("ask"), Write({"qualification"}), Do("reserve"),
    Measure(1), Write({"pointer_1"}), Measure(2), Write({"pointer_2"}),
    Measure(3), Write({"pointer_3"}),
    Do("scan"), Write(Derived), Do("replay")>>

(* The report is rebuilt without a scan for secrets. *)
BadReportScript ==
  <<Do("reconstruct"), Write({"evaluation"}), Write({"report"}),
    Write({"markdown"}), Do("replay")>>

ReportScript ==
  <<Do("reconstruct"), Do("scan"), Write({"evaluation"}), Write({"report"}),
    Write({"markdown"}), Do("replay")>>

Script(p) == IF p = Runner THEN RunScript ELSE ReportScript

VARIABLES
  step,      (* The step of its script that each process is at.            *)
  mode,      (* How each process is doing.                                 *)
  pending,   (* Writes it has issued and that have not returned.           *)
  file,      (* "absent", "temporary" or "there"; of an envelope, what it  *)
             (* gives as the reason.                                       *)
  stage,     (* failure.stage of the run.                                  *)
  cause,     (* The kind of error that ended a campaign of the run.        *)
  reserved,  (* Whether the run has reserved the holdout.                  *)
  measured,  (* History: the tasks that the run has begun to measure.      *)
  evidence   (* What the evidence is: "sound"; "leaking", its report would *)
             (* show a secret; "disagreeing", it fails the cross-checks.   *)

vars == <<step, mode, pending, file, stage, cause, reserved, measured, evidence>>

-----------------------------------------------------------------------------
AllThere(files) == \A f \in files : file[f] = "there"

At(p, kind) == mode[p] = "next" /\ Script(p)[step[p]].do = kind

Writes(p, f) == f \in pending[p] /\ mode[p] # "crashed"

Goto(p, label) == mode' = [mode EXCEPT ![p] = label]

Proceed(p) ==
  /\ step' = [step EXCEPT ![p] = @ + 1]
  /\ Goto(p, IF step[p] = Len(Script(p)) THEN "done" ELSE "next")
  /\ UNCHANGED pending

(***************************************************************************)
(* The reason that a process gives when it declares the Suite invalid.     *)
(***************************************************************************)
Reason(p) ==
  IF p = Runner /\ stage = "task-measurement" /\ cause = "infrastructure"
    THEN TaskFailure ELSE IntegrityFailure

Content(p, f) == IF f \in Invalid THEN Reason(p) ELSE "there"

(* Only a failed task measurement is declared. *)
BadCatch(p, inFlight) ==
  /\ IF p = Runner /\ stage # "task-measurement"
       THEN Goto(p, "failed") /\ pending' = [pending EXCEPT ![p] = inFlight]
       ELSE Goto(p, "declaring") /\ pending' = [pending EXCEPT ![p] = inFlight \cup Invalid]
  /\ UNCHANGED step

(***************************************************************************)
(* The catch block of the run and of the command, with these writes still  *)
(* in flight: a run that has measured nothing yet declares nothing.        *)
(***************************************************************************)
Catch(p, inFlight) ==
  /\ IF p = Runner /\ stage = "pre-measurement"
       THEN Goto(p, "failed") /\ pending' = [pending EXCEPT ![p] = inFlight]
       ELSE Goto(p, "declaring") /\ pending' = [pending EXCEPT ![p] = inFlight \cup Invalid]
  /\ UNCHANGED step

Throw(p) == Catch(p, pending[p])

-----------------------------------------------------------------------------
(***************************************************************************)
(* Plausible regressions of the definitions below, used, like the Bad      *)
(* definitions above, to show that the properties can fail; nothing else   *)
(* refers to them.                                                         *)
(***************************************************************************)

(* The stage is set once, for the first task. *)
BadBeginCampaign ==
  /\ At(Runner, "measure")
  /\ stage' = IF stage = "pre-measurement" THEN "task-measurement" ELSE stage
  /\ measured' = measured \cup {RunScript[step[Runner]].task}
  /\ Goto(Runner, "measuring")
  /\ UNCHANGED <<step, pending, file, cause, reserved, evidence>>

(* The command looks for the frozen report first. *)
BadReconstruct(r) ==
  /\ At(r, "reconstruct")
  /\ IF evidence # "disagreeing" /\ AllThere(Evidence \cup {"report"})
       THEN Proceed(r) ELSE Throw(r)
  /\ UNCHANGED <<file, stage, cause, reserved, measured, evidence>>

(* The replay of the fresh report is not awaited. *)
BadReplay(p) ==
  /\ At(p, "replay")
  /\ Proceed(p)
  /\ UNCHANGED <<file, stage, cause, reserved, measured, evidence>>

-----------------------------------------------------------------------------
Init ==
  /\ step = [p \in Process |-> 1]
  /\ mode = [p \in Process |-> "next"]
  /\ pending = [p \in Process |-> {}]
  /\ file = [f \in File |-> "absent"]
  /\ stage = "pre-measurement"
  /\ cause = "none"
  /\ reserved = FALSE
  /\ measured = {}
  /\ evidence \in {"sound", "leaking", "disagreeing"}

(***************************************************************************)
(* beforeTasks: the operator may decline and qualification may fail.       *)
(***************************************************************************)
Ask ==
  /\ At(Runner, "ask")
  /\ Proceed(Runner) \/ Throw(Runner)
  /\ UNCHANGED <<file, stage, cause, reserved, measured, evidence>>

(***************************************************************************)
(* reserveHoldout, the module ExposureLedger.                              *)
(***************************************************************************)
Reserve ==
  /\ At(Runner, "reserve")
  /\ \/ reserved' = TRUE /\ Proceed(Runner)
     \/ UNCHANGED reserved /\ Throw(Runner)
  /\ UNCHANGED <<file, stage, cause, measured, evidence>>

BeginCampaign ==
  /\ At(Runner, "measure")
  /\ stage' = "task-measurement"
  /\ measured' = measured \cup {RunScript[step[Runner]].task}
  /\ Goto(Runner, "measuring")
  /\ UNCHANGED <<step, pending, file, cause, reserved, evidence>>

EndCampaign ==
  /\ mode[Runner] = "measuring"
  /\ stage' = "derived-artifacts"
  /\ Proceed(Runner)
  /\ UNCHANGED <<file, cause, reserved, measured, evidence>>

(***************************************************************************)
(* The campaign throws: an integrity error of either store, or any other.  *)
(***************************************************************************)
FailCampaign ==
  /\ mode[Runner] = "measuring"
  /\ cause' \in {"infrastructure", "integrity"}
  /\ Throw(Runner)
  /\ UNCHANGED <<file, stage, reserved, measured, evidence>>

(***************************************************************************)
(* reconstructSuiteReport: the primary evidence, the pointers and nothing  *)
(* else in the task directories, the campaigns they name and the ledger.   *)
(***************************************************************************)
Reconstruct(r) ==
  /\ At(r, "reconstruct")
  /\ IF evidence # "disagreeing" /\ AllThere(Evidence) THEN Proceed(r) ELSE Throw(r)
  /\ UNCHANGED <<file, stage, cause, reserved, measured, evidence>>

(***************************************************************************)
(* assertSecretFreeText on all three derived texts.                        *)
(***************************************************************************)
Scan(p) ==
  /\ At(p, "scan")
  /\ IF evidence # "leaking" THEN Proceed(p) ELSE Throw(p)
  /\ UNCHANGED <<file, stage, cause, reserved, measured, evidence>>

(***************************************************************************)
(* replaySuiteReport.                                                      *)
(***************************************************************************)
Replay(p) ==
  /\ At(p, "replay")
  /\ IF evidence # "disagreeing" /\ AllThere(Evidence \cup Derived)
       THEN Proceed(p) ELSE Throw(p)
  /\ UNCHANGED <<file, stage, cause, reserved, measured, evidence>>

-----------------------------------------------------------------------------
(***************************************************************************)
(* The writes of a step, or of the catch block, run side by side and are   *)
(* awaited together; those in flight when one of them fails still publish. *)
(***************************************************************************)
IssueWrites(p) ==
  /\ At(p, "write")
  /\ pending' = [pending EXCEPT ![p] = Script(p)[step[p]].files]
  /\ Goto(p, "writing")
  /\ UNCHANGED <<step, file, stage, cause, reserved, measured, evidence>>

OpenTemporary(f) ==
  /\ Writes(Runner, f)
  /\ f \in Pointers
  /\ file[f] = "absent"
  /\ file' = [file EXCEPT ![f] = "temporary"]
  /\ UNCHANGED <<step, mode, pending, stage, cause, reserved, measured, evidence>>

PublishArtifact(p, f) ==
  /\ Writes(p, f)
  /\ file[f] \in {Content(p, f), IF f \in Pointers THEN "temporary" ELSE "absent"}
  /\ file' = [file EXCEPT ![f] = Content(p, f)]
  /\ pending' = [pending EXCEPT ![p] = @ \ {f}]
  /\ UNCHANGED <<step, mode, stage, cause, reserved, measured, evidence>>

(***************************************************************************)
(* A write of the run fails for a reason of the file system.  Writes of    *)
(* the report commands and of envelopes are taken not to.                  *)
(***************************************************************************)
RefuseArtifact(f) ==
  /\ Writes(Runner, f)
  /\ f \notin Invalid
  /\ file' = [file EXCEPT ![f] = IF @ = "temporary" THEN "absent" ELSE @]
  /\ IF mode[Runner] = "writing"
       THEN Catch(Runner, pending[Runner] \ {f})
       ELSE pending' = [pending EXCEPT ![Runner] = @ \ {f}] /\ UNCHANGED <<step, mode>>
  /\ UNCHANGED <<stage, cause, reserved, measured, evidence>>

AwaitWrites(p) ==
  /\ mode[p] = "writing"
  /\ pending[p] = {}
  /\ Proceed(p)
  /\ UNCHANGED <<file, stage, cause, reserved, measured, evidence>>

(***************************************************************************)
(* Another process has declared the Suite invalid for another reason:      *)
(* SUITE_ARTIFACT_ALREADY_EXISTS.                                          *)
(***************************************************************************)
RefuseEnvelope(p, f) ==
  /\ Writes(p, f)
  /\ f \in Invalid
  /\ file[f] \notin {"absent", Content(p, f)}
  /\ pending' = [pending EXCEPT ![p] = @ \ {f}]
  /\ Goto(p, "failed")
  /\ UNCHANGED <<step, file, stage, cause, reserved, measured, evidence>>

AwaitEnvelope(p) ==
  /\ mode[p] = "declaring"
  /\ pending[p] \cap Invalid = {}
  /\ Goto(p, "failed")
  /\ UNCHANGED <<step, pending, file, stage, cause, reserved, measured, evidence>>

Begun(p) == p = Runner \/ step[p] > 1 \/ mode[p] # "next"

Crash(p) ==
  /\ Begun(p)
  /\ mode[p] \notin {"done", "failed", "crashed"}
  /\ Goto(p, "crashed")
  /\ UNCHANGED <<step, pending, file, stage, cause, reserved, measured, evidence>>

-----------------------------------------------------------------------------
Work(p) ==
  \/ Scan(p)
  \/ Replay(p)
  \/ IssueWrites(p)
  \/ \E f \in File : PublishArtifact(p, f) \/ RefuseEnvelope(p, f)
  \/ AwaitWrites(p)
  \/ AwaitEnvelope(p)

Run ==
  \/ Ask
  \/ Reserve
  \/ BeginCampaign
  \/ EndCampaign
  \/ FailCampaign
  \/ \E f \in File : OpenTemporary(f) \/ RefuseArtifact(f)
  \/ Work(Runner)

Report(r) == Reconstruct(r) \/ Work(r)

Next ==
  \/ Run
  \/ \E r \in Reporters : Report(r)
  \/ \E p \in Process : Crash(p)

Spec == Init /\ [][Next]_vars

(***************************************************************************)
(* A campaign is bounded by its timeouts, and file-system calls return.    *)
(***************************************************************************)
FairSpec == Spec /\ WF_vars(Run)

-----------------------------------------------------------------------------
(***************************************************************************)
(* Type invariant of a Suite and its report commands.                      *)
(***************************************************************************)
TypeOK ==
  /\ step \in [Process -> 1 .. 14]
  /\ mode \in [Process -> {"next", "measuring", "writing", "declaring", "done",
                           "failed", "crashed"}]
  /\ pending \in [Process -> SUBSET File]
  /\ file \in [File -> {"absent", "temporary", "there", TaskFailure, IntegrityFailure}]
  /\ stage \in {"pre-measurement", "task-measurement", "derived-artifacts"}
  /\ cause \in {"none", "infrastructure", "integrity"}
  /\ reserved \in BOOLEAN
  /\ measured \subseteq Task
  /\ evidence \in {"sound", "leaking", "disagreeing"}

(***************************************************************************)
(* A Suite run that completed, and a report that a command printed, rest   *)
(* on complete evidence that stands the replay and shows no secret.        *)
(***************************************************************************)
ReportsAreClosed ==
  (\E p \in Process : mode[p] = "done")
    => evidence = "sound" /\ AllThere(Evidence \cup Derived)

(***************************************************************************)
(* A derived artifact, of the run or of a report command, is only ever     *)
(* written next to all the evidence it is derived from, and never with a   *)
(* secret in it; also by writes in flight after a failure.                 *)
(***************************************************************************)
DerivedFromEvidence ==
  (\E f \in Derived : file[f] # "absent")
    => evidence # "leaking" /\ AllThere(Evidence)

(***************************************************************************)
(* The holdout is reserved after the qualification is frozen; no model     *)
(* sees a task before the holdout is reserved and the task order and the   *)
(* results of all tasks before it are frozen.                              *)
(***************************************************************************)
MeasuredWhenFrozen ==
  /\ reserved => AllThere(Primary \cup {"qualification"})
  /\ \A t \in measured :
       reserved /\ \A u \in Task : u < t => file[PointerOf[u]] = "there"

(***************************************************************************)
(* Whether a report command has declared the Suite invalid.                *)
(***************************************************************************)
ReporterDeclared == \E r \in Reporters : mode[r] \in {"declaring", "failed", "crashed"}

(***************************************************************************)
(* The verdict names what happened: a Suite is called a task               *)
(* infrastructure failure if, and unless a report command was first only   *)
(* if, that is what ended it; and a run that failed before it measured     *)
(* anything declares nothing.                                              *)
(***************************************************************************)
EnvelopeNamesCause ==
  /\ \A f \in Invalid : file[f] = TaskFailure => cause = "infrastructure"
  /\ ~ReporterDeclared =>
       /\ mode[Runner] = "failed" /\ cause = "infrastructure"
            => \A f \in Invalid : file[f] = TaskFailure
       /\ measured = {} => \A f \in Invalid : file[f] = "absent"

(***************************************************************************)
(* Once sound evidence is complete, a report command that is then given    *)
(* never declares the Suite invalid, whatever became of the run: the       *)
(* report is rebuilt from the frozen evidence alone.                       *)
(***************************************************************************)
RebuildsFromEvidence ==
  \A r \in Reporters :
    [](evidence = "sound" /\ AllThere(Evidence) /\ ~Begun(r) => [](mode[r] # "declaring"))

(***************************************************************************)
(* A Suite that began to measure ends reported or declared invalid on      *)
(* every error path, unless its process dies.                              *)
(***************************************************************************)
EndsWithVerdict ==
  measured # {} ~>
    mode[Runner] \in {"done", "crashed"} \/ file["invalid"] # "absent"

(***************************************************************************)
(* "Confirmation or qualification failure does not fabricate a measurement *)
(* envelope": no Suite is declared invalid that measured nothing.          *)
(***************************************************************************)
UnmeasuredHasNoEnvelope == measured = {} => file["invalid"] = "absent"
=============================================================================
