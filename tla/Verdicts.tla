------------------------------ MODULE Verdicts ------------------------------
(***************************************************************************)
(* From the evaluations of two arms to the advice of a Suite.  Each Task   *)
(* of a Suite is a Campaign: its arms are evaluated (Episode), the paired  *)
(* report combines them and recommends (src/report/reporter.ts), the Suite *)
(* assesses whether the Harness was active where it should be, decides     *)
(* what the pair is worth to the Suite, and recommends in turn             *)
(* (src/suite/reporter.ts).                                                *)
(*                                                                         *)
(* An evaluation is what the reports read of it: whether the outcome is    *)
(* verified, whether a Goal was created, a cost, and what the Session left *)
(* open: usage, without which the cost is unknown, or the claim.           *)
(***************************************************************************)
EXTENDS Naturals, Sequences, FiniteSets, SequencesExt

VARIABLES
  buckets,   (* The buckets of the Tasks still to run, in order.           *)
  pair,      (* The evaluations of the Task that is running.               *)
  tasks,     (* What the Suite keeps of each Task it has run.              *)
  advice     (* The recommendation of the Suite report.                    *)

rvars == <<buckets, pair, tasks, advice>>

Costs == 1..2

(* evaluationFromEvidence: the results that an arm can have.  An invalid   *)
(* arm has no verified outcome; a cost of 0 is unknown.                    *)
ArmResults ==
  [overall : {"invalid"}, verified : {"unknown"}, created : BOOLEAN, gap : {"none"}, cost : {0}]
  \cup
  {r \in [overall : {"valid", "insufficient"}, verified : {"yes", "no"}, created : BOOLEAN,
          gap : {"none", "usage", "claim"}, cost : {0} \cup Costs] :
     r.gap = "usage" <=> r.cost = 0}

Results(a) ==
  {r \in ArmResults :
     \/ r.overall = "invalid"
     \/ r.overall = "insufficient" <=> r.gap # "none" \/ (a = "treatment" /\ ~r.created)}

(* The reasons an evaluation gives for its validity. *)
Reasons(a, r) ==
  {code \in {"HARD_GATE_FAILED", "USAGE_MISSING", "COMPLETION_CLAIM_MISSING",
             "GOAL_NOT_ACTIVATED"} :
     CASE code = "HARD_GATE_FAILED" -> r.overall = "invalid"
       [] code = "USAGE_MISSING" -> r.gap = "usage"
       [] code = "COMPLETION_CLAIM_MISSING" -> r.gap = "claim"
       [] OTHER -> a = "treatment" /\ ~r.created}

-----------------------------------------------------------------------------
(***************************************************************************)
(* The paired report.                                                      *)
(***************************************************************************)
Combine(validities) ==
  IF "invalid" \in validities THEN "invalid"
  ELSE IF "insufficient" \in validities THEN "insufficient"
  ELSE "valid"

PairedValidity(p) == Combine({p.control.overall, p.treatment.overall})
PairedReasons(p) == Reasons("control", p.control) \cup Reasons("treatment", p.treatment)

Passed(r) == r.verified = "yes"
CostHigher(p) ==
  p.control.cost # 0 /\ p.treatment.cost # 0 /\ p.treatment.cost > p.control.cost

RecommendAction(p) ==
  IF PairedValidity(p) = "invalid" THEN "run_more"
  ELSE IF ~p.treatment.created THEN "iterate"
  ELSE IF PairedValidity(p) = "insufficient" THEN "run_more"
  ELSE IF Passed(p.control) /\ ~Passed(p.treatment) THEN "revert"
  ELSE IF ~Passed(p.control) /\ Passed(p.treatment) THEN "run_more"
  ELSE IF ~Passed(p.control) THEN "iterate"
  ELSE IF CostHigher(p) THEN "keep_baseline"
  ELSE "keep"

(***************************************************************************)
(* The Suite's view of a Task.  An activation is read from the Session by  *)
(* the same projection as the Goal of the evaluation.                      *)
(***************************************************************************)
AssessActivation(bucket, p) ==
  IF p.control.created \/ PairedValidity(p) = "invalid" THEN "invalid"
  ELSE IF bucket = "trigger" /\ ~p.treatment.created THEN "insufficient"
  ELSE IF bucket = "non-trigger" /\ p.treatment.created THEN "fail"
  ELSE "pass"

(* Outside the trigger every gap is taken for a Goal that did not start. *)
BadEffectiveTaskValidity(bucket, p) ==
  IF PairedValidity(p) = "invalid" \/ AssessActivation(bucket, p) = "invalid" THEN "invalid"
  ELSE IF AssessActivation(bucket, p) = "insufficient" THEN "insufficient"
  ELSE IF PairedValidity(p) = "valid" THEN "valid"
  ELSE IF bucket # "trigger" /\ ~p.treatment.created THEN "valid"
  ELSE "insufficient"

EffectiveTaskValidity(bucket, p) ==
  IF PairedValidity(p) = "invalid" \/ AssessActivation(bucket, p) = "invalid" THEN "invalid"
  ELSE IF AssessActivation(bucket, p) = "insufficient" THEN "insufficient"
  ELSE IF PairedValidity(p) = "valid" THEN "valid"
  ELSE IF /\ bucket # "trigger" /\ ~p.treatment.created
          /\ PairedReasons(p) = {"GOAL_NOT_ACTIVATED"} THEN "valid"
  ELSE "insufficient"

SummaryOf(bucket, p) ==
  [bucket |-> bucket, paired |-> PairedValidity(p), suite |-> EffectiveTaskValidity(bucket, p),
   status |-> AssessActivation(bucket, p), kept |-> RecommendAction(p) = "keep",
   activated |-> p.treatment.created, control |-> p.control.created,
   whole |-> \A a \in DOMAIN p : p[a].gap = "none",
   passed |-> \A a \in DOMAIN p : Passed(p[a]),
   dearer |-> CostHigher(p)]

(***************************************************************************)
(* buildSuiteEvaluation and buildSuiteReport.                              *)
(***************************************************************************)
SuiteValidity(ts) ==
  LET all == {ts[i].suite : i \in DOMAIN ts} \cup {ts[i].status : i \in DOMAIN ts}
  IN Combine(all)

StatusOf(ts, bucket) == (CHOOSE t \in Range(ts) : t.bucket = bucket).status

SuiteAction(ts) ==
  IF SuiteValidity(ts) = "invalid" THEN "run_more"
  ELSE IF StatusOf(ts, "trigger") # "pass" THEN "iterate_binding"
  ELSE IF SuiteValidity(ts) = "insufficient" THEN "run_more"
  ELSE IF StatusOf(ts, "non-trigger") = "fail" THEN "keep_baseline"
  ELSE "keep"

-----------------------------------------------------------------------------
VerdictsInit ==
  /\ buckets \in {<<"trigger", "non-trigger", "holdout">>,
                  <<"non-trigger", "trigger", "holdout">>}
  /\ pair = <<>>
  /\ tasks = <<>>
  /\ advice = "none"

(* An arm of the Task at the head is evaluated. *)
EvaluateArm(a) ==
  /\ buckets # <<>> /\ a \notin DOMAIN pair
  /\ \E r \in Results(a) :
       pair' = [b \in DOMAIN pair \cup {a} |-> IF b = a THEN r ELSE pair[b]]
  /\ UNCHANGED <<buckets, tasks, advice>>

(* Its Campaign reports, and the Suite keeps the summary. *)
ReportTask ==
  /\ DOMAIN pair = {"control", "treatment"}
  /\ tasks' = Append(tasks, SummaryOf(Head(buckets), pair))
  /\ buckets' = Tail(buckets)
  /\ pair' = <<>>
  /\ UNCHANGED advice

ReportSuite ==
  /\ buckets = <<>> /\ advice = "none"
  /\ advice' = SuiteAction(tasks)
  /\ UNCHANGED <<buckets, pair, tasks>>

VerdictsNext ==
  \/ \E a \in {"control", "treatment"} : EvaluateArm(a)
  \/ ReportTask
  \/ ReportSuite

VerdictsSpec == VerdictsInit /\ [][VerdictsNext]_rvars

-----------------------------------------------------------------------------
(* Type invariant of the reports. *)
VerdictsTypeOK ==
  /\ Len(buckets) + Len(tasks) = 3
  /\ DOMAIN pair \subseteq {"control", "treatment"}
  /\ \A a \in DOMAIN pair : pair[a] \in Results(a)
  /\ \A t \in Range(tasks) : {t.paired, t.suite} \subseteq {"valid", "invalid", "insufficient"}
  /\ advice \in {"none", "keep", "iterate_binding", "keep_baseline", "run_more"}

(***************************************************************************)
(* "keep" is earned.  A pair is kept only when both arms were verified and *)
(* measured in full, the Goal was there, and no known cost rose.  A Suite  *)
(* is kept only when in every Task nothing was invalid, no control had the *)
(* Harness, and nothing that was to be measured is missing; the Harness    *)
(* worked where it must and stayed away where it must not.                 *)
(***************************************************************************)
KeepIsEarned ==
  /\ \A t \in Range(tasks) :
       t.kept => t.paired = "valid" /\ t.whole /\ t.passed /\ t.activated /\ ~t.dearer
  /\ advice = "keep" =>
       \A t \in Range(tasks) :
         /\ t.paired # "invalid" /\ ~t.control /\ t.whole
         /\ t.bucket = "trigger" => t.activated
         /\ t.bucket = "non-trigger" => ~t.activated

(***************************************************************************)
(* The product plan of Phase 2, section 6, of a holdout whose treatment    *)
(* did not activate: the Suite takes the insufficient pair for valid only  *)
(* when both arms' outcomes passed, the other evidence is valid and the    *)
(* Goal that did not start is the only gap.                                *)
(***************************************************************************)
NormalisedOnlyWhenPassed ==
  \A t \in Range(tasks) :
    t.bucket = "holdout" /\ t.suite = "valid" /\ t.paired = "insufficient" => t.passed
=============================================================================
