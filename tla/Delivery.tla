------------------------------ MODULE Delivery ------------------------------
(***************************************************************************)
(* A commerce delivery (commerce/production.ts): a confirmed requirement   *)
(* is compiled into a deterministic grader, the grader is calibrated and   *)
(* admitted, a paired campaign runs the candidate with it, and the verdict *)
(* is written beside the campaign and replayed.  The withdrawal template   *)
(* (commerce-withdrawal/) is the same code with one more rule in its       *)
(* compiler, on the exact effects of the requirement.                      *)
(*                                                                         *)
(* Abstracted: digests are the version of the package they were taken of,  *)
(* an artifact is the step that wrote it, an episode is what its evidence  *)
(* says is wrong with it.  A reading that an edit overlaps is a reading of *)
(* a version of its own.                                                   *)
(***************************************************************************)
EXTENDS Naturals, FiniteSets

CONSTANTS
  PackClaims,    \* claims of the contract, and others that are named
  Behaviors,     \* behaviours of the observation catalog
  Requests,      \* the requirements that deliveries are asked for
  FrozenUses,    \* REQUIREMENT_USES of the withdrawal template
  FrozenKeeps,   \* REQUIREMENT_PRESERVES of the withdrawal template
  Versions       \* contents of the package, with the task pack in it

(***************************************************************************)
(* PackClaims has every claim that a requirement or a dependency names.    *)
(* One that the contract lacks, or has in another version, is a dormant    *)
(* one here: addEffect refuses it just the same.                           *)
(***************************************************************************)
ASSUME DeliveryAssumption ==
  /\ IsFiniteSet(PackClaims)
  /\ \A r \in Requests :
       /\ r.uses \subseteq PackClaims /\ r.preserves \subseteq PackClaims
       /\ r.dependencies \subseteq PackClaims \X PackClaims
       /\ r.observed \in [PackClaims -> SUBSET Behaviors]

VARIABLES
  request,       \* the requirement, with the claims it bears on
  package,       \* version of the package on disk
  drifted,       \* history: it was edited since the grader was compiled
  ran,           \* history: versions that the calibration, the arms and the oracle read
  at,            \* where the delivering process is
  graded,        \* version in the digests of the grader and its admission
  calibration,   \* vectors of the calibration candidates
  campaign,      \* phase in campaign-state.json
  prepared,      \* version in the digests of the campaign
  order,         \* arm_order
  arms,          \* what the evidence of each arm says is wrong with it
  vectors,       \* behaviour vector of each arm
  report,        \* verdict of the delivery report on disk
  replayed       \* verdict of the last replay

vvars == <<request, package, drifted, ran, at, graded, calibration, campaign, prepared, order, arms,
           vectors, report, replayed>>
disk == <<package, drifted, ran>>

Arm == {"control", "treatment"}
Status == {"pass", "fail", "error"}
Vectors == [Behaviors -> Status]
All(status) == [b \in Behaviors |-> status]
Failing(vector) == {b \in Behaviors : vector[b] = "fail"}
Erring(vector) == {b \in Behaviors : vector[b] = "error"}

-----------------------------------------------------------------------------
(* compileCommerceGrader.                                                  *)

(* The effects of a requirement: what it uses, and what it preserves or    *)
(* any of these depends on, level by level.                                *)
Reached(r) ==
  LET level[n \in 0..Cardinality(PackClaims)] ==
        IF n = 0 THEN r.uses \cup r.preserves
        ELSE level[n - 1] \cup {e[2] : e \in {f \in r.dependencies : f[1] \in level[n - 1]}}
  IN  level[Cardinality(PackClaims)]

(* Claims with an observation are graded, the others and what is only      *)
(* proposed are left over.                                                 *)
Graded(r) == {c \in Reached(r) : r.observed[c] # {}}
Residual(r) == (Reached(r) \ Graded(r)) \cup r.proposed
Axis(r, axis) ==
  {c \in Graded(r) : (axis = "requirement_delta") <=> (c \in r.uses)}

(* The rule of the withdrawal template: the effects are exactly the frozen *)
(* ones, dependencies included.                                            *)
ExactClosure(r) ==
  /\ PackClaims \cap r.dormant = {}
  /\ r.uses = FrozenUses /\ r.preserves = FrozenKeeps /\ r.proposed = {}
  /\ Reached(r) = FrozenUses \cup FrozenKeeps

(* The schema of the Claim IR: something is graded, no claim is graded and *)
(* left over, and what a graded claim depends on is graded.                *)
WellFormedIr(r) ==
  /\ Graded(r) # {}
  /\ Graded(r) \cap Residual(r) = {}
  /\ (Reached(r) \ Graded(r)) \cap r.proposed = {}
  /\ \A e \in r.dependencies : e[1] \in Graded(r) => e[2] \in Graded(r)

(* buildChecks: every behaviour of the catalog has a graded claim.         *)
PlanComplete(r) == \A b \in Behaviors : \E c \in Graded(r) : b \in r.observed[c]

Compiles(r) ==
  /\ ~r.withdraws
  /\ Reached(r) \cap r.dormant = {}
  /\ r.template = "withdrawal" => ExactClosure(r)
  /\ WellFormedIr(r)
  /\ PlanComplete(r)

-----------------------------------------------------------------------------
(* buildCommerceGraderAdmission.  The counterexamples of the catalog are   *)
(* the red base, which fails everywhere, and a mutant for each behaviour.  *)

Expected == [k \in {"red"} \cup Behaviors |-> IF k = "red" THEN Behaviors ELSE {k}]
Candidates == {"red", "gold", "repeat", "next"} \cup Behaviors

Ideal ==
  [k \in Candidates |->
    IF k \in DOMAIN Expected
      THEN [b \in Behaviors |-> IF b \in Expected[k] THEN "fail" ELSE "pass"]
      ELSE All("pass")]

(* What a calibration can come to: as frozen, or with one vector off.      *)
Calibrations ==
  {[Ideal EXCEPT ![k] = vector] : k \in Candidates, vector \in Vectors}

Admitted(cal) ==
  /\ Failing(cal["red"]) # {} /\ Erring(cal["red"]) = {}
  /\ Failing(cal["gold"]) = {} /\ Erring(cal["gold"]) = {}
  /\ \A k \in DOMAIN Expected : Erring(cal[k]) = {} /\ Failing(cal[k]) = Expected[k]
  /\ cal["repeat"] = cal["gold"]
  /\ cal["next"] = cal["gold"]
  /\ \A b \in Behaviors : \E k \in DOMAIN Expected : cal[k][b] = "fail"

-----------------------------------------------------------------------------
(* The evaluation of an arm and of the pair.                               *)

(* What can be wrong with an episode: a path outside src was changed; a    *)
(* hard gate failed (prompt isolation, candidate tree after the oracle,    *)
(* deployment, exit code); the session is too thin for the projector; no   *)
(* goal was created.                                                       *)
Flaws == {"none", "unauthorized", "gate", "thin", "goalless"}

(* commerceEvaluationFromEvidence: the overall validity of an arm.         *)
ArmValidity(arm, flaw, vector) ==
  IF flaw \in {"unauthorized", "gate"} \/ Erring(vector) # {} THEN "invalid"
  ELSE IF flaw = "thin" \/ (flaw = "goalless" /\ arm = "treatment") THEN "insufficient"
  ELSE "valid"

(* combineCommerceValidity.                                                *)
Combined ==
  LET of == {ArmValidity(a, arms[a], vectors[a]) : a \in Arm}
  IN  IF "invalid" \in of THEN "invalid"
      ELSE IF "insufficient" \in of THEN "insufficient" ELSE "valid"

(* axisProjection: the status of an axis is the worst of its claims, which *)
(* is the worst of their behaviours in the treatment arm.                  *)
AxisStatus(r, axis) ==
  LET seen == {vectors["treatment"][b] : b \in UNION {r.observed[c] : c \in Axis(r, axis)}}
  IN  IF "error" \in seen THEN "error" ELSE IF "fail" \in seen THEN "fail" ELSE "pass"

(* buildCommerceDeliveryReport: it needs a claim on each axis.             *)
Reportable(r) == \A axis \in {"requirement_delta", "domain_preservation"} : Axis(r, axis) # {}

AxisStatuses(r) == {AxisStatus(r, axis) : axis \in {"requirement_delta", "domain_preservation"}}

BadVerdict(r) ==
  IF Combined # "valid" \/ "error" \in AxisStatuses(r) THEN "inconclusive"
  ELSE IF "fail" \in AxisStatuses(r) THEN "reject" ELSE "accept"

Verdict(r) ==
  IF Combined # "valid" \/ Residual(r) # {} \/ "error" \in AxisStatuses(r) THEN "inconclusive"
  ELSE IF "fail" \in AxisStatuses(r) THEN "reject" ELSE "accept"

(* boundCampaign: grader, admission and campaign name one package.         *)
Bound == graded = prepared

-----------------------------------------------------------------------------
DeliveryInit ==
  /\ request \in Requests
  /\ package \in Versions /\ drifted = FALSE /\ ran = {}
  /\ at = "compile"
  /\ graded = package /\ prepared = package
  /\ calibration = Ideal
  /\ campaign = "none"
  /\ order = <<"control", "treatment">>
  /\ arms = [a \in Arm |-> "none"]
  /\ vectors = [a \in Arm |-> All("pass")]
  /\ report = "none" /\ replayed = "none"

(* The package is read and the version remembered, as no step of the code  *)
(* does.                                                                   *)
Read == ran' = ran \cup {package} /\ UNCHANGED <<package, drifted>>

(* The pack is validated, the digests are taken and the grader compiled.   *)
Compile ==
  /\ at = "compile"
  /\ graded' = package
  /\ at' = IF Compiles(request) THEN "calibrate" ELSE "refused"
  /\ UNCHANGED <<request, disk, calibration, campaign, prepared, order, arms, vectors,
                 report, replayed>>

(* calibrateCommercePackDetailed and the admission.  Base, Gold, mutants   *)
(* and oracle runner are read from the package as it is then.              *)
Calibrate ==
  /\ at = "calibrate"
  /\ Read
  /\ calibration' \in Calibrations
  /\ at' = IF Admitted(calibration') THEN "prepare" ELSE "refused"
  /\ UNCHANGED <<request, graded, campaign, prepared, order, arms, vectors,
                 report, replayed>>

(* prepareRealDeployment and runRealCommerceCampaign take the digests      *)
(* again before they ask.                                                  *)
Prepare ==
  /\ at = "prepare"
  /\ prepared' = package
  /\ at' = "confirm"
  /\ UNCHANGED <<request, disk, graded, calibration, campaign, order, arms, vectors,
                 report, replayed>>

(* The owner declines, the carrier does not qualify, or the base is copied *)
(* for both arms, the campaign is initialized and its inputs are frozen.   *)
Confirm ==
  /\ at = "confirm"
  /\ \/ at' = "refused" /\ UNCHANGED <<disk, campaign, order>>
     \/ /\ at' = "campaign"
        /\ Read
        /\ campaign' = "qualified"
        /\ order' \in {<<"control", "treatment">>, <<"treatment", "control">>}
  /\ UNCHANGED <<request, graded, calibration, prepared, arms, vectors, report, replayed>>

InPhase(phase) == at = "campaign" /\ campaign = phase

(* The carrier reads the patches of the variant where they lie.            *)
LaunchArm ==
  /\ \/ InPhase("qualified") /\ campaign' = "arm_1_running"
     \/ InPhase("arm_1_frozen") /\ campaign' = "arm_2_running"
  /\ Read
  /\ UNCHANGED <<request, at, graded, calibration, prepared, order, arms, vectors,
                 report, replayed>>

(* The episode ends within its bounds, its candidate is frozen and its     *)
(* evidence persisted (persistCommerceArm).                                *)
FreezeArm ==
  /\ \E flaw \in Flaws :
       \/ /\ InPhase("arm_1_running") /\ campaign' = "arm_1_frozen"
          /\ arms' = [arms EXCEPT ![order[1]] = flaw]
       \/ /\ InPhase("arm_2_running") /\ campaign' = "arm_2_frozen"
          /\ arms' = [arms EXCEPT ![order[2]] = flaw]
  /\ UNCHANGED <<request, disk, at, graded, calibration, prepared, order, vectors,
                 report, replayed>>

StartOracle ==
  /\ InPhase("arm_2_frozen")
  /\ campaign' = "oracle_running"
  /\ UNCHANGED <<request, disk, at, graded, calibration, prepared, order, arms, vectors,
                 report, replayed>>

(* evaluateArm: an unauthorized candidate is not run and its vector is all *)
(* errors, any other is run with the oracle runner as it is then; the      *)
(* episodes and the evaluation are written.  Of the control arm only       *)
(* whether a behaviour errs matters, so that its vector is uniform here.   *)
OracleVectors(arm) ==
  IF arms[arm] = "unauthorized" THEN {All("error")}
  ELSE IF arm = "control" THEN {All(status) : status \in Status} ELSE Vectors

Evaluate ==
  /\ InPhase("oracle_running")
  /\ \E control \in OracleVectors("control"), treatment \in OracleVectors("treatment") :
       vectors' = [control |-> control, treatment |-> treatment]
  /\ campaign' = "projected"
  /\ IF \A a \in Arm : arms[a] = "unauthorized" THEN UNCHANGED disk ELSE Read
  /\ UNCHANGED <<request, at, graded, calibration, prepared, order, arms,
                 report, replayed>>

(* The report of the pair is written and replayed from the evidence.       *)
ReportPair ==
  /\ InPhase("projected")
  /\ campaign' = "reported"
  /\ at' = "bind"
  /\ UNCHANGED <<request, disk, graded, calibration, prepared, order, arms, vectors,
                 report, replayed>>

(* Anything in the campaign throws: it is marked interrupted.              *)
Interrupt ==
  /\ at = "campaign"
  /\ campaign' = "interrupted"
  /\ at' = "refused"
  /\ UNCHANGED <<request, disk, graded, calibration, prepared, order, arms, vectors,
                 report, replayed>>

(* persistCommerceDelivery: the campaign is replayed and bound and the     *)
(* report built; a report that cannot be bound or built ends the delivery, *)
(* with the campaign reported.  Catalog, Claim IR, plan and admission are  *)
(* written first.                                                          *)
Bind ==
  /\ at = "bind"
  /\ at' = IF Bound /\ Reportable(request) THEN "publish" ELSE "refused"
  /\ UNCHANGED <<request, disk, graded, calibration, campaign, prepared, order, arms,
                 vectors, report, replayed>>

PublishReport ==
  /\ at = "publish"
  /\ report' = Verdict(request)
  /\ at' = "replay"
  /\ UNCHANGED <<request, disk, graded, calibration, campaign, prepared, order, arms,
                 vectors, replayed>>

(* replayCommerceDelivery, by the delivery itself before it returns or by  *)
(* the replay command at any time later: the report is rebuilt from the    *)
(* frozen evidence and has to be the one on disk.                          *)
Replays ==
  /\ campaign = "reported" /\ Bound /\ Reportable(request)
  /\ report = Verdict(request)

Replay ==
  /\ report # "none"
  /\ Replays
  /\ replayed' = report
  /\ at' \in IF at = "replay" THEN {"replay", "done"} ELSE {at}
  /\ UNCHANGED <<request, disk, graded, calibration, campaign, prepared, order, arms,
                 vectors, report>>

(* Somebody edits the package or puts an earlier version back, at any time *)
(* from the first digest on while the process works.                       *)
Edit ==
  /\ at \notin {"compile", "done", "refused", "dead"}
  /\ \E version \in Versions \ {package} : package' = version
  /\ drifted' = TRUE
  /\ UNCHANGED <<request, ran, at, graded, calibration, campaign, prepared, order, arms, vectors,
                 report, replayed>>

(* The process dies.                                                       *)
DieDelivering ==
  /\ at \notin {"done", "refused", "dead"}
  /\ at' = "dead"
  /\ UNCHANGED <<request, disk, graded, calibration, campaign, prepared, order, arms,
                 vectors, report, replayed>>

DeliveryNext ==
  \/ Compile \/ Calibrate \/ Prepare \/ Confirm \/ LaunchArm \/ FreezeArm \/ StartOracle
  \/ Evaluate \/ ReportPair \/ Interrupt \/ Bind \/ PublishReport \/ Replay \/ Edit \/ DieDelivering

DeliverySpec == DeliveryInit /\ [][DeliveryNext]_vvars

-----------------------------------------------------------------------------
(* The claims a requirement bears on, without an order of discovery: those *)
(* in every set that holds what it uses and preserves and is closed under  *)
(* dependencies.                                                           *)
Concerned(r) ==
  {c \in PackClaims :
    \A closed \in SUBSET PackClaims :
      (/\ r.uses \cup r.preserves \subseteq closed
       /\ \A e \in r.dependencies : e[1] \in closed => e[2] \in closed)
      => c \in closed}

(* A verdict other than inconclusive was earned: each claim that the       *)
(* requirement bears on is active and observed, nothing it proposes is     *)
(* left unjudged, the grader was admitted (it passes gold twice and fails  *)
(* a counterexample for each behaviour), and the campaign ended with two   *)
(* arms without a flaw or an oracle error.  Accepted, every observed       *)
(* behaviour of every such claim passed in the treatment; rejected, one of *)
(* them failed.  Of the package it says what the code can: the digests of  *)
(* grader, admission and campaign are of one version, and that is the one  *)
(* that calibration, arms and oracle ran on unless somebody edited the     *)
(* package meanwhile, which the equal digests do not rule out.             *)
(* (compiler.ts, admission.ts, validity.ts, delivery-report.ts and         *)
(* delivery-artifacts.ts decide on a part of this each.)                   *)
VerdictIsEarned ==
  report \in {"accept", "reject"} =>
    /\ \A c \in Concerned(request) : request.observed[c] # {} /\ c \notin request.dormant
    /\ request.proposed = {} /\ ~request.withdraws
    /\ calibration["gold"] = All("pass") /\ calibration["next"] = All("pass")
    /\ \A b \in Behaviors : \E k \in Candidates : calibration[k][b] = "fail"
    /\ campaign = "reported" /\ graded = prepared
    /\ drifted \/ ran = {graded}
    /\ arms["control"] \in {"none", "goalless"} /\ arms["treatment"] = "none"
    /\ \A a \in Arm : Erring(vectors[a]) = {}
    /\ (report = "accept") <=>
         \A c \in Concerned(request) : \A b \in request.observed[c] :
           vectors["treatment"][b] = "pass"
    /\ replayed \in {"none", report}
==============================================================================
