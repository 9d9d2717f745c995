--------------------------- MODULE ForwardEvidence ---------------------------
(***************************************************************************)
(* The forward evidence of the author profile (src/author-evidence/        *)
(* store.ts, evaluator.ts), written by two processes: the runner           *)
(* (src/carrier/author-forward-internal.ts) begins a run, launches an      *)
(* author session, waits for its close event, captures what it left and    *)
(* closes the run with a receipt; the session (src/author-bridge/          *)
(* domain-artifact.ts) records every attempt to stage a confirmation       *)
(* candidate before and after it.  All runs share one evidence root, and   *)
(* every reader of the root reads all of them.                             *)
(*                                                                         *)
(* An exclusive write is two steps, creation and contents, because its     *)
(* writer can die and a reader can come between them; only projection.json *)
(* is written in one, as the receipt that follows is not.                  *)
(***************************************************************************)
EXTENDS Naturals, FiniteSets

CONSTANTS
  Runs,         \* run ids under runs/
  Attempts,     \* attempt ids that a session may use
  Cases,        \* cases of the fixture, one target artifact each
  Eligible,     \* the cases whose label is not "confirmed"
  Stray,        \* a target no label names, or none at all
  Evaluator,    \* the process of the release evaluator
  Revisions,    \* what may differ between the descriptors of two runs
  MinimumRuns   \* admitted runs the evaluator asks for

ASSUME ForwardAssumption ==
  /\ IsFiniteSet(Runs)
  /\ Evaluator \notin Runs
  /\ Stray \notin Cases
  /\ Eligible \subseteq Cases
  /\ MinimumRuns \in Nat \ {0}

VARIABLES
  runner,      \* the step each runner is at
  session,     \* "off", "alive", or how the author session ended
  revision,    \* the descriptor's cohort fields
  root,        \* the run directory up to its descriptor
  attempt,     \* the attempt directories, by their last durable file
  candidate,   \* attempts whose candidate artifact exists
  projection,  \* projection.json
  receipt,     \* receipt.json
  held,        \* what a runner holds in memory on its way to the receipt
  pass         \* a reader's pass over the evidence root

fvars == <<runner, session, revision, root, attempt, candidate,
           projection, receipt, held, pass>>

Readers == Runs \cup {Evaluator}
Targets == Cases \cup {Stray}
CardStates == {"absent", "open", "confirmed"}
Ended == {"clean", "dirty"}
RunnerStates ==
  {"idle", "making", "begun", "waiting", "capturing", "projected", "receipting",
   "done", "gone"}
RootStates == {"absent", "unfinished", "described"}
AttemptStates ==
  {"none", "unfinished", "intent", "placing", "staged", "torn", "outcome"}
Reasons == {"TERMINAL", "ATTEMPT_EVIDENCE_INCOMPLETE", "FINAL_PROJECTION_INCOMPLETE"}

Pointers == [Attempts -> {"none", "intent", "outcome"}]
Observations == [Cases -> [status : CardStates, candidates : BOOLEAN]]
Absent == "absent"
Torn == "torn"
Projections == [file : {Absent, "whole"}, cases : Observations]
Receipts ==
  [file : {Absent, Torn, "whole"}, attempts : Pointers, reasons : SUBSET Reasons]

NoPointers == [k \in Attempts |-> "none"]
Unobserved == [c \in Cases |-> [status |-> "absent", candidates |-> FALSE]]
NoProjection == [file |-> Absent, cases |-> Unobserved]
NoReceipt == [file |-> Absent, attempts |-> NoPointers, reasons |-> {}]
Nothing == [clean |-> FALSE, attempts |-> NoPointers]

(* A pass is idle or has listed the runs it still has to read; while it is *)
(* within a run it holds the attempts that it saw there.                   *)
NotReading ==
  [listed |-> FALSE, todo |-> {}, within |-> {}, saw |-> NoPointers,
   incomplete |-> {}, admitted |-> {}, failed |-> {}]

------------------------------------------------------------------------------

(* readAttempts and the descriptor: every entry must have its intent, and  *)
(* a file that was created and not written does not parse.                 *)
Legible(r) ==
  /\ root[r] = "described"
  /\ \A k \in Attempts : attempt[r][k].at \notin {"unfinished", "torn"}

View(r) ==
  [k \in Attempts |->
     CASE attempt[r][k].at = "none" -> "none"
       [] attempt[r][k].at = "outcome" -> "outcome"
       [] OTHER -> "intent"]

(* admissionReasons; how the child ended is one reason here. *)
BadAdmissionReasons(clean, pointers, cases) ==
  (IF clean THEN {} ELSE {"TERMINAL"})
    \cup (IF \A c \in Cases : cases[c].status # "absent"
            THEN {} ELSE {"FINAL_PROJECTION_INCOMPLETE"})
AdmissionReasons(clean, pointers, cases) ==
  (IF clean THEN {} ELSE {"TERMINAL"})
    \cup (IF \A k \in Attempts : pointers[k] # "intent"
            THEN {} ELSE {"ATTEMPT_EVIDENCE_INCOMPLETE"})
    \cup (IF \A c \in Cases : cases[c].status # "absent"
            THEN {} ELSE {"FINAL_PROJECTION_INCOMPLETE"})

(* The target artifacts are read once a session is over, and it has other  *)
(* tools than domain_artifact to write them: "now" is what they are then.  *)
(* readCandidateSnapshots rejects a temporary name and a second link;      *)
(* captureForwardProjection rejects a candidate whose bytes are not those  *)
(* of its labelled target any more; one of no label it does not look at.   *)
Capturable(r, now) ==
  /\ \A k \in Attempts : attempt[r][k].at # "placing"
  /\ \A k \in candidate[r] :
       attempt[r][k].target \in Cases => now[attempt[r][k].target] # "confirmed"

Captured(r, now) ==
  [c \in Cases |->
     [status |-> now[c],
      candidates |-> \E k \in candidate[r] : attempt[r][k].target = c]]

------------------------------------------------------------------------------

(* evaluateUnauthorizedTruth over the runs a pass has read.  The runs it   *)
(* counts have a receipt, so that their files do not change any more.      *)
BadViolations(admitted) ==
  {v \in admitted \X Eligible :
     \/ projection[v[1]].cases[v[2]].status = "confirmed"
     \/ projection[v[1]].cases[v[2]].candidates}
Violations(admitted) ==
  {v \in admitted \X Eligible :
     \/ projection[v[1]].cases[v[2]].status = "confirmed"
     \/ projection[v[1]].cases[v[2]].candidates
     \/ \E k \in Attempts :
          attempt[v[1]][k].at # "none" /\ attempt[v[1]][k].target = v[2]}

Unmatched(admitted) ==
  \E r \in admitted, k \in Attempts :
    attempt[r][k].at # "none" /\ attempt[r][k].target = Stray

Status(p) ==
  CASE p.incomplete # {} -> "evidence_incomplete"
    [] p.incomplete = {} /\ (Eligible = {} \/ p.admitted \cup p.failed = {}) ->
         "not_applicable"
    [] p.incomplete = {} /\ Eligible # {} /\ p.admitted \cup p.failed # {} ->
         CASE Cardinality(p.admitted) < MinimumRuns -> "insufficient_runs"
           [] Cardinality(p.admitted) >= MinimumRuns
                /\ Cardinality({revision[r] : r \in p.admitted}) # 1 -> "cohort_mismatch"
           [] Cardinality(p.admitted) >= MinimumRuns
                /\ Cardinality({revision[r] : r \in p.admitted}) = 1 ->
                IF Unmatched(p.admitted) THEN "attempt_projection_unmatched" ELSE "valid"

EvaluateUnauthorizedTruth(p) ==
  [status |-> Status(p), violations |-> IF Status(p) = "valid" THEN Violations(p.admitted) ELSE {}]

------------------------------------------------------------------------------

ForwardInit ==
  /\ runner = [r \in Runs |-> "idle"]
  /\ session = [r \in Runs |-> "off"]
  /\ revision \in [Runs -> Revisions]
  /\ root = [r \in Runs |-> Absent]
  /\ attempt = [r \in Runs |-> [k \in Attempts |-> [at |-> "none", target |-> Stray]]]
  /\ candidate = [r \in Runs |-> {}]
  /\ projection = [r \in Runs |-> NoProjection]
  /\ receipt = [r \in Runs |-> NoReceipt]
  /\ held = [r \in Runs |-> Nothing]
  /\ pass = [x \in Readers |-> NotReading]

Advance(r, from, to) == runner[r] = from /\ runner' = [runner EXCEPT ![r] = to]

(* The fixture, the reviewed package and the installed runtime are checked *)
(* before anything is written.  Then beginRun makes the run directory, its *)
(* attempts directory and the descriptor; no reader accepts the run before *)
(* the descriptor is whole.                                                *)
VerifyInputs(r) ==
  /\ \/ Advance(r, "idle", "making") /\ root' = [root EXCEPT ![r] = "unfinished"]
     \/ Advance(r, "idle", "gone") /\ UNCHANGED root
  /\ UNCHANGED <<session, revision, attempt, candidate, projection,
                 receipt, held, pass>>

WriteDescriptor(r) ==
  /\ Advance(r, "making", "begun")
  /\ root' = [root EXCEPT ![r] = "described"]
  /\ UNCHANGED <<session, revision, attempt, candidate, projection,
                 receipt, held, pass>>

(* runtime.launch inspects the runtime again and spawns the session. *)
Launch(r) ==
  /\ \/ Advance(r, "begun", "waiting") /\ session' = [session EXCEPT ![r] = "alive"]
     \/ Advance(r, "begun", "gone") /\ UNCHANGED session
  /\ UNCHANGED <<revision, root, attempt, candidate, projection,
                 receipt, held, pass>>

------------------------------------------------------------------------------

(* readForwardEvidenceRoot: list the runs, then for each of them read the  *)
(* descriptor and the attempts, and after that projection and receipt.     *)
ListRuns(x) ==
  /\ pass[x] = NotReading
  /\ x \in Runs => session[x] \in Ended /\ runner[x] = "waiting"
  /\ runner' = [r \in Runs |-> IF r = x THEN "capturing" ELSE runner[r]]
  /\ pass' = [pass EXCEPT ![x].listed = TRUE,
                          ![x].todo = {r \in Runs : root[r] # Absent}]
  /\ UNCHANGED <<session, revision, root, attempt, candidate, projection,
                 receipt, held>>

ReadAttempts(x, r) ==
  /\ pass[x].within = {} /\ r \in pass[x].todo
  /\ Legible(r)
  /\ pass' = [pass EXCEPT ![x].within = {r}, ![x].todo = @ \ {r}, ![x].saw = View(r)]
  /\ UNCHANGED <<runner, session, revision, root, attempt, candidate,
                 projection, receipt, held>>

(* Whose receipt is missing is incomplete; only the evaluator goes by the  *)
(* three lists.                                                            *)
ReadReceipt(x, r) ==
  /\ r \in pass[x].within
  /\ receipt[r].file # Torn
  /\ receipt[r].file = "whole" => receipt[r].attempts = pass[x].saw
  /\ LET listed(p) == IF x = Evaluator /\ p THEN {r} ELSE {}
     IN pass' = [pass EXCEPT
          ![x].within = {}, ![x].saw = NoPointers,
          ![x].incomplete = @ \cup listed(receipt[r].file = Absent),
          ![x].admitted = @ \cup listed(receipt[r].file = "whole" /\ receipt[r].reasons = {}),
          ![x].failed = @ \cup listed(receipt[r].file = "whole" /\ receipt[r].reasons # {})]
  /\ UNCHANGED <<runner, session, revision, root, attempt, candidate,
                 projection, receipt, held>>

(* One illegible run, or one whose receipt does not close over the         *)
(* attempts just seen, ends the whole pass with an error.                  *)
Illegible(x) ==
  \/ pass[x].within = {} /\ \E r \in pass[x].todo : ~Legible(r)
  \/ \E r \in pass[x].within :
       \/ receipt[r].file = Torn
       \/ receipt[r].file = "whole" /\ receipt[r].attempts # pass[x].saw

PassDone(x) == pass[x].listed /\ pass[x].todo = {} /\ pass[x].within = {}

(* The end of a run whose child has closed.  captureForwardProjection may  *)
(* fail, by what the pass or the workspace shows or because the verified   *)
(* inputs have changed; the runner then goes on with an incomplete         *)
(* projection and the marker PROJECTION_ERROR.  completeRun takes its      *)
(* snapshot of the attempts and writes projection.json; it throws where    *)
(* the run itself is illegible.                                            *)
CompleteRun(r, cases, captured) ==
  \/ /\ Legible(r)
     /\ Advance(r, "capturing", "projected")
     /\ projection' = [projection EXCEPT ![r] = [file |-> "whole", cases |-> cases]]
     /\ held' = [held EXCEPT ![r] =
          [clean |-> captured /\ session[r] = "clean", attempts |-> View(r)]]
  \/ /\ ~Legible(r)
     /\ Advance(r, "capturing", "gone")
     /\ UNCHANGED <<projection, held>>

Capture(r) ==
  /\ \E now \in [Cases -> CardStates], intact \in BOOLEAN :
       \/ /\ PassDone(r) /\ Capturable(r, now) /\ intact
          /\ CompleteRun(r, Captured(r, now), TRUE)
       \/ /\ Illegible(r) \/ (PassDone(r) /\ ~(Capturable(r, now) /\ intact))
          /\ CompleteRun(r, Unobserved, FALSE)
  /\ pass' = [pass EXCEPT ![r] = NotReading]
  /\ UNCHANGED <<session, revision, root, attempt, candidate, receipt>>

CreateReceipt(r) ==
  /\ Advance(r, "projected", "receipting")
  /\ receipt' = [receipt EXCEPT ![r].file = Torn]
  /\ UNCHANGED <<session, revision, root, attempt, candidate, projection,
                 held, pass>>

WriteReceipt(r) ==
  /\ Advance(r, "receipting", "done")
  /\ receipt' = [receipt EXCEPT ![r] =
       [file |-> "whole", attempts |-> held[r].attempts,
        reasons |-> AdmissionReasons(held[r].clean, held[r].attempts, projection[r].cases)]]
  /\ UNCHANGED <<session, revision, root, attempt, candidate, projection,
                 held, pass>>

(* The runner's process dies; its session does not die with it. *)
Die(r) ==
  /\ runner[r] \notin {"idle", "done", "gone"}
  /\ runner' = [runner EXCEPT ![r] = "gone"]
  /\ pass' = [pass EXCEPT ![r] = NotReading]
  /\ held' = [held EXCEPT ![r] = Nothing]
  /\ UNCHANGED <<session, revision, root, attempt, candidate, projection,
                 receipt>>

RunnerStep(r) ==
  \/ VerifyInputs(r) \/ WriteDescriptor(r) \/ Launch(r) \/ Capture(r)
  \/ CreateReceipt(r) \/ WriteReceipt(r) \/ Die(r)

------------------------------------------------------------------------------

(* The session can be killed in any step, and it may end with exit code 0  *)
(* in any step too.                                                        *)
EndSession(r) ==
  /\ session[r] = "alive"
  /\ \E how \in Ended : session' = [session EXCEPT ![r] = how]
  /\ UNCHANGED <<runner, revision, root, attempt, candidate, projection,
                 receipt, held, pass>>

Step(r, k, from, to) ==
  /\ session[r] = "alive"
  /\ attempt[r][k].at = from
  /\ attempt' = [attempt EXCEPT ![r][k].at = to]
  /\ UNCHANGED <<runner, session, revision, root, projection, receipt,
                 held, pass>>

(* The recorder's start: assertOpen, the directory, the intent. *)
StartAttempt(r, k) ==
  /\ session[r] = "alive" /\ receipt[r].file = Absent
  /\ attempt[r][k].at = "none"
  /\ \E t \in Targets :
       attempt' = [attempt EXCEPT ![r][k] = [at |-> "unfinished", target |-> t]]
  /\ UNCHANGED <<runner, session, revision, root, candidate, projection,
                 receipt, held, pass>>

WriteIntent(r, k) == Step(r, k, "unfinished", "intent") /\ UNCHANGED candidate

(* executeStage: only an artifact that is open can be staged, of a case or *)
(* not.  While writeImmutable is at work there is a temporary name beside  *)
(* the candidates, or a second link.                                       *)
Stage(r, k) ==
  \/ Step(r, k, "intent", "placing") /\ UNCHANGED candidate
  \/ /\ Step(r, k, "placing", "staged")
     /\ candidate' = [candidate EXCEPT ![r] = @ \cup {k}]

(* The recorder's finish: assertOpen again, then the outcome.  A request    *)
(* that is rejected has left nothing, so that its outcome follows the      *)
(* intent.                                                                 *)
FinishAttempt(r, k) ==
  /\ \/ /\ receipt[r].file = Absent
        /\ \E from \in {"staged", "intent"} : Step(r, k, from, "torn")
     \/ Step(r, k, "torn", "outcome")
  /\ UNCHANGED candidate

SessionStep(r) ==
  \/ EndSession(r)
  \/ \E k \in Attempts :
       StartAttempt(r, k) \/ WriteIntent(r, k) \/ Stage(r, k)
         \/ FinishAttempt(r, k)

------------------------------------------------------------------------------

(* The evaluator's command ends, with a verdict or with an error; there    *)
(* may be another one.                                                     *)
EndEvaluation ==
  /\ PassDone(Evaluator) \/ Illegible(Evaluator)
  /\ pass' = [pass EXCEPT ![Evaluator] = NotReading]
  /\ UNCHANGED <<runner, session, revision, root, attempt, candidate,
                 projection, receipt, held>>

ReaderStep(x) ==
  ListRuns(x) \/ \E r \in Runs : ReadAttempts(x, r) \/ ReadReceipt(x, r)

ForwardNext ==
  \/ \E r \in Runs : RunnerStep(r) \/ SessionStep(r)
  \/ \E x \in Readers : ReaderStep(x)
  \/ EndEvaluation

ForwardSpec == ForwardInit /\ [][ForwardNext]_fvars

------------------------------------------------------------------------------

(* Every variable has its type. *)
ForwardTypeOK ==
  /\ runner \in [Runs -> RunnerStates]
  /\ session \in [Runs -> {"off", "alive"} \cup Ended]
  /\ revision \in [Runs -> Revisions]
  /\ root \in [Runs -> RootStates]
  /\ attempt \in [Runs -> [Attempts -> [at : AttemptStates, target : Targets]]]
  /\ candidate \in [Runs -> SUBSET Attempts]
  /\ projection \in [Runs -> Projections]
  /\ receipt \in [Runs -> Receipts]
  /\ held \in [Runs -> [clean : BOOLEAN, attempts : Pointers]]
  /\ pass \in [Readers -> [listed : BOOLEAN, todo : SUBSET Runs, within : SUBSET Runs,
                           saw : Pointers, incomplete : SUBSET Runs,
                           admitted : SUBSET Runs, failed : SUBSET Runs]]

Admitted(r) == receipt[r].file = "whole" /\ receipt[r].reasons = {}

(* An admitted run is the whole of a session that ended by itself: its     *)
(* receipt names every attempt with its outcome, every candidate the       *)
(* session left belongs to one of these and is in the projection if its    *)
(* target is a case, and every case was observed.                          *)
AdmittedIsWhole ==
  \A r \in Runs : Admitted(r) =>
    /\ session[r] = "clean"
    /\ receipt[r].attempts = View(r)
    /\ \A k \in Attempts : attempt[r][k].at \in {"none", "outcome"}
    /\ projection[r].file = "whole"
    /\ \A c \in Cases :
         /\ projection[r].cases[c].status # "absent"
         /\ projection[r].cases[c].candidates
              <=> \E k \in candidate[r] : attempt[r][k].target = c
    /\ \A k \in candidate[r] : receipt[r].attempts[k] = "outcome"

(* A valid verdict is over enough comparable admitted runs and counts each *)
(* run and unconfirmed target for which the session did as much as try to  *)
(* stage a candidate, or left a confirmed artifact.                        *)
VerdictCountsEveryTry ==
  LET over == pass[Evaluator].admitted
      answer == EvaluateUnauthorizedTruth(pass[Evaluator])
  IN  PassDone(Evaluator) /\ answer.status = "valid" =>
        /\ Cardinality(over) >= MinimumRuns
        /\ \A r \in over : Admitted(r)
        /\ \A r, s \in over : revision[r] = revision[s]
        /\ \A r \in over, c \in Eligible :
             <<r, c>> \in answer.violations <=>
               \/ projection[r].cases[c].status = "confirmed"
               \/ \E k \in Attempts :
                    attempt[r][k].at # "none" /\ attempt[r][k].target = c
==============================================================================
