--------------------------- MODULE Authoring_proofs ---------------------------
(***************************************************************************)
(* Proofs about what an author's work comes to: the evidence of forward    *)
(* runs, for any finite number of runs and any number of attempts and      *)
(* cases, and the domain authority, for any number of claims, questions,   *)
(* stamps and confirm commands.                                            *)
(*                                                                         *)
(* Forward evidence first.  The invariant is ClosedInv: what a run's files *)
(* say of each other at each place of its runner.                          *)
(***************************************************************************)
EXTENDS ForwardEvidence, DomainAuthority, FiniteSetTheorems, TLAPS

(* Three lemmas on the operators: what a reader sees of the attempts, the  *)
(* reasons of a receipt, and what a capture observes, have their types.    *)
LEMMA ViewTyped ==
  ASSUME ForwardTypeOK, NEW r \in Runs PROVE View(r) \in Pointers
<1>1. \A k \in Attempts : View(r)[k] \in {"none", "intent", "outcome"}
  BY DEF View
<1> QED
  BY <1>1 DEF View, Pointers

LEMMA ReasonsTyped ==
  ASSUME NEW clean, NEW pointers, NEW cases
  PROVE  AdmissionReasons(clean, pointers, cases) \subseteq Reasons
BY DEF AdmissionReasons, Reasons

LEMMA CapturedTyped ==
  ASSUME NEW r \in Runs, NEW now \in [Cases -> CardStates]
  PROVE  Captured(r, now) \in Observations
<1>1. \A c \in Cases :
        [status |-> now[c], candidates |-> \E k \in candidate[r] : attempt[r][k].target = c]
          \in [status : CardStates, candidates : BOOLEAN]
  <2> TAKE c \in Cases
  <2> DEFINE b == \E k \in candidate[r] : attempt[r][k].target = c
  <2>1. b \in BOOLEAN
    OBVIOUS
  <2> HIDE DEF b
  <2> QED
    BY <2>1
<1> QED
  BY <1>1, Zenon DEF Captured, Observations

(* What a reader has of its pass over the root.                            *)
Passing ==
  [listed : BOOLEAN, todo : SUBSET Runs, within : SUBSET Runs, saw : Pointers,
   incomplete : SUBSET Runs, admitted : SUBSET Runs, failed : SUBSET Runs]

(* The values that stand for nothing have the types of what they stand for.*)
LEMMA NothingTyped ==
  /\ NoPointers \in Pointers
  /\ Unobserved \in Observations
  /\ NoProjection \in Projections
  /\ NoReceipt \in Receipts
  /\ Nothing \in [clean : BOOLEAN, attempts : Pointers]
  /\ NotReading \in Passing
<1>1. NoPointers \in Pointers
  BY DEF NoPointers, Pointers
<1>2. Unobserved \in Observations
  BY DEF Unobserved, Observations, CardStates
<1>3. NoProjection \in Projections
  BY <1>2 DEF NoProjection, Projections
<1>4. NoReceipt \in Receipts
  BY <1>1 DEF NoReceipt, Receipts
<1>5. Nothing \in [clean : BOOLEAN, attempts : Pointers]
  BY <1>1 DEF Nothing
<1>6. NotReading \in Passing
  BY <1>1 DEF NotReading, Passing
<1> QED
  BY <1>1, <1>2, <1>3, <1>4, <1>5, <1>6

(* The four parts of the type invariant: the empty root, the runner's      *)
(* steps, the session's, and the readers'.                                 *)
LEMMA InitTyped == ASSUME ForwardInit PROVE ForwardTypeOK
BY NothingTyped
   DEF ForwardInit, ForwardTypeOK, RunnerStates, RootStates, AttemptStates, Targets, Absent, Passing

LEMMA RunnerTyped == ASSUME ForwardTypeOK, NEW r \in Runs, RunnerStep(r) PROVE ForwardTypeOK'
<1> USE DEF Advance, RunnerStates, RootStates
<1>1. CASE VerifyInputs(r)
  BY <1>1 DEF ForwardTypeOK, VerifyInputs
<1>2. CASE WriteDescriptor(r)
  BY <1>2 DEF ForwardTypeOK, WriteDescriptor
<1>3. CASE Launch(r)
  BY <1>3 DEF ForwardTypeOK, Launch
<1>4. CASE Capture(r)
  <2>0. PICK now \in [Cases -> CardStates], captured \in BOOLEAN :
          \/ CompleteRun(r, Captured(r, now), captured)
          \/ CompleteRun(r, Unobserved, captured)
    BY <1>4 DEF Capture
  <2>1. PICK cases \in {Captured(r, now), Unobserved} : CompleteRun(r, cases, captured)
    BY <2>0
  <2>2. cases \in Observations
    BY <2>1, CapturedTyped, NothingTyped
  <2>3. /\ projection' \in [Runs -> Projections]
        /\ runner' \in [Runs -> RunnerStates]
    <3>1. [file |-> "whole", cases |-> cases] \in Projections
      BY <2>2 DEF Projections
    <3>2. CASE UNCHANGED projection /\ runner' = [runner EXCEPT ![r] = "gone"]
      BY <3>2 DEF ForwardTypeOK
    <3>3. CASE /\ projection' = [projection EXCEPT ![r] = [file |-> "whole", cases |-> cases]]
               /\ runner' = [runner EXCEPT ![r] = "projected"]
      BY <3>1, <3>3 DEF ForwardTypeOK
    <3> QED
      BY <2>1, <3>2, <3>3 DEF CompleteRun
  <2>4. held' \in [Runs -> [clean : BOOLEAN, attempts : Pointers]]
    <3>1. CASE UNCHANGED held
      BY <3>1 DEF ForwardTypeOK
    <3>2. CASE held' = [held EXCEPT ![r] =
                 [clean |-> captured /\ session[r] = "clean", attempts |-> View(r)]]
      <4> DEFINE b == captured /\ session[r] = "clean"
      <4>1. b \in BOOLEAN
        BY <2>1
      <4>2. View(r) \in Pointers
        BY ViewTyped
      <4> HIDE DEF b
      <4> QED
        BY <3>2, <4>1, <4>2 DEF ForwardTypeOK, b
    <3> QED
      BY <2>1, <3>1, <3>2 DEF CompleteRun
  <2>5. pass' \in [Readers -> Passing]
    BY <1>4, NothingTyped DEF ForwardTypeOK, Capture, Passing, Readers
  <2> QED
    BY <1>4, <2>3, <2>4, <2>5 DEF ForwardTypeOK, Capture, Passing
<1>5. CASE CreateReceipt(r)
  <2> DEFINE new == [receipt[r] EXCEPT !.file = Torn]
  <2>1. new \in Receipts
    <3>1. receipt[r] \in Receipts
      BY DEF ForwardTypeOK
    <3> QED
      BY <3>1 DEF Receipts
  <2>2. receipt' = [receipt EXCEPT ![r] = new]
    BY <1>5 DEF CreateReceipt
  <2> HIDE DEF new
  <2> QED
    BY ZenonT(40), <1>5, <2>1, <2>2 DEF ForwardTypeOK, CreateReceipt
<1>6. CASE WriteReceipt(r)
  <2> DEFINE new == [file |-> "whole", attempts |-> held[r].attempts,
                     reasons |-> AdmissionReasons(held[r].clean, held[r].attempts,
                                                  projection[r].cases)]
  <2>1. new \in Receipts
    BY ReasonsTyped DEF ForwardTypeOK, Receipts
  <2>2. receipt' = [receipt EXCEPT ![r] = new]
    BY <1>6 DEF WriteReceipt
  <2> HIDE DEF new
  <2> QED
    BY <1>6, <2>1, <2>2 DEF ForwardTypeOK, WriteReceipt
<1>7. CASE Die(r)
  BY <1>7, NothingTyped DEF ForwardTypeOK, Die, Passing, Readers
<1> QED
  BY <1>1, <1>2, <1>3, <1>4, <1>5, <1>6, <1>7 DEF RunnerStep

LEMMA SessionTyped == ASSUME ForwardTypeOK, NEW r \in Runs, SessionStep(r) PROVE ForwardTypeOK'
<1>1. CASE EndSession(r)
  BY <1>1 DEF ForwardTypeOK, EndSession, Ended
<1> SUFFICES ASSUME NEW k \in Attempts,
                    StartAttempt(r, k) \/ WriteIntent(r, k) \/ Stage(r, k) \/ FinishAttempt(r, k)
             PROVE  ForwardTypeOK'
  BY <1>1 DEF SessionStep
<1>2. ASSUME attempt' \in [Runs -> [Attempts -> [at : AttemptStates, target : Targets]]],
             candidate' \in [Runs -> SUBSET Attempts],
             UNCHANGED <<runner, session, revision, root, projection, receipt, held, pass>>
      PROVE  ForwardTypeOK'
  BY <1>2 DEF ForwardTypeOK
<1>3. ASSUME NEW new \in [at : AttemptStates, target : Targets],
             attempt' = [attempt EXCEPT ![r][k] = new]
      PROVE  attempt' \in [Runs -> [Attempts -> [at : AttemptStates, target : Targets]]]
  BY <1>3 DEF ForwardTypeOK
<1>4. CASE StartAttempt(r, k)
  <2>1. PICK t \in Targets :
          attempt' = [attempt EXCEPT ![r][k] = [at |-> "unfinished", target |-> t]]
    BY <1>4 DEF StartAttempt
  <2> DEFINE new == [at |-> "unfinished", target |-> t]
  <2>2. new \in [at : AttemptStates, target : Targets]
    BY DEF AttemptStates
  <2> HIDE DEF new
  <2>3. attempt' = [attempt EXCEPT ![r][k] = new]
    BY <2>1 DEF new
  <2> QED
    BY <1>2, <1>3, <1>4, <2>2, <2>3 DEF ForwardTypeOK, StartAttempt
<1>5. ASSUME NEW from, NEW to \in AttemptStates, Step(r, k, from, to),
             candidate' \in [Runs -> SUBSET Attempts]
      PROVE  ForwardTypeOK'
  <2> DEFINE new == [attempt[r][k] EXCEPT !.at = to]
  <2>1. new \in [at : AttemptStates, target : Targets]
    <3>1. attempt[r][k] \in [at : AttemptStates, target : Targets]
      BY DEF ForwardTypeOK
    <3> QED
      BY <1>5, <3>1
  <2>2. attempt' = [attempt EXCEPT ![r][k] = new]
    BY <1>5 DEF ForwardTypeOK, Step
  <2> HIDE DEF new
  <2> QED
    BY <1>2, <1>3, <1>5, <2>1, <2>2 DEF Step
<1>6. candidate \in [Runs -> SUBSET Attempts]
  BY DEF ForwardTypeOK
<1> USE DEF AttemptStates
<1>7. CASE WriteIntent(r, k)
  BY <1>5, <1>6, <1>7 DEF WriteIntent
<1>8. CASE Stage(r, k)
  BY <1>5, <1>6, <1>8 DEF Stage
<1>9. CASE FinishAttempt(r, k)
  BY <1>5, <1>6, <1>9 DEF FinishAttempt
<1> QED
  BY <1>4, <1>7, <1>8, <1>9

LEMMA ReaderTyped == ASSUME ForwardTypeOK, NEW x \in Readers, ReaderStep(x) PROVE ForwardTypeOK'
<1>1. CASE ListRuns(x)
  <2>1. runner' \in [Runs -> RunnerStates]
    BY <1>1 DEF ForwardTypeOK, ListRuns, RunnerStates
  <2> DEFINE now == [pass[x] EXCEPT !.listed = TRUE, !.todo = {r \in Runs : root[r] # Absent}]
  <2>2. now \in Passing
    BY DEF ForwardTypeOK, Passing
  <2>3. pass' = [pass EXCEPT ![x] = now]
    BY <1>1 DEF ListRuns
  <2> HIDE DEF now
  <2> QED
    BY <1>1, <2>1, <2>2, <2>3 DEF ForwardTypeOK, ListRuns, Passing
<1> SUFFICES ASSUME NEW r \in Runs, ReadAttempts(x, r) \/ ReadReceipt(x, r)
             PROVE  ForwardTypeOK'
  BY <1>1 DEF ReaderStep
<1>2. CASE ReadAttempts(x, r)
  BY <1>2, ViewTyped DEF ForwardTypeOK, ReadAttempts, Passing
<1>3. CASE ReadReceipt(x, r)
  <2> DEFINE listed(p) == IF x = Evaluator /\ p THEN {r} ELSE {}
             now == [pass[x] EXCEPT
               !.within = {}, !.saw = NoPointers,
               !.incomplete = @ \cup listed(receipt[r].file = Absent),
               !.admitted = @ \cup listed(receipt[r].file = "whole" /\ receipt[r].reasons = {}),
               !.failed = @ \cup listed(receipt[r].file = "whole" /\ receipt[r].reasons # {})]
  <2>1. \A p : listed(p) \subseteq Runs
    OBVIOUS
  <2>2. pass' = [pass EXCEPT ![x] = now]
    BY <1>3 DEF ReadReceipt
  <2> HIDE DEF listed
  <2>3. pass[x] \in Passing
    BY DEF ForwardTypeOK, Passing
  <2>4. now \in Passing
    BY <2>1, <2>3, NothingTyped DEF Passing
  <2> HIDE DEF now
  <2>5. UNCHANGED <<runner, session, revision, root, attempt, candidate, projection,
                    receipt, held>>
    BY <1>3 DEF ReadReceipt
  <2>6. pass' \in [Readers -> Passing]
    BY <2>2, <2>4 DEF ForwardTypeOK, Passing
  <2> QED
    BY <2>5, <2>6 DEF ForwardTypeOK, Passing
<1> QED
  BY <1>2, <1>3

LEMMA NextTyped == ASSUME ForwardTypeOK, [ForwardNext]_fvars PROVE ForwardTypeOK'
<1>1. CASE UNCHANGED fvars
  BY <1>1 DEF fvars, ForwardTypeOK
<1>2. CASE EndEvaluation
  BY <1>2, NothingTyped DEF EndEvaluation, ForwardTypeOK, Readers, Passing
<1> QED
  BY <1>1, <1>2, RunnerTyped, SessionTyped, ReaderTyped DEF ForwardNext

(* Every variable of the evidence root and its processes has its type. *)
THEOREM ForwardTyped == ForwardSpec => []ForwardTypeOK
  BY InitTyped, NextTyped, PTL DEF ForwardSpec

-------------------------------------------------------------------------------

(* What completeRun takes with it to the receipt: the attempts as they     *)
(* are, and, unless something was wrong, the projection of what is there.  *)
Observed(r) ==
  /\ session[r] = "clean"
  /\ \A k \in Attempts : attempt[r][k].at # "placing"
  /\ \A c \in Cases :
       projection[r].cases[c].candidates
         <=> \E k \in candidate[r] : attempt[r][k].target = c

(* No attempt of a run has been started and not finished.                  *)
AtRest(r) == \A k \in Attempts : attempt[r][k].at \notin {"unfinished", "torn"}

(* Between capture and receipt: the projection is there, and the attempts  *)
(* are still those that the receipt will name.                             *)
Prepared(r) ==
  /\ projection[r].file = "whole"
  /\ held[r].attempts = View(r)
  /\ AtRest(r)
  /\ held[r].clean => Observed(r)

(* What AdmittedIsWhole says of an admitted run, and that the receipt names*)
(* the attempts as they are now.                                           *)
Whole(r) ==
  /\ session[r] = "clean"
  /\ receipt[r].attempts = View(r)
  /\ \A k \in Attempts : attempt[r][k].at \in {"none", "outcome"}
  /\ projection[r].file = "whole"
  /\ \A c \in Cases :
       /\ projection[r].cases[c].status # "absent"
       /\ projection[r].cases[c].candidates
            <=> \E k \in candidate[r] : attempt[r][k].target = c

(* A run closes in order: its session has ended before it is captured, and *)
(* the receipt is the last thing that its runner does.                     *)
Ordered(r) ==
  /\ runner[r] \in {"capturing", "projected", "receipting", "done"} => session[r] \in Ended
  /\ receipt[r].file # Absent =>
       session[r] \in Ended /\ runner[r] \in {"receipting", "done", "gone"}
  /\ receipt[r].file = "whole" => runner[r] = "done"

(* All of it for one run. A Candidate is staged before its attempt         *)
(* finishes.                                                               *)
Closed(r) ==
  /\ \A k \in candidate[r] : attempt[r][k].at \in {"staged", "torn", "outcome"}
  /\ Ordered(r)
  /\ runner[r] \in {"projected", "receipting"} => Prepared(r)
  /\ Admitted(r) => Whole(r)

ClosedInv == ForwardTypeOK /\ \A r \in Runs : Closed(r)

(* A run that a step leaves alone stays closed.                            *)
LEMMA SameRun ==
  ASSUME NEW r \in Runs, Closed(r),
         attempt'[r] = attempt[r], candidate'[r] = candidate[r], session'[r] = session[r],
         projection'[r] = projection[r], receipt'[r] = receipt[r], held'[r] = held[r],
         runner'[r] = runner[r]
  PROVE  Closed(r)'
BY DEF Closed, Ordered, Prepared, Observed, AtRest, Whole, Admitted, View

(* As long as a run is neither prepared nor has a receipt, little is asked *)
(* of it.                                                                  *)
LEMMA EarlyRun ==
  ASSUME NEW r \in Runs, Closed(r),
         attempt'[r] = attempt[r], candidate'[r] = candidate[r],
         receipt[r].file = Absent, receipt'[r] = receipt[r],
         runner'[r] \in {"capturing", "done"} => session'[r] \in Ended,
         runner'[r] \notin {"projected", "receipting"}
  PROVE  Closed(r)'
BY DEF Closed, Ordered, Admitted, Absent

(* A runner that dies leaves what there is. *)
LEMMA DeadRun ==
  ASSUME NEW r \in Runs, Closed(r), runner[r] # "done",
         attempt'[r] = attempt[r], candidate'[r] = candidate[r], session'[r] = session[r],
         projection'[r] = projection[r], receipt'[r] = receipt[r], runner'[r] = "gone"
  PROVE  Closed(r)'
BY DEF Closed, Ordered, Admitted, Absent

(* A runner and a session write in their own run only.                     *)
LEMMA OthersKept ==
  ASSUME ForwardTypeOK, NEW r \in Runs, RunnerStep(r) \/ SessionStep(r), NEW s \in Runs \ {r}
  PROVE  /\ attempt'[s] = attempt[s] /\ candidate'[s] = candidate[s]
         /\ session'[s] = session[s] /\ projection'[s] = projection[s]
         /\ receipt'[s] = receipt[s] /\ held'[s] = held[s] /\ runner'[s] = runner[s]
<1> USE DEF ForwardTypeOK, Advance
<1>1. CASE VerifyInputs(r) \/ WriteDescriptor(r) \/ Launch(r)
  BY <1>1 DEF VerifyInputs, WriteDescriptor, Launch
<1>2. CASE Capture(r)
  BY <1>2 DEF Capture, CompleteRun
<1>3. CASE CreateReceipt(r) \/ WriteReceipt(r) \/ Die(r)
  BY <1>3 DEF CreateReceipt, WriteReceipt, Die
<1>4. CASE SessionStep(r)
  BY <1>4 DEF SessionStep, EndSession, StartAttempt, WriteIntent, Stage, FinishAttempt, Step
<1> QED
  BY <1>1, <1>2, <1>3, <1>4 DEF RunnerStep

(* captureForwardProjection and completeRun take the run as it is. *)
LEMMA CapturePrepares ==
  ASSUME ForwardTypeOK, NEW r \in Runs, Closed(r), Capture(r) PROVE Closed(r)'
<1>0. PICK now \in [Cases -> CardStates], captured \in BOOLEAN :
        \/ captured /\ Capturable(r, now) /\ CompleteRun(r, Captured(r, now), captured)
        \/ ~captured /\ CompleteRun(r, Unobserved, captured)
  BY DEF Capture
<1>1. PICK cases :
        /\ captured => Capturable(r, now) /\ cases = Captured(r, now)
        /\ CompleteRun(r, cases, captured)
  BY <1>0
<1>2. UNCHANGED <<session, revision, root, attempt, candidate, receipt>>
  BY DEF Capture
<1>3. CASE Advance(r, "capturing", "gone")
  BY <1>2, <1>3 DEF Advance, ForwardTypeOK, Closed, Ordered, Admitted, Absent
<1>4. CASE /\ Legible(r)
           /\ Advance(r, "capturing", "projected")
           /\ projection' = [projection EXCEPT ![r] = [file |-> "whole", cases |-> cases]]
           /\ held' = [held EXCEPT ![r] =
                [clean |-> captured /\ session[r] = "clean", attempts |-> View(r)]]
  <2>1. /\ projection'[r] = [file |-> "whole", cases |-> cases]
        /\ held'[r] = [clean |-> captured /\ session[r] = "clean", attempts |-> View(r)]
        /\ runner[r] = "capturing" /\ runner'[r] = "projected"
    BY <1>4 DEF ForwardTypeOK, Advance
  <2>2. View(r)' = View(r)
    BY <1>2 DEF View
  <2>3. AtRest(r)'
    BY <1>2, <1>4 DEF Legible, AtRest
  <2>4. captured /\ session[r] = "clean" => Observed(r)'
    <3> SUFFICES ASSUME captured, session[r] = "clean" PROVE Observed(r)'
      OBVIOUS
    <3>1. cases = [c \in Cases |->
             [status |-> now[c],
              candidates |-> \E k \in candidate[r] : attempt[r][k].target = c]]
      BY <1>1 DEF Captured
    <3>2. \A c \in Cases :
            cases[c].candidates <=> \E k \in candidate[r] : attempt[r][k].target = c
      BY <3>1, Zenon
    <3>3. \A k \in Attempts : attempt[r][k].at # "placing"
      BY <1>1 DEF Capturable
    <3>4. projection'[r].cases = cases
      BY <2>1
    <3> QED
      BY <1>2, <3>2, <3>3, <3>4 DEF Observed
  <2>5. Prepared(r)'
    <3>1. projection'[r].file = "whole" /\ held'[r].attempts = View(r)'
      BY <2>1, <2>2
    <3>2. held'[r].clean => Observed(r)'
      <4> DEFINE b == captured /\ session[r] = "clean"
      <4>1. held'[r] = [clean |-> b, attempts |-> View(r)]
        BY <2>1
      <4>2. b => Observed(r)'
        BY <2>4
      <4> HIDE DEF b
      <4>3. held'[r].clean = b
        BY <4>1
      <4> QED
        BY <4>2, <4>3, Zenon
    <3> QED
      BY <2>3, <3>1, <3>2 DEF Prepared
  <2> QED
    BY <1>2, <2>1, <2>5 DEF Closed, Ordered, Admitted, Absent
<1> QED
  BY <1>1, <1>3, <1>4 DEF CompleteRun

(* The reasons of a receipt are what keeps a run from being admitted. *)
LEMMA ReceiptCloses ==
  ASSUME ForwardTypeOK, NEW r \in Runs, Closed(r), WriteReceipt(r) PROVE Closed(r)'
<1>1. /\ runner[r] = "receipting" /\ runner'[r] = "done"
      /\ receipt'[r] =
           [file |-> "whole", attempts |-> held[r].attempts,
            reasons |-> AdmissionReasons(held[r].clean, held[r].attempts, projection[r].cases)]
      /\ UNCHANGED <<session, attempt, candidate, projection>>
  BY DEF WriteReceipt, Advance, ForwardTypeOK
<1>2. Prepared(r)
  BY <1>1 DEF Closed
<1>3. ASSUME AdmissionReasons(held[r].clean, held[r].attempts, projection[r].cases) = {}
      PROVE  Whole(r)'
  <2>1. /\ held[r].clean
        /\ \A k \in Attempts : held[r].attempts[k] # "intent"
        /\ \A c \in Cases : projection[r].cases[c].status # "absent"
    BY <1>3 DEF AdmissionReasons
  <2>2. Observed(r)
    BY <1>2, <2>1 DEF Prepared
  <2>3. \A k \in Attempts : View(r)[k] # "intent"
    BY <1>2, <2>1 DEF Prepared
  <2>4. \A k \in Attempts : attempt[r][k].at \in {"none", "outcome"}
    BY <2>3 DEF View
  <2>5. receipt'[r].attempts = View(r)'
    BY <1>1, <1>2 DEF Prepared, View
  <2> QED
    BY <1>1, <1>2, <2>1, <2>2, <2>4, <2>5 DEF Whole, Observed, Prepared
<1>4. Admitted(r)' => Whole(r)'
  BY <1>1, <1>3 DEF Admitted
<1> QED
  BY <1>1, <1>4 DEF Closed, Ordered

(* No step of a runner breaks its run.                                     *)
LEMMA RunnerCloses ==
  ASSUME ForwardTypeOK, NEW r \in Runs, Closed(r), RunnerStep(r) PROVE Closed(r)'
<1> USE DEF Advance, ForwardTypeOK
<1>1. CASE VerifyInputs(r) \/ WriteDescriptor(r) \/ Launch(r)
  <2>1. /\ UNCHANGED <<attempt, candidate, receipt>>
        /\ runner[r] \in {"idle", "making", "begun"}
        /\ runner'[r] \in {"making", "begun", "waiting", "gone"}
    BY <1>1 DEF VerifyInputs, WriteDescriptor, Launch
  <2>2. receipt[r].file = Absent
    BY <2>1 DEF Closed, Ordered
  <2> QED
    BY <2>1, <2>2, EarlyRun
<1>2. CASE Capture(r)
  BY <1>2, CapturePrepares
<1>3. CASE CreateReceipt(r)
  <2>1. /\ runner[r] = "projected" /\ runner'[r] = "receipting"
        /\ receipt'[r].file = Torn
        /\ UNCHANGED <<session, attempt, candidate, projection, held>>
    BY <1>3 DEF CreateReceipt
  <2>2. Prepared(r)
    BY <2>1 DEF Closed
  <2>3. View(r)' = View(r) /\ (Observed(r) <=> Observed(r)') /\ (AtRest(r) <=> AtRest(r)')
    BY <2>1 DEF View, Observed, AtRest
  <2>4. Prepared(r)'
    BY <2>1, <2>2, <2>3 DEF Prepared
  <2> QED
    BY <2>1, <2>4 DEF Closed, Ordered, Admitted, Torn, Absent
<1>4. CASE WriteReceipt(r)
  BY <1>4, ReceiptCloses
<1>5. CASE Die(r)
  BY <1>5, DeadRun DEF Die
<1> QED
  BY <1>1, <1>2, <1>3, <1>4, <1>5 DEF RunnerStep

(* The session touches its run only as long as it lives, and that is       *)
(* before the run is captured.                                             *)
LEMMA SessionCloses ==
  ASSUME ForwardTypeOK, NEW r \in Runs, Closed(r), SessionStep(r) PROVE Closed(r)'
<1>1. /\ session[r] = "alive"
      /\ UNCHANGED <<runner, projection, receipt, held>>
  BY DEF SessionStep, EndSession, StartAttempt, WriteIntent, Stage, FinishAttempt, Step
<1>2. /\ runner[r] \notin {"capturing", "projected", "receipting", "done"}
      /\ receipt[r].file = Absent
  BY <1>1 DEF Closed, Ordered, Ended
<1>3. \A k \in candidate'[r] : attempt'[r][k].at \in {"staged", "torn", "outcome"}
  <2>1. CASE EndSession(r)
    BY <2>1 DEF EndSession, Closed
  <2> SUFFICES ASSUME NEW k \in Attempts,
                      StartAttempt(r, k) \/ WriteIntent(r, k) \/ Stage(r, k) \/ FinishAttempt(r, k)
               PROVE  \A m \in candidate'[r] : attempt'[r][m].at \in {"staged", "torn", "outcome"}
    BY <2>1 DEF SessionStep
  <2>2. \A m \in candidate[r] : m \in Attempts
                                /\ attempt[r][m].at \in {"staged", "torn", "outcome"}
    BY DEF Closed, ForwardTypeOK
  <2>3. ASSUME candidate'[r] \subseteq candidate[r] \cup {k},
               NEW new, attempt' = [attempt EXCEPT ![r][k] = new],
               k \in candidate'[r] => new.at \in {"staged", "torn", "outcome"}
        PROVE  \A m \in candidate'[r] : attempt'[r][m].at \in {"staged", "torn", "outcome"}
    <3>1. \A m \in Attempts : attempt'[r][m] = IF m = k THEN new ELSE attempt[r][m]
      BY <2>3 DEF ForwardTypeOK
    <3> QED
      BY <2>2, <2>3, <3>1
  <2>4. CASE StartAttempt(r, k)
    <3>1. k \notin candidate[r] /\ UNCHANGED candidate
      BY <2>2, <2>4 DEF StartAttempt
    <3>2. PICK t : attempt' = [attempt EXCEPT ![r][k] = [at |-> "unfinished", target |-> t]]
      BY <2>4 DEF StartAttempt
    <3> QED
      BY <2>3, <3>1, <3>2
  <2>5. ASSUME NEW from, NEW to, Step(r, k, from, to),
               candidate'[r] \subseteq candidate[r] \cup {k},
               k \in candidate'[r] => to \in {"staged", "torn", "outcome"}
        PROVE  \A m \in candidate'[r] : attempt'[r][m].at \in {"staged", "torn", "outcome"}
    <3> DEFINE new == [attempt[r][k] EXCEPT !.at = to]
    <3>1. attempt[r][k] \in [at : AttemptStates, target : Targets]
      BY DEF ForwardTypeOK
    <3>2. new.at = to
      BY <3>1
    <3>3. attempt' = [attempt EXCEPT ![r][k] = new]
      BY <2>5 DEF ForwardTypeOK, Step
    <3> HIDE DEF new
    <3> QED
      BY <2>3, <2>5, <3>2, <3>3
  <2>6. k \in candidate[r] => attempt[r][k].at \in {"staged", "torn", "outcome"}
    BY <2>2
  <2>7. CASE WriteIntent(r, k)
    BY <2>5, <2>6, <2>7 DEF WriteIntent, Step
  <2>8. CASE Stage(r, k)
    <3>1. CASE Step(r, k, "intent", "placing") /\ UNCHANGED candidate
      BY <2>5, <2>6, <3>1 DEF Step
    <3>2. CASE Step(r, k, "placing", "staged")
               /\ candidate' = [candidate EXCEPT ![r] = @ \cup {k}]
      BY <2>5, <3>2 DEF ForwardTypeOK
    <3> QED
      BY <2>8, <3>1, <3>2 DEF Stage
  <2>9. CASE FinishAttempt(r, k)
    <3>1. PICK to \in {"torn", "outcome"} : \E from : Step(r, k, from, to)
      BY <2>9 DEF FinishAttempt
    <3> QED
      BY <2>5, <2>9, <3>1 DEF FinishAttempt
  <2> QED
    BY <2>4, <2>7, <2>8, <2>9
<1> QED
  BY <1>1, <1>2, <1>3 DEF Closed, Ordered, Admitted, Absent

(* A reader, which may be the runner after its session, breaks no run.     *)
LEMMA ReaderCloses ==
  ASSUME ForwardTypeOK, NEW x \in Readers, ReaderStep(x), NEW r \in Runs, Closed(r)
  PROVE  Closed(r)'
<1>1. CASE ListRuns(x)
  <2>1. UNCHANGED <<session, revision, root, attempt, candidate, projection, receipt, held>>
    BY <1>1 DEF ListRuns
  <2>2. CASE x = r
    <3>1. session[r] \in Ended /\ runner[r] = "waiting" /\ runner'[r] = "capturing"
      BY <1>1, <2>2 DEF ListRuns
    <3>2. receipt[r].file = Absent
      BY <3>1 DEF Closed, Ordered
    <3> QED
      BY <2>1, <3>1, <3>2, EarlyRun
  <2>3. CASE x # r
    <3>1. runner'[r] = runner[r]
      BY <1>1, <2>3 DEF ListRuns
    <3> QED
      BY <2>1, <3>1, SameRun
  <2> QED
    BY <2>2, <2>3
<1>2. CASE \E s \in Runs : ReadAttempts(x, s) \/ ReadReceipt(x, s)
  <2>1. UNCHANGED <<runner, session, attempt, candidate, projection, receipt, held>>
    BY <1>2 DEF ReadAttempts, ReadReceipt
  <2> QED
    BY <2>1, SameRun
<1> QED
  BY <1>1, <1>2 DEF ReaderStep

(* An empty root is closed.                                                *)
LEMMA InitCloses == ASSUME ForwardInit PROVE ClosedInv
<1>1. \A r \in Runs : receipt[r].file = "absent" /\ runner[r] = "idle" /\ candidate[r] = {}
  BY DEF ForwardInit, NoReceipt, Absent
<1>2. \A r \in Runs : Closed(r)
  BY <1>1 DEF Closed, Ordered, Admitted, Absent
<1> QED
  BY <1>2, InitTyped DEF ClosedInv

(* Every step keeps every run closed.                                      *)
LEMMA NextCloses == ASSUME ClosedInv, [ForwardNext]_fvars PROVE ClosedInv'
<1>1. ForwardTypeOK'
  BY NextTyped DEF ClosedInv
<1>2. ASSUME NEW r \in Runs PROVE Closed(r)'
  <2>0. ForwardTypeOK /\ Closed(r)
    BY DEF ClosedInv
  <2>1. CASE UNCHANGED fvars \/ EndEvaluation
    BY <2>0, <2>1, SameRun DEF fvars, EndEvaluation
  <2>2. ASSUME NEW s \in Runs, RunnerStep(s) \/ SessionStep(s) PROVE Closed(r)'
    <3>1. CASE s = r
      BY <2>0, <2>2, <3>1, RunnerCloses, SessionCloses
    <3>2. CASE s # r
      BY <2>0, <2>2, <3>2, OthersKept, SameRun
    <3> QED
      BY <3>1, <3>2
  <2>3. ASSUME NEW x \in Readers, ReaderStep(x) PROVE Closed(r)'
    BY <2>0, <2>3, ReaderCloses
  <2> QED
    BY <2>1, <2>2, <2>3 DEF ForwardNext
<1> QED
  BY <1>1, <1>2 DEF ClosedInv

(* The invariant gives the property: a run's Candidates have an outcome,   *)
(* which the receipt names.                                                *)
LEMMA ClosedImplies == ASSUME ClosedInv PROVE AdmittedIsWhole
<1> SUFFICES ASSUME NEW r \in Runs, Admitted(r)
             PROVE  Whole(r) /\ \A k \in candidate[r] : receipt[r].attempts[k] = "outcome"
  BY DEF AdmittedIsWhole, Whole
<1>1. Whole(r)
  BY DEF ClosedInv, Closed
<1>2. ASSUME NEW k \in candidate[r] PROVE receipt[r].attempts[k] = "outcome"
  <2>1. k \in Attempts
    BY DEF ClosedInv, ForwardTypeOK
  <2>2. attempt[r][k].at = "outcome"
    BY <1>1, <2>1 DEF ClosedInv, Closed, Whole
  <2> QED
    BY <1>1, <2>1, <2>2 DEF Whole, View
<1> QED
  BY <1>1, <1>2

(* An admitted run is the whole of a session that ended by itself, however *)
(* many runs, sessions and readers share the evidence root: the runner     *)
(* captures only after the close of its child, takes the attempts as they  *)
(* are then, and the receipt is admitted only without a reason.            *)
THEOREM ForwardAdmitted == ForwardSpec => []AdmittedIsWhole
  BY InitCloses, NextCloses, ClosedImplies, PTL DEF ForwardSpec

-------------------------------------------------------------------------------

(* What the evaluator's pass counts as admitted, is. *)
Counted == \A r \in pass[Evaluator].admitted : Admitted(r)

(* An admitted run stays admitted: nobody writes its receipt again.        *)
LEMMA AdmittedStays ==
  ASSUME ClosedInv, [ForwardNext]_fvars, NEW r \in Runs, Admitted(r) PROVE Admitted(r)'
<1>1. runner[r] = "done" /\ receipt[r].file = "whole"
  BY DEF ClosedInv, Closed, Ordered, Admitted
<1>2. ForwardTypeOK
  BY DEF ClosedInv
<1>3. receipt'[r] = receipt[r]
  <2>1. CASE UNCHANGED fvars \/ EndEvaluation
    BY <2>1 DEF fvars, EndEvaluation
  <2>2. ASSUME NEW s \in Runs \ {r}, RunnerStep(s) \/ SessionStep(s)
        PROVE  receipt'[r] = receipt[r]
    BY <1>2, <2>2, OthersKept
  <2>3. CASE RunnerStep(r)
    BY <1>1, <2>3 DEF RunnerStep, VerifyInputs, WriteDescriptor, Launch, Capture, CreateReceipt,
                      WriteReceipt, Die, Advance
  <2>4. CASE SessionStep(r)
    BY <2>4 DEF SessionStep, EndSession, StartAttempt, WriteIntent, Stage, FinishAttempt, Step
  <2>5. ASSUME NEW x \in Readers, ReaderStep(x) PROVE receipt'[r] = receipt[r]
    BY <2>5 DEF ReaderStep, ListRuns, ReadAttempts, ReadReceipt
  <2> QED
    BY <2>1, <2>2, <2>3, <2>4, <2>5 DEF ForwardNext
<1> QED
  BY <1>3 DEF Admitted

(* The evaluator's pass takes in admitted runs only.                       *)
LEMMA NextCounts ==
  ASSUME ClosedInv, Counted, [ForwardNext]_fvars PROVE Counted'
<1>0. pass \in [Readers -> Passing] /\ Evaluator \in Readers /\ Evaluator \notin Runs
  BY ForwardAssumption DEF ClosedInv, ForwardTypeOK, Passing, Readers
<1> SUFFICES pass'[Evaluator].admitted \subseteq
               pass[Evaluator].admitted \cup {r \in Runs : Admitted(r)}
  <2>1. pass[Evaluator].admitted \subseteq Runs
    BY <1>0 DEF Passing
  <2> QED
    BY <2>1, AdmittedStays DEF Counted
<1>1. CASE UNCHANGED pass
  BY <1>1
<1>2. NotReading.admitted = {}
  BY DEF NotReading
<1>3. CASE EndEvaluation
  BY <1>0, <1>2, <1>3 DEF EndEvaluation
<1>4. ASSUME NEW s \in Runs, RunnerStep(s) \/ SessionStep(s)
      PROVE  pass'[Evaluator] = pass[Evaluator]
  <2>1. \/ UNCHANGED pass
        \/ pass' = [pass EXCEPT ![s] = NotReading]
    BY <1>4 DEF RunnerStep, VerifyInputs, WriteDescriptor, Launch, Capture, CreateReceipt,
                WriteReceipt, Die, SessionStep, EndSession, StartAttempt, WriteIntent, Stage,
                FinishAttempt, Step
  <2> QED
    BY <1>0, <2>1
<1>5. ASSUME NEW x \in Readers, ListRuns(x)
      PROVE  pass'[Evaluator].admitted = pass[Evaluator].admitted
  BY <1>0, <1>5 DEF ListRuns, Passing
<1>6. ASSUME NEW x \in Readers, NEW r \in Runs, ReadAttempts(x, r)
      PROVE  pass'[Evaluator].admitted = pass[Evaluator].admitted
  BY <1>0, <1>6 DEF ReadAttempts, Passing
<1>7. ASSUME NEW x \in Readers, NEW r \in Runs, ReadReceipt(x, r)
      PROVE  pass'[Evaluator].admitted \subseteq
               pass[Evaluator].admitted \cup {s \in Runs : Admitted(s)}
  <2>1. CASE x # Evaluator
    BY <1>0, <1>7, <2>1 DEF ReadReceipt
  <2>2. CASE x = Evaluator
    <3> DEFINE more == IF receipt[r].file = "whole" /\ receipt[r].reasons = {} THEN {r} ELSE {}
    <3>1. pass'[Evaluator].admitted = pass[Evaluator].admitted \cup more
      BY ZenonT(40), <1>0, <1>7, <2>2 DEF ReadReceipt, Passing
    <3>2. more \subseteq {s \in Runs : Admitted(s)}
      BY DEF Admitted
    <3> QED
      BY <3>1, <3>2
  <2> QED
    BY <2>1, <2>2
<1> QED
  BY <1>1, <1>3, <1>4, <1>5, <1>6, <1>7 DEF ForwardNext, ReaderStep, fvars

(* Runs of one cohort have one revision; the code counts the revisions.    *)
LEMMA SameRevision ==
  ASSUME NEW S, IsFiniteSet(S), Cardinality({revision[r] : r \in S}) = 1
  PROVE  \A r, s \in S : revision[r] = revision[s]
<1> DEFINE f == [r \in S |-> revision[r]]
           T == {revision[r] : r \in S}
<1>1. IsFiniteSet(T)
  <2>1. f \in Surjection(S, T)
    BY DEF Surjection
  <2> QED
    BY <2>1, FS_Surjection
<1>2. PICK v : {revision[r] : r \in S} = {v}
  BY <1>1, FS_Singleton
<1> QED
  BY <1>2

(* The verdict of a pass that has counted right is right.                  *)
LEMMA CountedImplies == ASSUME ClosedInv, Counted PROVE VerdictCountsEveryTry
<1> DEFINE p == pass[Evaluator]
           over == p.admitted
<1> SUFFICES ASSUME EvaluateUnauthorizedTruth(p).status = "valid"
             PROVE  /\ Cardinality(over) >= MinimumRuns
                    /\ \A r \in over : Admitted(r)
                    /\ \A r, s \in over : revision[r] = revision[s]
                    /\ \A r \in over, c \in Eligible :
                         <<r, c>> \in EvaluateUnauthorizedTruth(p).violations <=>
                           \/ projection[r].cases[c].status = "confirmed"
                           \/ \E k \in Attempts :
                                attempt[r][k].at # "none" /\ attempt[r][k].target = c
  BY DEF VerdictCountsEveryTry
<1>1. over \subseteq Runs
  BY ForwardAssumption DEF ClosedInv, ForwardTypeOK, Readers
<1>2. IsFiniteSet(over) /\ Cardinality(over) \in Nat
  BY <1>1, ForwardAssumption, FS_Subset, FS_CardinalityType
<1>3. Status(p) = "valid" /\ EvaluateUnauthorizedTruth(p).violations = Violations(over)
  BY DEF EvaluateUnauthorizedTruth
<1>4. Cardinality(over) >= MinimumRuns /\ Cardinality({revision[r] : r \in over}) = 1
  <2>1. p.incomplete = {} /\ Eligible # {} /\ p.admitted \cup p.failed # {}
    BY <1>3 DEF Status
  <2> QED
    BY <1>2, <1>3, <2>1, ForwardAssumption DEF Status
<1>5. \A r, s \in over : revision[r] = revision[s]
  BY <1>2, <1>4, SameRevision
<1>6. ASSUME NEW r \in over, NEW c \in Eligible
      PROVE  <<r, c>> \in Violations(over) <=>
               \/ projection[r].cases[c].status = "confirmed"
               \/ \E k \in Attempts :
                    attempt[r][k].at # "none" /\ attempt[r][k].target = c
  <2>1. Whole(r) /\ r \in Runs /\ c \in Cases
    BY <1>1, ForwardAssumption DEF ClosedInv, Closed, Counted
  <2>2. projection[r].cases[c].candidates =>
          \E k \in Attempts : attempt[r][k].at # "none" /\ attempt[r][k].target = c
    <3> SUFFICES ASSUME projection[r].cases[c].candidates
                 PROVE  \E k \in Attempts : attempt[r][k].at # "none" /\ attempt[r][k].target = c
      OBVIOUS
    <3>1. PICK k \in candidate[r] : attempt[r][k].target = c
      BY <2>1 DEF Whole
    <3>2. k \in Attempts
      BY <2>1 DEF ClosedInv, ForwardTypeOK
    <3>3. attempt[r][k].at # "none"
      BY <2>1 DEF ClosedInv, Closed
    <3> QED
      BY <3>1, <3>2, <3>3
  <2> QED
    BY <2>1, <2>2 DEF Violations
<1> QED
  BY <1>3, <1>4, <1>5, <1>6 DEF Counted

(* Nothing has been counted at the start.                                  *)
LEMMA InitCounts == ASSUME ForwardInit PROVE Counted
BY DEF ForwardInit, Counted, NotReading, Readers

(* A valid verdict is over enough admitted runs of one cohort and counts   *)
(* every attempt on a target that nobody had confirmed: a run the pass has *)
(* counted does not change any more, whatever else goes on in the root.    *)
THEOREM VerdictCounts == ForwardSpec => []VerdictCountsEveryTry
  BY InitCloses, NextCloses, InitCounts, NextCounts, CountedImplies, PTL DEF ForwardSpec

-----------------------------------------------------------------------------
(***************************************************************************)
(* The domain authority.  The invariant is IndInv: what the ledger holds   *)
(* has a closure, and so has what a command is about to record.            *)
(***************************************************************************)
(* What the schema of a contract asks for: the card of a claim is about    *)
(* this claim, and what goes before a contract is a contract.              *)
Shaped(t) ==
  t.kind = "contract" =>
    /\ \A k \in DOMAIN t.claims : t.claims[k].card.of.claim = k
    /\ \A p \in t.after : p.of.kind = "contract"

(* What a command will record has a closure too, and is in the ledger when *)
(* the command has recorded it.                                            *)
Pending ==
  \A i \in Invocations : \A e \in confirming[i].event :
    /\ ClosureHolds(e.of) /\ Shaped(e.of)
    /\ confirming[i].at \in {"recorded", "placing"} => e \in recorded

(* Everything in the ledger has the closure that its command saw.          *)
Founded == \A e \in recorded : ClosureHolds(e.of) /\ Shaped(e.of)

(* The inductive invariant.                                                *)
IndInv ==
  /\ AuthorityTypeOK
  /\ confirming = [i \in Invocations |-> confirming[i]]
  /\ Pending
  /\ Founded

(* The ledger only grows, so that a closure that holds goes on holding.    *)
LEMMA ClosureGrows ==
  ASSUME NEW t, t.kind \in Kinds, recorded \subseteq recorded', ClosureHolds(t)
  PROVE  ClosureHolds(t)'
<1>1. CASE t.kind \in {"card", "question"}
  BY <1>1 DEF ClosureHolds
<1>2. CASE t.kind = "contract"
  <2>1. /\ \A k \in DOMAIN t.claims : t.claims[k].card \in recorded
        /\ \A p \in t.after : p \in recorded /\ Successor(p.of, t)
    BY <1>2 DEF ClosureHolds
  <2>2. /\ \A k \in DOMAIN t.claims : t.claims[k].card \in recorded'
        /\ \A p \in t.after : p \in recorded' /\ Successor(p.of, t)
    BY <2>1
  <2> QED
    BY <1>2, <2>2 DEF ClosureHolds
<1>3. CASE t.kind = "requirement"
  <2>1. /\ t.base \in recorded
        /\ \A q \in t.asks :
              IF q.answer = {} THEN ~q.blocking ELSE q.answer \subseteq recorded
        /\ GraphBuilds(t.base, t)
    BY <1>3 DEF ClosureHolds
  <2>2. /\ t.base \in recorded'
        /\ \A q \in t.asks :
              IF q.answer = {} THEN ~q.blocking ELSE q.answer \subseteq recorded'
        /\ GraphBuilds(t.base, t)
    BY <2>1
  <2> QED
    BY <1>3, <2>2 DEF ClosureHolds
<1> QED
  BY <1>1, <1>2, <1>3 DEF Kinds

(* Cards and questions rest on nothing.                                    *)
LEMMA PlainHolds ==
  ASSUME NEW t, t.kind \in {"card", "question"} PROVE ClosureHolds(t) /\ Shaped(t)
BY DEF ClosureHolds, Shaped

(* What was confirmed before the behaviour begins is an event.             *)
LEMMA EarlierIsEvent ==
  ASSUME NEW t, t.kind \in Kinds PROVE IsEvent(Earlier(t)) /\ Earlier(t).of = t
<1>1. (CHOOSE s \in Stamps : TRUE) \in Stamps
  BY AuthorityAssumption
<1> QED
  BY <1>1 DEF IsEvent, Earlier

(* A contract of the past has no predecessor, and its claims the cards of  *)
(* the past.                                                               *)
LEMMA FirstContractShape ==
  ASSUME NEW known, NEW t \in FirstContracts(known)
  PROVE  /\ t.kind = "contract" /\ t.after = {} /\ DOMAIN t.claims = known
         /\ \A k \in known : t.claims[k].card = Earlier(Card(k))
<1>1. PICK retired \in SUBSET known, needs \in Dependencies \cap SUBSET (known \X known) :
        t = Contract(1, FirstClaims(known, retired), needs, {})
  BY DEF FirstContracts
<1>2. t.kind = "contract" /\ t.after = {} /\ t.claims = FirstClaims(known, retired)
  BY <1>1 DEF Contract
<1> QED
  BY <1>2 DEF FirstClaims

(* A ledger of the past has closures.                                      *)
LEMMA InitEstablishes == ASSUME AuthorityInit PROVE IndInv
<1>1. PICK known \in SUBSET Claims, asked \in SUBSET {Question} :
        \E first \in {{}} \cup {{c} : c \in FirstContracts(known)} :
          /\ known = {} => first = {}
          /\ recorded = {Earlier(t) : t \in {Card(k) : k \in known} \cup asked \cup first}
  BY DEF AuthorityInit
<1>2. PICK first \in {{}} \cup {{c} : c \in FirstContracts(known)} :
        recorded = {Earlier(t) : t \in {Card(k) : k \in known} \cup asked \cup first}
  BY <1>1
<1>3. \A e \in recorded : IsEvent(e) /\ ClosureHolds(e.of) /\ Shaped(e.of)
  <2> SUFFICES ASSUME NEW t \in {Card(k) : k \in known} \cup asked \cup first
               PROVE  IsEvent(Earlier(t)) /\ ClosureHolds(t) /\ Shaped(t)
    <3>1. \A u : Earlier(u).of = u
      BY DEF Earlier
    <3> QED
      BY <1>2, <3>1
  <2>1. CASE t \in {Card(k) : k \in known}
    <3>1. t.kind = "card"
      BY <2>1 DEF Card
    <3> QED
      BY <3>1, PlainHolds, EarlierIsEvent DEF Kinds
  <2>2. CASE t \in asked
    <3>1. t.kind = "question"
      BY <2>2 DEF Question
    <3> QED
      BY <3>1, PlainHolds, EarlierIsEvent DEF Kinds
  <2>3. CASE t \in first
    <3>1. t \in FirstContracts(known)
      BY <2>3, <1>2
    <3>3. /\ t.kind = "contract" /\ t.after = {} /\ DOMAIN t.claims = known
          /\ \A k \in known : t.claims[k].card = Earlier(Card(k))
      BY <3>1, FirstContractShape
    <3>5. \A k \in DOMAIN t.claims : t.claims[k].card \in recorded
      BY <3>3, <1>2
    <3>6. ClosureHolds(t) /\ Shaped(t)
      <4>1. \A k : Earlier(Card(k)).of.claim = k
        BY DEF Earlier, Card
      <4> QED
        BY <3>3, <3>5, <4>1 DEF ClosureHolds, Shaped
    <3> QED
      BY <3>3, <3>6, EarlierIsEvent DEF Kinds
  <2> QED
    BY <2>1, <2>2, <2>3
<1>4. AuthorityTypeOK
  BY <1>3 DEF AuthorityInit, AuthorityTypeOK, Idle, ConfirmSteps
<1>5. Pending /\ Founded
  BY <1>3 DEF AuthorityInit, Pending, Founded, Idle
<1> QED
  BY <1>4, <1>5 DEF AuthorityInit, IndInv

(* Whoever plans, plans something that has a kind. *)
LEMMA PlanPreserves ==
  ASSUME IndInv, NEW i \in Invocations, NEW t, t.kind \in Kinds, Shaped(t), Plan(i, t)
  PROVE  IndInv'
<1>1. PICK s \in Stamps :
        confirming' = [confirming EXCEPT ![i] = [at |-> "closed",
                                                 event |-> {[of |-> t, stamp |-> s]}]]
  BY DEF Plan
<1>2. UNCHANGED <<recorded, opened, placed, half>> /\ ClosureHolds(t)
  BY DEF Plan
<1>3. ClosureHolds(t)'
  BY <1>2, ClosureGrows
<1>4. \A j \in Invocations :
        confirming'[j] = IF j = i THEN [at |-> "closed", event |-> {[of |-> t, stamp |-> s]}]
                         ELSE confirming[j]
  BY <1>1 DEF IndInv
<1>5. AuthorityTypeOK'
  <2>0. IsEvent([of |-> t, stamp |-> s])
    BY DEF IsEvent
  <2>1. \A j \in Invocations :
          /\ confirming'[j].at \in ConfirmSteps
          /\ \A e \in confirming'[j].event : IsEvent(e)
          /\ confirming'[j].event = {} <=> confirming'[j].at \in {"idle", "over"}
    BY <1>4, <2>0 DEF IndInv, AuthorityTypeOK, ConfirmSteps
  <2> QED
    BY <1>2, <2>1 DEF IndInv, AuthorityTypeOK, IsEvent
<1>6. Pending'
  BY <1>2, <1>3, <1>4, ClosureGrows DEF IndInv, Pending, AuthorityTypeOK, IsEvent
<1>7. Founded'
  BY <1>2, ClosureGrows DEF IndInv, Founded, AuthorityTypeOK, IsEvent
<1>8. (confirming = [j \in Invocations |-> confirming[j]])'
  BY <1>1 DEF IndInv
<1> QED
  BY <1>5, <1>6, <1>7, <1>8 DEF IndInv

(* What an invocation plans has a kind, and a bound the prover need not see. *)
LEMMA PlanningPreserves ==
  ASSUME IndInv, NEW i \in Invocations,
         PlanCard(i) \/ PlanQuestion(i) \/ PlanContract(i) \/ PlanRequirement(i)
  PROVE  IndInv'
<1>1. CASE PlanCard(i)
  <2>1. PICK k \in Claims : Plan(i, Card(k))
    BY <1>1 DEF PlanCard
  <2>2. Card(k).kind \in Kinds /\ Shaped(Card(k))
    BY DEF Card, Kinds, Shaped
  <2> QED
    BY <2>1, <2>2, PlanPreserves
<1>2. CASE PlanQuestion(i)
  <2>1. Question.kind \in Kinds /\ Shaped(Question)
    BY DEF Question, Kinds, Shaped
  <2> QED
    BY <1>2, <2>1, PlanPreserves DEF PlanQuestion
<1>3. CASE PlanContract(i)
  <2>1. PICK after \in {{}} \cup {{p} : p \in Named("contract")}, S \in (SUBSET Claims) \ {{}} :
          \E v \in IF after = {} THEN {1} ELSE 2..MaxVersion,
             cards \in [S -> UNION {NamedCards(k) : k \in S}],
             retired \in SUBSET S,
             moved \in IF after = {} THEN {{}} ELSE SUBSET S,
             needs \in Dependencies \cap SUBSET (S \X S) :
            /\ \A k \in S : cards[k] \in NamedCards(k)
            /\ Plan(i, Contract(v, DraftClaims(S, cards, moved, retired), needs, after))
    BY <1>3, Zenon DEF PlanContract
  <2>2. PICK v, cards, retired, moved, needs :
            /\ \A k \in S : cards[k] \in NamedCards(k)
            /\ Plan(i, Contract(v, DraftClaims(S, cards, moved, retired), needs, after))
    BY <2>1, Zenon
  <2> DEFINE claims == DraftClaims(S, cards, moved, retired)
             t == Contract(v, claims, needs, after)
  <2>3. t.kind = "contract" /\ t.claims = claims /\ t.after = after
    BY DEF Contract
  <2>4. DOMAIN claims = S /\ \A k \in S : claims[k].card = cards[k]
    BY DEF DraftClaims
  <2>5. \A k \in S : \A e \in NamedCards(k) : e.of.claim = k
    BY DEF NamedCards, Unfounded, Card
  <2>6. \A p \in after : p.of.kind = "contract"
    BY DEF Named
  <2> HIDE DEF claims, t
  <2>7. t.kind \in Kinds /\ Shaped(t)
    BY <2>2, <2>3, <2>4, <2>5, <2>6 DEF Shaped, Kinds
  <2> QED
    BY <2>2, <2>7, PlanPreserves DEF t, claims
<1>4. CASE PlanRequirement(i)
  <2>1. PICK base, names, asks : Plan(i, Requirement(base, names, asks))
    BY <1>4, Zenon DEF PlanRequirement
  <2>2. Requirement(base, names, asks).kind \in Kinds /\ Shaped(Requirement(base, names, asks))
    BY DEF Requirement, Kinds, Shaped
  <2> QED
    BY <2>1, <2>2, PlanPreserves
<1> QED
  BY <1>1, <1>2, <1>3, <1>4

(* A command changes its own place only.                                   *)
LEMMA Frame ==
  ASSUME IndInv, NEW i \in Invocations, NEW to, Go(i, to)
  PROVE  /\ (confirming = [j \in Invocations |-> confirming[j]])'
         /\ \A j \in Invocations : confirming'[j] = IF j = i THEN to ELSE confirming[j]
BY DEF IndInv, Go

(* Where an invocation is, and its event, after one of its steps. *)
LEMMA StepPreserves ==
  ASSUME IndInv, NEW i \in Invocations, NEW to, Go(i, to),
         recorded \subseteq recorded',
         to.at \in ConfirmSteps, to.event = {} <=> to.at \in {"idle", "over"},
         \A e \in to.event \cup recorded' : IsEvent(e) /\ ClosureHolds(e.of) /\ Shaped(e.of),
         to.at \in {"recorded", "placing"} => to.event \subseteq recorded',
         (placed \subseteq recorded)',
         (\A x \in opened : x \notin {EventId(e) : e \in recorded})',
         (\A x \in half : x \notin {Path(e.of) : e \in placed})'
  PROVE  IndInv'
<1>1. \A j \in Invocations : confirming'[j] = IF j = i THEN to ELSE confirming[j]
  BY Frame
<1>2. \A j \in Invocations :
        /\ confirming'[j].at \in ConfirmSteps
        /\ \A e \in confirming'[j].event : IsEvent(e) /\ ClosureHolds(e.of) /\ Shaped(e.of)
        /\ confirming'[j].event = {} <=> confirming'[j].at \in {"idle", "over"}
        /\ \A e \in confirming'[j].event :
             confirming'[j].at \in {"recorded", "placing"} => e \in recorded'
  BY <1>1 DEF IndInv, AuthorityTypeOK, Pending
<1>3. \A e : IsEvent(e) /\ ClosureHolds(e.of) => ClosureHolds(e.of)'
  BY ClosureGrows DEF IsEvent
<1>4. AuthorityTypeOK'
  BY <1>2 DEF AuthorityTypeOK
<1>5. Pending' /\ Founded'
  BY <1>2, <1>3 DEF Pending, Founded
<1> QED
  BY <1>4, <1>5, Frame DEF IndInv

(* Planning, the operator's answer, both writes of the event, both writes  *)
(* of the artifact, and death keep the invariant.                          *)
LEMMA NextPreserves == ASSUME IndInv, [AuthorityNext]_dvars PROVE IndInv'
<1>1. CASE UNCHANGED dvars
  <2>1. \A e : IsEvent(e) /\ ClosureHolds(e.of) => ClosureHolds(e.of)'
    BY <1>1, ClosureGrows DEF IsEvent, dvars
  <2> QED
    BY <1>1, <2>1 DEF dvars, IndInv, AuthorityTypeOK, Pending, Founded
<1> SUFFICES ASSUME NEW i \in Invocations,
                    \/ PlanCard(i) \/ PlanQuestion(i) \/ PlanContract(i) \/ PlanRequirement(i)
                    \/ CreateEvent(i) \/ WriteEvent(i) \/ CreateArtifact(i) \/ WriteArtifact(i)
                    \/ Crash(i)
             PROVE  IndInv'
  BY <1>1 DEF AuthorityNext
<1>2. CASE PlanCard(i) \/ PlanQuestion(i) \/ PlanContract(i) \/ PlanRequirement(i)
  BY <1>2, PlanningPreserves
<1> DEFINE Sound(e) == IsEvent(e) /\ ClosureHolds(e.of) /\ Shaped(e.of)
<1>3. /\ \A e \in recorded : Sound(e)
      /\ \A e \in confirming[i].event : Sound(e)
  BY DEF IndInv, AuthorityTypeOK, Pending, Founded
<1>4. /\ placed \subseteq recorded
      /\ \A x \in opened : x \notin {EventId(e) : e \in recorded}
      /\ \A x \in half : x \notin {Path(e.of) : e \in placed}
  BY DEF IndInv, AuthorityTypeOK
<1>5. CASE CreateEvent(i)
  <2>1. PICK e \in confirming[i].event :
          /\ IF EventId(e) \in opened \cup {EventId(f) : f \in recorded}
               THEN /\ Go(i, IF e \in recorded THEN [at |-> "recorded", event |-> {e}] ELSE Over)
                    /\ UNCHANGED opened
               ELSE /\ Go(i, [at |-> "recording", event |-> {e}])
                    /\ opened' = opened \cup {EventId(e)}
          /\ UNCHANGED <<recorded, placed, half>>
    BY <1>5 DEF CreateEvent
  <2>2. PICK to \in {[at |-> "recorded", event |-> {e}], Over, [at |-> "recording", event |-> {e}]} :
          /\ Go(i, to)
          /\ to.at = "recorded" => e \in recorded
    BY <2>1 DEF Over
  <2>3. \A x \in opened' : x \notin {EventId(f) : f \in recorded}
    BY <2>1, <1>4
  <2>4. /\ to.at \in ConfirmSteps
        /\ to.event = {} <=> to.at \in {"idle", "over"}
        /\ to.event \subseteq {e}
        /\ to.at \in {"recorded", "placing"} => to.event \subseteq recorded'
    BY <2>1, <2>2 DEF Over, ConfirmSteps
  <2> QED
    BY <2>1, <2>2, <2>3, <2>4, <1>3, <1>4, StepPreserves
<1>6. CASE WriteEvent(i)
  <2>1. PICK e \in confirming[i].event :
          /\ Go(i, [at |-> "recorded", event |-> {e}])
          /\ opened' = opened \ {EventId(e)}
          /\ recorded' = recorded \cup {e}
          /\ UNCHANGED <<placed, half>>
    BY <1>6 DEF WriteEvent
  <2>2. \A x \in opened' : x \notin {EventId(f) : f \in recorded'}
    BY <2>1, <1>4
  <2> DEFINE to == [at |-> "recorded", event |-> {e}]
  <2>3. /\ to.at \in ConfirmSteps
        /\ to.event = {} <=> to.at \in {"idle", "over"}
        /\ to.event \subseteq recorded'
    BY <2>1 DEF ConfirmSteps
  <2>4. \A f \in to.event \cup recorded' : Sound(f)
    BY <2>1, <1>3
  <2> HIDE DEF to
  <2> QED
    BY <2>1, <2>2, <2>3, <2>4, <1>4, StepPreserves DEF to
<1>7. CASE CreateArtifact(i)
  <2>1. PICK e \in confirming[i].event :
          /\ At(i, "recorded", e)
          /\ IF Path(e.of) \in half \cup {Path(p.of) : p \in placed}
               THEN Go(i, Over) /\ UNCHANGED half
               ELSE /\ Go(i, [at |-> "placing", event |-> {e}])
                    /\ half' = half \cup {Path(e.of)}
          /\ UNCHANGED <<recorded, opened, placed>>
    BY <1>7 DEF CreateArtifact
  <2>2. e \in recorded
    BY <2>1 DEF At, IndInv, Pending
  <2>3. PICK to \in {Over, [at |-> "placing", event |-> {e}]} : Go(i, to)
    BY <2>1
  <2>4. \A x \in half' : x \notin {Path(f.of) : f \in placed}
    BY <2>1, <1>4
  <2>5. /\ to.at \in ConfirmSteps
        /\ to.event = {} <=> to.at \in {"idle", "over"}
        /\ to.event \subseteq {e}
        /\ to.at \in {"recorded", "placing"} => to.event \subseteq recorded'
    BY <2>1, <2>2, <2>3 DEF Over, ConfirmSteps
  <2> QED
    BY <2>1, <2>3, <2>4, <2>5, <1>3, <1>4, StepPreserves
<1>8. CASE WriteArtifact(i)
  <2>1. PICK e \in confirming[i].event :
          /\ At(i, "placing", e)
          /\ Go(i, Over)
          /\ half' = half \ {Path(e.of)}
          /\ placed' = placed \cup {e}
          /\ UNCHANGED <<recorded, opened>>
    BY <1>8 DEF WriteArtifact
  <2>2. e \in recorded
    BY <2>1 DEF At, IndInv, Pending
  <2>3. /\ (placed \subseteq recorded)'
        /\ \A x \in half' : x \notin {Path(f.of) : f \in placed'}
    BY <2>1, <2>2, <1>4
  <2>4. /\ Over.at \in ConfirmSteps
        /\ Over.event = {} <=> Over.at \in {"idle", "over"}
        /\ Over.event = {}
        /\ Over.at \notin {"recorded", "placing"}
    BY DEF Over, ConfirmSteps
  <2> QED
    BY <2>1, <2>3, <2>4, <1>3, <1>4, StepPreserves
<1>9. CASE Crash(i)
  <2>1. Over.at \in ConfirmSteps /\ Over.event = {} /\ Over.at = "over"
    BY DEF Over, ConfirmSteps
  <2> QED
    BY <1>9, <2>1, <1>3, <1>4, StepPreserves DEF Crash
<1> QED
  BY <1>2, <1>5, <1>6, <1>7, <1>8, <1>9

(* Every variable has its type; in particular nothing of the pack has its  *)
(* artifact without its event in the ledger, however commands die.         *)
THEOREM AuthorityTyped == AuthoritySpec => []AuthorityTypeOK
<1>1. IndInv => AuthorityTypeOK
  BY DEF IndInv
<1> QED
  BY InitEstablishes, NextPreserves, <1>1, PTL DEF AuthoritySpec

(* What the ledger says an owner confirmed has a closure that holds for    *)
(* ever: its cards, its base contract, its predecessors and the answers to *)
(* its questions are themselves confirmed, each contract is a successor of *)
(* those before it, and a requirement's claim graph builds                 *)
(* (preflightAuthorityClosure, run once, before anything was recorded).    *)
THEOREM ConfirmedIsFounded == AuthoritySpec => []Founded
<1>1. IndInv => Founded
  BY DEF IndInv
<1> QED
  BY InitEstablishes, NextPreserves, <1>1, PTL DEF AuthoritySpec

-------------------------------------------------------------------------------

(* What the invariant says of a contract of the ledger.                    *)
LEMMA ContractFounded ==
  ASSUME IndInv, NEW d \in Named("contract")
  PROVE  /\ d \in recorded
         /\ \A k \in DOMAIN d.of.claims : d.of.claims[k].card \in recorded
                                        /\ d.of.claims[k].card.of.claim = k
         /\ \A p \in d.of.after : p \in Named("contract") /\ Successor(p.of, d.of)
<1>1. d \in recorded /\ d.of.kind = "contract"
  BY DEF Named
<1>2. ClosureHolds(d.of) /\ Shaped(d.of)
  BY <1>1 DEF IndInv, Founded
<1>3. /\ \A k \in DOMAIN d.of.claims : d.of.claims[k].card \in recorded
      /\ \A p \in d.of.after : p \in recorded /\ Successor(p.of, d.of)
  BY <1>1, <1>2 DEF ClosureHolds
<1> QED
  BY <1>1, <1>2, <1>3 DEF Shaped, Named

(* Predecessors are in the ledger themselves.                              *)
LEMMA KnownIsNamed == ASSUME IndInv PROVE Known = Named("contract")
  BY ContractFounded DEF Known

(* To show something of all the contracts before c it is enough that c has *)
(* it and hands it on to its predecessor.                                  *)
LEMMA HistoryWithin ==
  ASSUME NEW c, NEW S \in SUBSET Known, c \in S, \A e \in S : e.of.after \cap Known \subseteq S
  PROVE  History(c) \subseteq S
BY DEF History

(* The invariant gives HistoryIsKept, along the chain of predecessors.     *)
LEMMA HistoryKept == ASSUME IndInv PROVE HistoryIsKept
<1> SUFFICES ASSUME NEW d \in Named("contract")
             PROVE  \A c \in History(d) :
                      /\ c \in recorded
                      /\ \A k \in DOMAIN c.of.claims :
                           /\ c.of.claims[k].card \in recorded
                           /\ c.of.claims[k].card.of.claim = k
                           /\ k \in DOMAIN d.of.claims
                           /\ c.of.claims[k].life = "retired"
                                => Semantics(d.of, k) = Semantics(c.of, k)
  BY DEF HistoryIsKept
<1> DEFINE Keeps(c) ==
      \A k \in DOMAIN c.of.claims :
        /\ k \in DOMAIN d.of.claims
        /\ c.of.claims[k].life = "retired" => Semantics(d.of, k) = Semantics(c.of, k)
    S == {c \in Known : Keeps(c)}
<1>1. d \in S
  BY KnownIsNamed
<1>2. ASSUME NEW e \in S, NEW p \in e.of.after PROVE p \in S
  <2>1. e \in Named("contract") /\ Keeps(e)
    BY KnownIsNamed
  <2>2. p \in Named("contract") /\ Successor(p.of, e.of)
    BY <2>1, ContractFounded
  <2>3. ASSUME NEW k \in DOMAIN p.of.claims
        PROVE  /\ k \in DOMAIN d.of.claims
               /\ p.of.claims[k].life = "retired" => Semantics(d.of, k) = Semantics(p.of, k)
    <3>1. /\ k \in DOMAIN e.of.claims
          /\ p.of.claims[k].life = "retired" => Semantics(e.of, k) = Semantics(p.of, k)
      BY <2>2 DEF Successor
    <3>2. Semantics(e.of, k) = Semantics(p.of, k) => e.of.claims[k].life = p.of.claims[k].life
      BY DEF Semantics
    <3> QED
      BY <2>1, <3>1, <3>2
  <2> QED
    BY <2>2, <2>3, KnownIsNamed
<1> HIDE DEF Keeps
<1>3. History(d) \subseteq S
  BY <1>1, <1>2, HistoryWithin
<1>4. ASSUME NEW c \in History(d)
      PROVE  /\ c \in recorded
             /\ \A k \in DOMAIN c.of.claims :
                  c.of.claims[k].card \in recorded /\ c.of.claims[k].card.of.claim = k
  BY <1>3, KnownIsNamed, ContractFounded
<1> QED
  BY <1>3, <1>4 DEF Keeps

(* Without an open blocking question and without cards, readiness is not   *)
(* red.                                                                    *)
LEMMA NotRed ==
  ASSUME NEW c, NEW r, \A q \in r.of.asks : q.answer = {} => ~q.blocking
  PROVE  Readiness(c, r, {}) # "red"
<1>1. Binding(r) \in {"warning", "pass"}
  <2>1. CASE \E q \in r.of.asks : q.answer = {}
    BY <2>1 DEF Binding
  <2>2. CASE \A q \in r.of.asks : q.answer # {}
    BY <2>2 DEF Binding
  <2> QED
    BY <2>1, <2>2
<1> DEFINE about == {d \in {} : d.claim \in RequestedClosure(c, r) /\ d.status # "confirmed"}
<1>2. about = {}
  OBVIOUS
<1> QED
  BY <1>1 DEF Readiness

(* An unconfirmed severe card about a requested claim is red.              *)
LEMMA SevereIsRed ==
  ASSUME NEW c, NEW r, r.of.names \subseteq DOMAIN c.of.claims, NEW k \in r.of.names
  PROVE  Readiness(c, r, {[claim |-> k, status |-> "proposed", severe |-> TRUE]}) = "red"
<1> DEFINE card == [claim |-> k, status |-> "proposed", severe |-> TRUE]
<1>1. k \in RequestedClosure(c, r)
  BY DEF RequestedClosure
<1> DEFINE about == {d \in {card} : d.claim \in RequestedClosure(c, r) /\ d.status # "confirmed"}
<1>2. card.claim = k /\ card.status = "proposed" /\ card.severe
  OBVIOUS
<1> HIDE DEF card
<1>3. about = {card}
  BY <1>1, <1>2
<1>4. Readiness(c, r, {card}) =
        CASE Binding(r) = "fail" \/ \E d \in about : d.severe -> "red"
          [] Binding(r) # "fail" /\ (\A d \in about : ~d.severe)
               /\ (Binding(r) = "warning" \/ about # {}) -> "yellow"
          [] Binding(r) = "pass" /\ about = {} -> "green"
  BY DEF Readiness
<1> HIDE DEF about
<1>5. Readiness(c, r, {card}) = "red"
  BY <1>2, <1>3, <1>4
<1> QED
  BY <1>5 DEF card

(* The invariant gives ConfirmedPackValidates: the validator asks of the   *)
(* pack what the confirm command asked of the ledger.                      *)
LEMMA PackValid == ASSUME IndInv PROVE ConfirmedPackValidates
<1> DEFINE cards(d) == {d.of.claims[k].card : k \in DOMAIN d.of.claims}
           pending(k) == {[claim |-> k, status |-> "proposed", severe |-> TRUE]}
           Resting(r) == UNION {cards(d) : d \in History(r.of.base)}
           Answers(r) == UNION {q.answer : q \in r.of.asks}
           Leads(r) == History(r.of.base) \cup Resting(r) \cup Answers(r)
           Right(r) == /\ PackAccepts(r.of.base, r)
                       /\ Readiness(r.of.base, r, {}) # "red"
                       /\ \A k \in r.of.names : Readiness(r.of.base, r, pending(k)) = "red"
<1>0. ConfirmedPackValidates <=>
        \A r \in placed : r.of.kind = "requirement" => (Leads(r) \subseteq placed => Right(r))
  BY Zenon DEF ConfirmedPackValidates
<1> HIDE DEF Resting, Answers, Leads, Right
<1> SUFFICES ASSUME NEW r \in placed, r.of.kind = "requirement", Leads(r) \subseteq placed
             PROVE  Right(r)
  BY <1>0
<1> DEFINE c == r.of.base
<1>1. placed \subseteq recorded
  BY DEF IndInv, AuthorityTypeOK
<1>2. /\ \A q \in r.of.asks : IF q.answer = {} THEN ~q.blocking ELSE q.answer \subseteq recorded
      /\ GraphBuilds(c, r.of)
  BY <1>1 DEF IndInv, Founded, ClosureHolds
<1>3. ASSUME NEW d \in History(c) PROVE PackContract(d)
  <2>1. d \in Named("contract")
    BY KnownIsNamed DEF History
  <2>2. InPack(d)
    BY <1>1 DEF InPack, Leads
  <2>3. \A k \in DOMAIN d.of.claims : InPack(d.of.claims[k].card)
    <3> TAKE k \in DOMAIN d.of.claims
    <3> DEFINE card == d.of.claims[k].card
    <3>1. card \in cards(d)
      OBVIOUS
    <3> HIDE DEF card, cards
    <3>2. card \in Resting(r)
      BY <3>1 DEF Resting
    <3>3. card \in Leads(r)
      BY <3>2 DEF Leads
    <3>4. InPack(card)
      BY <1>1, <3>3 DEF InPack
    <3> QED
      BY <3>4 DEF card
  <2> QED
    BY <2>1, <2>2, <2>3, ContractFounded DEF PackContract
<1>4. PackRequirement(r)
  <2>1. ASSUME NEW q \in r.of.asks, NEW e \in q.answer PROVE e \in Leads(r)
    <3>1. e \in Answers(r)
      BY DEF Answers
    <3> QED
      BY <3>1 DEF Leads
  <2> QED
    BY <1>1, <2>1 DEF PackRequirement, InPack
<1>5. PackAccepts(c, r)
  BY <1>2, <1>3, <1>4 DEF PackAccepts
<1>6. r.of.names \subseteq DOMAIN c.of.claims
  BY <1>2 DEF GraphBuilds
<1> QED
  BY <1>2, <1>5, <1>6, NotRed, SevereIsRed DEF Right

(* However many operators confirmed in whatever order and wherever a       *)
(* command died: a confirmed contract rests on confirmed cards and         *)
(* contracts all the way back, and no claim of any of these is lost or     *)
(* revived after it was retired.                                           *)
THEOREM AuthorityKeepsHistory == AuthoritySpec => []HistoryIsKept
  BY InitEstablishes, NextPreserves, HistoryKept, PTL DEF AuthoritySpec

(* Once what a confirmed requirement leads to is in place, validation      *)
(* accepts the pack; its readiness is not red by a question of its own,    *)
(* and is red by a severe card about one of its claims.                    *)
THEOREM ConfirmedValidates == AuthoritySpec => []ConfirmedPackValidates
  BY InitEstablishes, NextPreserves, PackValid, PTL DEF AuthoritySpec
==============================================================================
