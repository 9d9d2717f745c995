------------------------------ MODULE Episode ------------------------------
(***************************************************************************)
(* One arm of a Campaign from the model's first turn to its evaluation.    *)
(* The DSH process runs the arm and logs its Session; executeArm           *)
(* (src/campaign/real.ts) finds the log among all Sessions and freezes the *)
(* workspace; evaluateArm lets the oracle judge the frozen Candidate and   *)
(* looks at the workspace again; evaluationFromFrozenEvidence              *)
(* (src/validity) folds the log into figures (src/projector) and decides   *)
(* what they are worth.                                                    *)
(*                                                                         *)
(* The engine is external: it logs well-formed turns, keeps its own        *)
(* account of them, and may be killed in any step.  That a process which   *)
(* ends with exit code 0 and in time has logged everything is what         *)
(* CarrierProcess shows of its runner (HealthyIsWhole).                    *)
(***************************************************************************)
EXTENDS Naturals, Sequences, FiniteSets

CONSTANTS
  MaxSteps,    (* Bound: the steps of a Session.                           *)
  MaxRounds,   (* max_goal_rounds of every Goal.                           *)
  Operations   (* The Goal operations that the model uses.                 *)

GoalOperations == {"create", "edit", "pause", "resume", "complete", "block", "clear"}

ASSUME EpisodeAssumption ==
  MaxSteps \in Nat /\ MaxRounds \in Nat /\ Operations \subseteq GoalOperations

VARIABLES
  arm,        (* "control" or "treatment".                                 *)
  oddity,     (* What is unusual about the Episode besides its end, if     *)
              (* anything is: one thing at most.                           *)
  log,        (* The Session events on disk.                               *)
  engine,     (* The engine's own account of the Session.                  *)
  tree,       (* The workspace.                                            *)
  ending,     (* How the process ended.                                    *)
  stage,      (* The step the Campaign is at.                              *)
  frozen,     (* The frozen Candidate.                                     *)
  behavior,   (* The oracle's vector.                                      *)
  verdict     (* The evaluation.                                           *)

evars == <<arm, oddity, log, engine, tree, ending, stage, frozen, behavior, verdict>>

Trees == {"base", "good", "bad", "outside", "meddled"}
Behaviors == {"b1", "b2"}
Oddities == {"none", "surface", "prompt", "second", "unstable"}
NoGoal == [id |-> 0, revision |-> 0, phase |-> "none", rounds |-> 0]

-----------------------------------------------------------------------------
(***************************************************************************)
(* foldGoalEvidence.  Rounds and changes of a Goal follow one another; a   *)
(* log in which they do not proves nothing.                                *)
(***************************************************************************)
Moves ==
  {<<"pause", "active", "paused">>, <<"block", "active", "blocked">>}
  \cup {<<"resume", p, "active">> : p \in {"active", "paused", "blocked"}}
  \cup {<<"complete", p, "complete">> : p \in {"active", "paused", "blocked"}}
  \cup {<<"edit", p, p>> : p \in {"active", "paused", "blocked", "complete"}}
  \cup {<<"clear", p, "none">> : p \in {"active", "paused", "blocked", "complete"}}

Follows(f, e) ==
  IF e.operation = "create"
  THEN /\ f.goal.phase \in {"none", "complete"}
       /\ e.revision = 1 /\ e.phase = "active" /\ e.rounds = 0
       /\ e.id \notin f.ids
  ELSE /\ <<e.operation, f.goal.phase, e.phase>> \in Moves
       /\ e.id = f.goal.id /\ e.revision = f.goal.revision + 1
       /\ e.operation # "clear" => e.rounds = f.goal.rounds
       /\ e.operation = "resume" => e.rounds < MaxRounds

NoFold == [valid |-> TRUE, goal |-> NoGoal, ids |-> {}, most |-> 0]

FoldRound(f, e) ==
  IF /\ f.goal.phase = "active" /\ e.id = f.goal.id /\ e.revision = f.goal.revision
     /\ e.round = f.goal.rounds + 1 /\ e.round <= MaxRounds
  THEN [valid |-> TRUE, goal |-> [f.goal EXCEPT !.rounds = e.round], ids |-> f.ids,
        most |-> IF e.round > f.most THEN e.round ELSE f.most]
  ELSE [NoFold EXCEPT !.valid = FALSE]

FoldChange(f, e) ==
  IF ~Follows(f, e) THEN [NoFold EXCEPT !.valid = FALSE]
  ELSE [valid |-> TRUE,
        goal |-> IF e.operation = "clear" THEN NoGoal
                 ELSE [id |-> e.id, revision |-> e.revision, phase |-> e.phase,
                       rounds |-> e.rounds],
        ids |-> f.ids \cup {e.id}, most |-> f.most]

Folded(f, e) ==
  CASE f.valid /\ e.type = "goal/change" -> FoldChange(f, e)
    [] f.valid /\ e.type = "user/message" /\ e.source = "goal" -> FoldRound(f, e)
    [] OTHER -> f

FoldGoalEvidence(events) ==
  LET fold[n \in 0..Len(events)] ==
        IF n = 0 THEN NoFold ELSE Folded(fold[n - 1], events[n])
  IN fold[Len(events)]

(* projectGoalActivation: whether the log has a Goal created.              *)
Activated(events) ==
  FoldGoalEvidence(events).valid /\ FoldGoalEvidence(events).ids # {}

(***************************************************************************)
(* validLifecycle: turns and steps open and close in pairs.                *)
(***************************************************************************)
LifecycleStep(open, e) ==
  CASE e.type = "turn/start" -> IF open = "none" THEN "turn" ELSE "broken"
    [] e.type = "step/start" -> IF open = "turn" THEN "step" ELSE "broken"
    [] e.type = "step/end" -> IF open = "step" THEN "turn" ELSE "broken"
    [] e.type = "turn/end" -> IF open = "turn" THEN "none" ELSE "broken"
    [] OTHER -> open
ValidLifecycle(events) ==
  LET open[n \in 0..Len(events)] ==
        IF n = 0 THEN "none" ELSE LifecycleStep(open[n - 1], events[n])
  IN open[Len(events)] = "none"

(***************************************************************************)
(* projectSessionEvidence.                                                 *)
(***************************************************************************)
OfType(events, type) == {i \in DOMAIN events : events[i].type = type}
NumberOf(events, type) == Cardinality(OfType(events, type))

RequiredTypes ==
  {"request", "user/message", "assistant/message", "tool/call", "tool/result", "turn/end"}

PromptIsolated(events) ==
  LET messages == OfType(events, "user/message")
  IN /\ Cardinality({i \in messages : events[i].source = "user"}) = 1
     /\ \A i \in messages : events[i].public

(* Every call has one result, and there is no other result.                *)
CallsAnswered(events) ==
  LET Rows(type) == OfType(events, type)
      Named(type) == {events[i].call : i \in Rows(type)}
  IN /\ \A type \in {"tool/call", "tool/result"} :
          \A i, j \in Rows(type) : events[i].call = events[j].call => i = j
     /\ Named("tool/call") = Named("tool/result")

SessionInvalid(events) ==
  \/ ~PromptIsolated(events)
  \/ \E type \in RequiredTypes : OfType(events, type) = {}
  \/ ~ValidLifecycle(events)
  \/ ~FoldGoalEvidence(events).valid
  \/ ~CallsAnswered(events)

UsageComplete(events) == \A i \in OfType(events, "assistant/message") : events[i].usage

(* What the last message with a text claims.                               *)
CompletionClaim(events) ==
  LET texts == {i \in OfType(events, "assistant/message") : events[i].claim # "silent"}
      last == CHOOSE i \in texts : \A j \in texts : j <= i
  IN IF texts = {} THEN "absent" ELSE events[last].claim

TokenRows(events) == {i \in OfType(events, "assistant/message") : events[i].usage}
FailedRows(events) == {i \in OfType(events, "tool/result") : events[i].failed}

(* The log decides nothing where it leaves usage or the claim out.         *)
Project(events) ==
  LET fold == FoldGoalEvidence(events)
      usage == UsageComplete(events)
      claim == CompletionClaim(events)
      invalid == SessionInvalid(events)
  IN [overall |-> IF invalid THEN "invalid"
                  ELSE IF usage /\ claim # "absent" THEN "valid" ELSE "insufficient",
      evidence |-> IF invalid THEN "invalid" ELSE "valid",
      cost |-> IF invalid THEN "invalid" ELSE IF usage THEN "valid" ELSE "insufficient",
      claim |-> claim,
      isolated |-> PromptIsolated(events),
      created |-> Activated(events), rounds |-> fold.most, phase |-> fold.goal.phase,
      turns |-> NumberOf(events, "turn/start"), steps |-> NumberOf(events, "step/start"),
      calls |-> NumberOf(events, "tool/call"), tokens |-> Cardinality(TokenRows(events)),
      failed |-> Cardinality(FailedRows(events))]

(* A log with a torn row does not decode: projectFrozenSession.            *)
Undecodable ==
  [overall |-> "invalid", evidence |-> "invalid", cost |-> "invalid", claim |-> "absent",
   isolated |-> FALSE, created |-> FALSE, rounds |-> 0, phase |-> "none", turns |-> 0,
   steps |-> 0, calls |-> 0, tokens |-> 0, failed |-> 0]

-----------------------------------------------------------------------------
EpisodeInit ==
  /\ arm \in {"control", "treatment"}
  /\ oddity \in Oddities
  /\ log = <<>>
  /\ engine = [open |-> FALSE, turns |-> 0, steps |-> 0, goal |-> NoGoal, goals |-> 0,
               most |-> 0, calls |-> 0, failed |-> 0, tokens |-> 0, claim |-> "absent"]
  /\ tree = "base"
  /\ ending = "running"
  /\ stage = "running"
  /\ frozen = "base"
  /\ behavior = [b \in Behaviors |-> "error"]
  /\ verdict = [overall |-> "none"]

(***************************************************************************)
(* The engine (external).  A step is one request of the model and at most  *)
(* one tool call; a step without a call ends the turn, and while a Goal is *)
(* active and has rounds left its driver opens the next.                   *)
(***************************************************************************)
Talks == [what : {"talk"}, usage : BOOLEAN, claim : {"complete", "absent"}]
Edits == [what : {"good", "bad", "outside", "failing"}, usage : {TRUE}, claim : {"silent"}]
Changes == [what : Operations, usage : {TRUE}, claim : {"silent"}]

RoundDue == engine.goal.phase = "active" /\ engine.goal.rounds < MaxRounds
GoalBefore == IF engine.open \/ engine.turns = 0 THEN engine.goal
              ELSE [engine.goal EXCEPT !.rounds = @ + 1]

(* The Goal that a change leads to. *)
NextGoals(c) ==
  IF c.what \notin Operations THEN {GoalBefore}
  ELSE IF c.what = "create"
  THEN {[id |-> engine.goals + 1, revision |-> 1, phase |-> "active", rounds |-> 0] :
          g \in {GoalBefore.phase} \cap {"none", "complete"}}
  ELSE {[id |-> GoalBefore.id, revision |-> GoalBefore.revision + 1, phase |-> m[3],
         rounds |-> GoalBefore.rounds] :
          m \in {m \in Moves : /\ m[1] = c.what /\ m[2] = GoalBefore.phase
                               /\ c.what = "resume" => GoalBefore.rounds < MaxRounds}}

Opening ==
  IF engine.open THEN <<>>
  ELSE <<IF engine.turns = 0
         THEN [type |-> "user/message", source |-> "user", public |-> oddity # "prompt"]
         ELSE [type |-> "user/message", source |-> "goal", public |-> TRUE,
               id |-> GoalBefore.id, revision |-> GoalBefore.revision,
               round |-> GoalBefore.rounds],
         [type |-> "turn/start"]>>

Calling(c, g) ==
  LET call == engine.calls + 1
      change == [type |-> "goal/change", operation |-> c.what, id |-> g.id,
                 revision |-> g.revision, phase |-> IF c.what = "clear" THEN "none" ELSE g.phase,
                 rounds |-> g.rounds]
  IN IF c.what = "talk" THEN <<>>
     ELSE <<[type |-> "tool/call", call |-> call]>>
            \o (IF c.what \in Operations THEN <<change>> ELSE <<>>)
            \o <<[type |-> "tool/result", call |-> call, failed |-> c.what = "failing"]>>

StepEvents(c, g) ==
  Opening \o <<[type |-> "step/start"]>>
    \o (IF engine.steps = 0 THEN <<[type |-> "request"]>> ELSE <<>>)
    \o <<[type |-> "assistant/message", usage |-> c.usage, claim |-> c.claim]>>
    \o Calling(c, g)
    \o <<[type |-> "step/end"]>>
    \o (IF c.what = "talk" THEN <<[type |-> "turn/end"]>> ELSE <<>>)

Account(c, g) ==
  [open |-> c.what # "talk",
   turns |-> engine.turns + IF engine.open THEN 0 ELSE 1,
   steps |-> engine.steps + 1,
   goal |-> IF c.what = "clear" THEN NoGoal ELSE g,
   goals |-> engine.goals + IF c.what = "create" THEN 1 ELSE 0,
   most |-> IF GoalBefore.rounds > engine.most THEN GoalBefore.rounds ELSE engine.most,
   calls |-> engine.calls + IF c.what = "talk" THEN 0 ELSE 1,
   failed |-> engine.failed + IF c.what = "failing" THEN 1 ELSE 0,
   tokens |-> engine.tokens + IF c.usage THEN 1 ELSE 0,
   claim |-> IF c.what = "talk" THEN c.claim ELSE engine.claim]

(* Goal tools are in the treatment's surface, and in that of no other arm  *)
(* unless the surface is not the frozen one.                               *)
Steps ==
  IF stage = "running" /\ engine.steps < MaxSteps
       /\ (engine.open \/ engine.turns = 0 \/ RoundDue)
  THEN Talks \cup Edits
         \cup IF arm = "treatment" \/ oddity = "surface" THEN Changes ELSE {}
  ELSE {}

Worked(c, g) ==
  /\ engine' = Account(c, g)
  /\ tree' = IF c.what \in Trees THEN c.what ELSE tree
  /\ UNCHANGED <<arm, oddity, frozen, behavior, verdict>>

StepIsTaken ==
  \E c \in Steps : \E g \in NextGoals(c) :
    /\ Worked(c, g)
    /\ log' = log \o StepEvents(c, g)
    /\ UNCHANGED <<ending, stage>>

(* The process is killed in the step, runs into the deadline or the output *)
(* limit in it, or has torn the row that it was writing.                   *)
StepIsCut ==
  \E c \in Steps : \E g \in NextGoals(c) :
    /\ Worked(c, g)
    /\ \E n \in 0..Len(StepEvents(c, g)) :
         log' = log \o SubSeq(StepEvents(c, g), 1, n)
    /\ ending' \in {"killed", "torn", "stopped"}
    /\ stage' = "ended"

SessionEnds ==
  /\ stage = "running" /\ ~engine.open /\ engine.turns > 0 /\ ~RoundDue
  /\ ending' = "clean"
  /\ stage' = "ended"
  /\ UNCHANGED <<arm, oddity, log, engine, tree, frozen, behavior, verdict>>

(***************************************************************************)
(* executeArm after the process: a stopped arm is not frozen; the fresh    *)
(* Session must be the only one and its transcript at rest; the workspace  *)
(* is frozen as a Git tree with the paths that it changes.                 *)
(***************************************************************************)
ArmThrows ==
  /\ stage = "ended"
  /\ ending = "stopped" \/ oddity \in {"second", "unstable"}
  /\ stage' = "thrown"
  /\ UNCHANGED <<arm, oddity, log, engine, tree, ending, frozen, behavior, verdict>>

FreezeCandidate ==
  /\ stage = "ended"
  /\ ending # "stopped" /\ oddity \notin {"second", "unstable"}
  /\ frozen' = tree
  /\ stage' = "frozen"
  /\ UNCHANGED <<arm, oddity, log, engine, tree, ending, behavior, verdict>>

(* A process that the arm has left behind writes into the workspace.       *)
Meddle ==
  /\ stage \in {"frozen", "judged"}
  /\ tree' = "meddled"
  /\ UNCHANGED <<arm, oddity, log, engine, ending, stage, frozen, behavior, verdict>>

(***************************************************************************)
(* evaluateArm: an unauthorized Candidate is not run; every behavior that  *)
(* the oracle runner does not answer is an error.                          *)
(***************************************************************************)
Authorized == frozen # "outside"

Vector ==
  [b \in Behaviors |->
     IF ~Authorized THEN "error"
     ELSE IF frozen = "good" \/ (frozen = "bad" /\ b = "b1") THEN "pass" ELSE "fail"]

RunOracle ==
  /\ stage = "frozen"
  /\ \E unanswered \in SUBSET Behaviors :
       behavior' = [b \in Behaviors |-> IF b \in unanswered THEN "error" ELSE Vector[b]]
  /\ stage' = "judged"
  /\ UNCHANGED <<arm, oddity, log, engine, tree, ending, frozen, verdict>>

-----------------------------------------------------------------------------
(* A process that ended in time is taken to be healthy. *)
BadCarrierProcessHealthy == ending # "stopped"

(* The gates of evaluationFromFrozenEvidence; the tree that is compared is *)
(* that of the workspace after the oracle.                                 *)
CarrierProcessHealthy == ending = "clean"
DeploymentMatches == oddity # "surface"

EvaluationFromEvidence(p) ==
  LET hardInvalid == \/ ~Authorized \/ ~p.isolated \/ tree # frozen
                     \/ ~DeploymentMatches \/ ~CarrierProcessHealthy
      oracleValid == \A b \in Behaviors : behavior[b] # "error"
      outcomeInvalid == hardInvalid \/ ~oracleValid \/ p.evidence = "invalid"
      verified == IF outcomeInvalid THEN "unknown"
                  ELSE IF \A b \in Behaviors : behavior[b] = "pass" THEN "yes" ELSE "no"
      goalMissing == arm = "treatment" /\ ~p.created
      lowered(v) == IF goalMissing /\ v = "valid" THEN "insufficient" ELSE v
  IN [overall |-> IF outcomeInvalid THEN "invalid" ELSE lowered(p.overall),
      outcome |-> IF outcomeInvalid THEN "invalid" ELSE p.evidence,
      mechanism |-> IF DeploymentMatches THEN lowered(p.evidence) ELSE "invalid",
      cost |-> IF CarrierProcessHealthy THEN p.cost ELSE "invalid",
      verified |-> verified,
      falseClaim |-> p.claim = "complete" /\ verified = "no",
      figures |-> p]

Evaluate ==
  /\ stage = "judged"
  /\ verdict' = EvaluationFromEvidence(IF ending = "torn" THEN Undecodable ELSE Project(log))
  /\ stage' = "evaluated"
  /\ UNCHANGED <<arm, oddity, log, engine, tree, ending, frozen, behavior>>

EpisodeNext ==
  \/ StepIsTaken \/ StepIsCut \/ SessionEnds
  \/ ArmThrows \/ FreezeCandidate \/ Meddle \/ RunOracle \/ Evaluate

EpisodeSpec == EpisodeInit /\ [][EpisodeNext]_evars

-----------------------------------------------------------------------------
(***************************************************************************)
(* What an evaluation declares valid is the truth.  A valid Episode has    *)
(* its whole Session behind it, and every figure read from the log is the  *)
(* engine's; valid costs are of a Session that ended by itself; a verified *)
(* outcome is that of the Candidate that was frozen and has not changed.   *)
(* A log cut between two turns is well-formed, so that only the process    *)
(* tells it from a whole one.                                              *)
(***************************************************************************)
EpisodeTellsTruth ==
  stage = "evaluated" =>
    LET f == verdict.figures
    IN /\ verdict.overall = "valid" =>
            /\ ending = "clean" /\ oddity = "none" /\ tree = frozen
            /\ f.created <=> engine.goals > 0
            /\ arm = "treatment" <=> f.created
            /\ <<f.turns, f.steps, f.calls, f.failed>>
                 = <<engine.turns, engine.steps, engine.calls, engine.failed>>
            /\ <<f.rounds, f.phase>> = <<engine.most, engine.goal.phase>>
            /\ f.claim = engine.claim
       /\ verdict.cost = "valid" =>
            ending = "clean" /\ f.tokens = engine.tokens /\ f.tokens = engine.steps
       /\ verdict.verified # "unknown" => (verdict.verified = "yes" <=> frozen = "good")
       /\ verdict.falseClaim => engine.claim = "complete" /\ frozen # "good"
=============================================================================
