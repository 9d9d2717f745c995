----------------------------- MODULE JudgeCohort -----------------------------
(***************************************************************************)
(* The cohorts of the model judges (phase3c/judge-cohort.ts and            *)
(* judge-runner.ts, driven by scripts/run-phase3c-judge-cohort.ts).  Every *)
(* case is judged in independent repeats by fresh sessions; a transport    *)
(* failure is tried again, and the repeats are merged into one aggregate,  *)
(* in which a dimension on which they disagree abstains.  A pass that was  *)
(* interrupted is resumed by another one, which takes the aggregates that  *)
(* are there and judges the other cases anew.                              *)
(*                                                                         *)
(* Artifacts are published once and for all (contracts/artifacts.ts); one  *)
(* publication is one step here, a writer that dies in it can leave the    *)
(* name with two links, which nobody reads or writes from then on.  The    *)
(* inputs of a case are the same bytes in every pass and left out; a       *)
(* decision stands for one dimension of a result that passed validation.   *)
(***************************************************************************)
EXTENDS Naturals, FiniteSets, Sequences

CONSTANTS
  Passes,       \* invocations of the script on one output root
  Earlier,      \* one of them, which is over when the others start
  JudgeCases,   \* number of cases of the set, in their order
  Repeats,      \* repeats of a case: 3 in the code
  MaxTries,     \* maxAttemptsPerRepeat
  MaxCuts,      \* bound on the sessions that are cut off, in all passes
  Decisions     \* what a judge can decide on a case

ASSUME JudgeAssumption ==
  /\ {JudgeCases, Repeats, MaxTries} \subseteq Nat \ {0}
  /\ Decisions \cap {"none", "open", "transport", "invalid"} = {}

VARIABLES
  started,      \* whether the output root exists
  runs,         \* run directories, by pass, case, repeat and attempt
  aggregate,    \* the aggregate of each case
  spaces,       \* .workspaces and the passes that have workspaces in it
  pass,         \* where each pass is
  summary       \* the summary each pass has written

jvars == <<started, runs, aggregate, spaces, pass, summary>>

CaseIds == 1..JudgeCases
RunIds == Passes \X CaseIds \X (1..Repeats) \X (1..MaxTries)

NoSpaces == [there |-> FALSE, of |-> {}]

(* A run directory holds no receipt that can be read ("open") or the       *)
(* outcome of the run: a session without a whole turn, any other invalid   *)
(* run, or a decision.                                                     *)
Outcomes == {"transport", "invalid"} \cup Decisions
RunStates == {"none", "open"} \cup Outcomes

(* An aggregate counts one run of each repeat.  It is there, or not, or    *)
(* has two links; what a pass and its summary report are aggregates, too.  *)
Aggregates ==
  [is : {"absent", "doubled", "whole"}, counted : Seq(RunIds),
   verdict : Decisions \cup {"unstable", "none"}]
None == [is |-> "absent", counted |-> <<>>, verdict |-> "none"]
Doubled == [None EXCEPT !.is = "doubled"]
NoResults == [c \in CaseIds |-> None]
NoSummary == [is |-> "absent", valid |-> FALSE, results |-> NoResults]

FreshPass ==
  [at |-> "off", resume |-> FALSE, failed |-> FALSE, case |-> 1, repeat |-> 1,
   attempt |-> 1, counted |-> <<>>, results |-> NoResults]

(* Nothing is there, or what Earlier left: it died in its first session.   *)
JudgeInit ==
  /\ \E left \in {{}, {<<Earlier, 1, 1, 1>>}} :
       /\ started = (left # {})
       /\ runs = [id \in RunIds |-> IF id \in left THEN "open" ELSE "none"]
  /\ pass = [p \in Passes |-> IF p = Earlier THEN [FreshPass EXCEPT !.at = "dead"] ELSE FreshPass]
  /\ aggregate = NoResults
  /\ spaces = NoSpaces
  /\ summary = [p \in Passes |-> NoSummary]

PassRunning(p) == pass[p].at \notin {"off", "done", "broken", "dead"}
PassAt(p, place) == pass[p].at = place
Set(p, changed) == pass' = [pass EXCEPT ![p] = changed]
Proceed(p, place) == Set(p, [pass[p] EXCEPT !.at = place])

(* The end of a pass, of which only its files are left.                    *)
End(p, place) == Set(p, [FreshPass EXCEPT !.at = place])

(* What a throw inside the try block leads to: the workspaces go and an    *)
(* invalid summary is written.                                             *)
Fail(p) == Set(p, [pass[p] EXCEPT !.at = "clean", !.failed = TRUE])

(* The run that the pass is at, and the aggregates it reports.             *)
RunId(p) == <<p, pass[p].case, pass[p].repeat, pass[p].attempt>>
Reported(results) == {c \in CaseIds : results[c].is = "whole"}
Reports(p) == Reported(pass[p].results)

(* On to the next case, or to the end of the pass.                         *)
Advance(p, state) ==
  IF pass[p].case < JudgeCases
    THEN Set(p, [state EXCEPT !.at = "case", !.case = @ + 1])
    ELSE Set(p, [state EXCEPT !.at = "clean", !.case = 1])

(* The script starts: a fresh pass makes the output root, which may not    *)
(* exist; a resuming one takes it as it is.                                *)
StartPass(p) ==
  /\ PassAt(p, "off")
  /\ \E resume \in BOOLEAN :
       /\ resume \/ ~started
       /\ Set(p, [pass[p] EXCEPT !.resume = resume,
                                 !.at = IF resume THEN "clear" ELSE "make"])
  /\ started' = TRUE
  /\ UNCHANGED <<runs, aggregate, spaces, summary>>

(* A resuming pass removes .workspaces, whoever is working there.          *)
Clear(p) ==
  /\ PassAt(p, "clear")
  /\ spaces' = NoSpaces
  /\ Proceed(p, "make")
  /\ UNCHANGED <<started, runs, aggregate, summary>>

Make(p) ==
  /\ PassAt(p, "make")
  /\ IF spaces.there
       THEN End(p, "broken") /\ UNCHANGED spaces
       ELSE /\ spaces' = [there |-> TRUE, of |-> {}]
            /\ Proceed(p, IF pass[p].resume THEN "load" ELSE "case")
  /\ UNCHANGED <<started, runs, aggregate, summary>>

(* The aggregates that can be read.                                        *)
Readable(all) == [c \in CaseIds |-> IF all[c].is = "whole" THEN all[c] ELSE None]

(* The run directories are listed and the aggregates read, in one step.    *)
(* An aggregate that can be read stands for its case, and the receipt of   *)
(* every run directory of the case is read: one that is missing ends the   *)
(* pass there, outside the try block.  Other cases are judged anew.        *)
Load(p) ==
  LET readable == \A id \in RunIds : id[2] \in Reported(aggregate) => runs[id] # "open"
  IN  /\ PassAt(p, "load")
      /\ \/ /\ readable
            /\ Set(p, [pass[p] EXCEPT !.at = "case", !.results = Readable(aggregate)])
         \/ ~readable /\ End(p, "broken")
      /\ UNCHANGED <<started, runs, aggregate, spaces, summary>>

(* The next case: nothing to do, or a workspace for each of its repeats.   *)
Case(p) ==
  /\ PassAt(p, "case")
  /\ \/ /\ pass[p].case \in Reports(p)
        /\ Advance(p, pass[p])
        /\ UNCHANGED spaces
     \/ /\ pass[p].case \notin Reports(p)
        /\ spaces.there
        /\ spaces' = [spaces EXCEPT !.of = @ \cup {p}]
        /\ Set(p, [pass[p] EXCEPT !.at = "open", !.repeat = 1, !.attempt = 1, !.counted = <<>>])
     \/ /\ pass[p].case \notin Reports(p)
        /\ ~spaces.there
        /\ Fail(p)
        /\ UNCHANGED spaces
  /\ UNCHANGED <<started, runs, aggregate, summary>>

(* executeJudgeRun freezes the descriptor and calls the carrier.           *)
Open(p) ==
  /\ PassAt(p, "open")
  /\ runs' = [runs EXCEPT ![RunId(p)] = "open"]
  /\ Proceed(p, "carrier")
  /\ UNCHANGED <<started, aggregate, spaces, summary>>

BadRetryable(p, outcome) == pass[p].attempt < MaxTries

(* Only a session without a whole turn is tried again.                     *)
Retryable(p, outcome) == outcome = "transport" /\ pass[p].attempt < MaxTries

(* The carrier answers: the receipt is written, and the repeat is counted, *)
(* tried again, or the end of its case and with it of the pass.            *)
Receive(p) ==
  /\ PassAt(p, "carrier")
  /\ p \in spaces.of
  /\ \E outcome \in Outcomes :
       /\ outcome = "transport" =>
            Cardinality({id \in RunIds : runs[id] = "transport"}) < MaxCuts
       /\ runs' = [runs EXCEPT ![RunId(p)] = outcome]
       /\ \/ /\ outcome \in Decisions
             /\ LET counted == Append(pass[p].counted, RunId(p))
                IN  IF pass[p].repeat < Repeats
                      THEN Set(p, [pass[p] EXCEPT !.at = "open", !.repeat = @ + 1,
                                                  !.attempt = 1, !.counted = counted])
                      ELSE Set(p, [pass[p] EXCEPT !.at = "merge", !.counted = counted])
          \/ /\ outcome \notin Decisions /\ Retryable(p, outcome)
             /\ Set(p, [pass[p] EXCEPT !.at = "open", !.attempt = @ + 1])
          \/ outcome \notin Decisions /\ ~Retryable(p, outcome) /\ Fail(p)
  /\ UNCHANGED <<started, aggregate, spaces, summary>>

(* It throws by itself, and whenever its workspace is gone.                *)
Throw(p) ==
  /\ PassAt(p, "carrier")
  /\ Fail(p)
  /\ UNCHANGED <<started, runs, aggregate, spaces, summary>>

(* aggregateSemanticJudgeRuns, aggregateCodeQualityJudgeRuns: the repeats  *)
(* agree, or the dimension abstains.                                       *)
Merged(counted) ==
  IF \A r \in 1..Repeats : runs[counted[r]] = runs[counted[1]]
    THEN runs[counted[1]] ELSE "unstable"

(* Whether the aggregate of a case can be written: it is frozen from the   *)
(* first one on, and no two passes write the same receipts into it.        *)
Free(c) == aggregate[c].is = "absent"

Publish(p) ==
  LET c == pass[p].case
      made == [is |-> "whole", counted |-> pass[p].counted, verdict |-> Merged(pass[p].counted)]
  IN  /\ PassAt(p, "merge")
      /\ \/ /\ Free(c)
            /\ aggregate' = [aggregate EXCEPT ![c] = made]
            /\ spaces' = [spaces EXCEPT !.of = @ \ {p}]
            /\ Advance(p, [pass[p] EXCEPT !.results[c] = made, !.counted = <<>>])
         \/ ~Free(c) /\ Fail(p) /\ UNCHANGED <<aggregate, spaces>>
      /\ UNCHANGED <<started, runs, summary>>

(* The pass ends, well or not: .workspaces goes, with the workspaces of    *)
(* any other pass, and the summary is written under a name of its own.     *)
Clean(p) ==
  /\ PassAt(p, "clean")
  /\ spaces' = NoSpaces
  /\ Proceed(p, "summary")
  /\ UNCHANGED <<started, runs, aggregate, summary>>

Summarize(p) ==
  /\ PassAt(p, "summary")
  /\ summary' = [summary EXCEPT ![p] =
       [is |-> "whole", valid |-> ~pass[p].failed /\ Reports(p) = CaseIds,
        results |-> pass[p].results]]
  /\ End(p, "done")
  /\ UNCHANGED <<started, runs, aggregate, spaces>>

(* A pass dies, between two steps or in the publication of an aggregate.   *)
DiePass(p) ==
  /\ PassRunning(p)
  /\ End(p, "dead")
  /\ \/ UNCHANGED aggregate
     \/ /\ PassAt(p, "merge") /\ Free(pass[p].case)
        /\ aggregate' = [aggregate EXCEPT ![pass[p].case] = Doubled]
  /\ UNCHANGED <<started, runs, spaces, summary>>

JudgeNext ==
  \E p \in Passes :
    \/ StartPass(p) \/ Clear(p) \/ Make(p) \/ Load(p) \/ Case(p) \/ Open(p)
    \/ Receive(p) \/ Throw(p) \/ Publish(p) \/ Clean(p) \/ Summarize(p) \/ DiePass(p)

JudgeSpec == JudgeInit /\ [][JudgeNext]_jvars

-----------------------------------------------------------------------------

PassStates ==
  [at : {"off", "clear", "make", "load", "case", "open", "carrier", "merge", "clean",
         "summary", "done", "broken", "dead"},
   resume : BOOLEAN, failed : BOOLEAN,
   case : CaseIds, repeat : 1..Repeats, attempt : 1..MaxTries,
   counted : Seq(RunIds), results : [CaseIds -> Aggregates]]

(* Every variable has its type; only a pass that is done has a summary.    *)
JudgeTypeOK ==
  /\ started \in BOOLEAN
  /\ runs \in [RunIds -> RunStates]
  /\ aggregate \in [CaseIds -> Aggregates]
  /\ spaces \in [there : BOOLEAN, of : SUBSET Passes]
  /\ ~spaces.there => spaces.of = {}
  /\ pass \in [Passes -> PassStates]
  /\ summary \in [Passes -> [is : {"absent", "whole"}, valid : BOOLEAN,
                              results : [CaseIds -> Aggregates]]]
  /\ \A p \in Passes : summary[p].is = "whole" <=> PassAt(p, "done")

(* However often a cohort was interrupted and resumed, and by passes that  *)
(* overlap: what two summaries report of a case is one aggregate, the one  *)
(* on disk.  It counts one decision per repeat, all of one pass, each the  *)
(* first that its repeat gave, so that no decided repeat was asked again   *)
(* in that pass; its verdict is the merge of what it counts.  A valid      *)
(* summary reports every case.  (The skip and the exclusive publication of *)
(* run-phase3c-judge-cohort.ts, the retry rule of executeJudgeCase.)       *)
SummariesAgree ==
  \A p \in Passes : summary[p].is = "whole" =>
    LET results == summary[p].results
    IN  /\ summary[p].valid => Reported(results) = CaseIds
        /\ \A c \in Reported(results) :
             LET counted == results[c].counted
             IN  /\ results[c] = aggregate[c]
                 /\ results[c].verdict = Merged(counted)
                 /\ \A r \in 1..Repeats :
                      /\ counted[r][1] = counted[1][1] /\ counted[r][2] = c
                      /\ counted[r][3] = r /\ runs[counted[r]] \in Decisions
                      /\ \A a \in 1..(counted[r][4] - 1) :
                           runs[<<counted[r][1], c, r, a>>] = "transport"
==============================================================================
