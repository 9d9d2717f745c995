-------------------------- MODULE Operations_proofs --------------------------
(***************************************************************************)
(* Proofs about what operators run by hand: the judge cohort, for any      *)
(* number of passes, cases, repeats and tries, the commerce delivery, for  *)
(* any package and any requirements, the installation of the profiles, for *)
(* any number of installations, and the author's pack, for any number of   *)
(* calls and revisions.                                                    *)
(*                                                                         *)
(* The judges first.  The invariant is Cohort: a pass writes only runs     *)
(* that nobody has decided, and what an aggregate counts never changes.    *)
(***************************************************************************)
EXTENDS JudgeCohort, Delivery, ProfileInstall, AuthorPack, Integers, WellFoundedInduction, FiniteSetTheorems, TLAPS

(* A run of pass p is still to come.                                       *)
Starting == {"off", "clear", "make", "load"}
Ahead(p, c, r, a) ==
  \/ pass[p].at \in Starting
  \/ pass[p].at \in {"case", "open", "carrier", "merge"} /\ c > pass[p].case
  \/ pass[p].at = "case" /\ c = pass[p].case
  \/ /\ pass[p].at \in {"open", "carrier"} /\ c = pass[p].case
     /\ \/ r > pass[p].repeat
        \/ r = pass[p].repeat /\ a >= pass[p].attempt

Untouched(p) ==
  \A c \in CaseIds, r \in 1..Repeats, a \in 1..MaxTries :
    Ahead(p, c, r, a) => runs[<<p, c, r, a>>] \notin Outcomes

(* A repeat has its decision, after tries that were cut off.               *)
Decided(p, c, r, a) ==
  /\ runs[<<p, c, r, a>>] \in Decisions
  /\ \A b \in 1..(a - 1) : runs[<<p, c, r, b>>] = "transport"

CountsRepeat(p, c, counted, r) ==
  \E a \in 1..MaxTries : counted[r] = <<p, c, r, a>> /\ Decided(p, c, r, a)

(* What a pass has counted of the case it is at.                           *)
Counting(p) ==
  /\ pass[p].at \in {"open", "carrier"} =>
       /\ Len(pass[p].counted) = pass[p].repeat - 1
       /\ \A b \in 1..(pass[p].attempt - 1) :
            runs[<<p, pass[p].case, pass[p].repeat, b>>] = "transport"
  /\ pass[p].at = "merge" => Len(pass[p].counted) = Repeats
  /\ pass[p].at \in {"open", "carrier", "merge"} =>
       \A r \in 1..Len(pass[p].counted) : CountsRepeat(p, pass[p].case, pass[p].counted, r)

(* An aggregate is over one pass, and merges what it counts.               *)
Sound(x, c) ==
  /\ x.verdict = Merged(x.counted)
  /\ \E p \in Passes : \A r \in 1..Repeats : CountsRepeat(p, c, x.counted, r)

(* What passes and summaries report is what is on disk.                    *)
OnDisk(results) == \A c \in Reported(results) : results[c] = aggregate[c]

SummaryHolds(p) ==
  summary[p].is = "whole" =>
    OnDisk(summary[p].results) /\ (summary[p].valid => Reported(summary[p].results) = CaseIds)

(* The inductive invariant.                                                *)
Cohort ==
  /\ JudgeTypeOK
  /\ \A p \in Passes : Untouched(p) /\ Counting(p) /\ OnDisk(pass[p].results)
  /\ \A p \in Passes : SummaryHolds(p)
  /\ \A c \in CaseIds : aggregate[c].is = "whole" => Sound(aggregate[c], c)

-------------------------------------------------------------------------------

(* The type invariant.  A pass that starts, and what is not there yet.     *)
LEMMA NothingTyped ==
  /\ None \in Aggregates /\ Doubled \in Aggregates
  /\ NoResults \in [CaseIds -> Aggregates]
  /\ FreshPass \in PassStates
<1>1. <<>> \in Seq(RunIds)
  OBVIOUS
<1>2. None \in Aggregates
  BY <1>1 DEF None, Aggregates
<1>3. Doubled \in Aggregates
  BY <1>1 DEF None, Doubled, Aggregates
<1>4. NoResults \in [CaseIds -> Aggregates]
  BY <1>2 DEF NoResults
<1>5. FreshPass \in PassStates
  BY <1>1, <1>4, JudgeAssumption DEF FreshPass, PassStates, CaseIds
<1> QED
  BY <1>2, <1>3, <1>4, <1>5

(* The four ways in which a step moves its pass.                           *)
LEMMA EndTyped ==
  ASSUME JudgeTypeOK, NEW p \in Passes, NEW place \in {"done", "broken", "dead"}, End(p, place)
  PROVE  /\ pass' \in [Passes -> PassStates]
         /\ pass'[p].at = place /\ pass'[p].results = NoResults
         /\ \A q \in Passes \ {p} : pass'[q] = pass[q]
<1> DEFINE new == [FreshPass EXCEPT !.at = place]
<1>1. new \in PassStates /\ new.at = place /\ new.results = NoResults
  <2>1. FreshPass \in PassStates /\ FreshPass.results = NoResults
    BY NothingTyped DEF FreshPass
  <2> QED
    BY <2>1 DEF PassStates
<1>2. pass' = [pass EXCEPT ![p] = new]
  BY DEF End, Set
<1> HIDE DEF new
<1> QED
  BY <1>1, <1>2 DEF JudgeTypeOK

LEMMA SetTyped ==
  ASSUME JudgeTypeOK, NEW p \in Passes, NEW new \in PassStates, Set(p, new)
  PROVE  /\ pass' \in [Passes -> PassStates]
         /\ pass'[p] = new /\ \A q \in Passes \ {p} : pass'[q] = pass[q]
BY DEF JudgeTypeOK, Set

(* Where a pass is after a step, by the operators that the steps use.      *)
LEMMA ProceedTyped ==
  ASSUME JudgeTypeOK, NEW p \in Passes,
         NEW place \in {"make", "load", "case", "carrier", "summary"}, Proceed(p, place)
  PROVE  /\ pass' \in [Passes -> PassStates]
         /\ pass'[p].at = place /\ pass'[p].results = pass[p].results
         /\ pass'[p].case = pass[p].case /\ pass'[p].repeat = pass[p].repeat
         /\ pass'[p].attempt = pass[p].attempt /\ pass'[p].counted = pass[p].counted
         /\ \A q \in Passes \ {p} : pass'[q] = pass[q]
<1> DEFINE new == [pass[p] EXCEPT !.at = place]
<1>1. /\ new \in PassStates /\ new.at = place /\ new.results = pass[p].results
      /\ new.case = pass[p].case /\ new.repeat = pass[p].repeat
      /\ new.attempt = pass[p].attempt /\ new.counted = pass[p].counted
  <2>1. pass[p] \in PassStates
    BY DEF JudgeTypeOK
  <2> QED
    BY <2>1 DEF PassStates
<1>2. Set(p, new)
  BY DEF Proceed
<1> HIDE DEF new
<1>3. /\ pass' \in [Passes -> PassStates] /\ pass'[p] = new
      /\ \A q \in Passes \ {p} : pass'[q] = pass[q]
  BY <1>1, <1>2, SetTyped
<1> QED
  BY <1>1, <1>3

LEMMA FailTyped ==
  ASSUME JudgeTypeOK, NEW p \in Passes, Fail(p)
  PROVE  /\ pass' \in [Passes -> PassStates]
         /\ pass'[p].at = "clean" /\ pass'[p].results = pass[p].results
         /\ \A q \in Passes \ {p} : pass'[q] = pass[q]
<1> DEFINE new == [pass[p] EXCEPT !.at = "clean", !.failed = TRUE]
<1>1. new \in PassStates /\ new.at = "clean" /\ new.results = pass[p].results
  <2>1. pass[p] \in PassStates
    BY DEF JudgeTypeOK
  <2> QED
    BY <2>1 DEF PassStates
<1>2. Set(p, new)
  BY DEF Fail
<1> HIDE DEF new
<1>3. /\ pass' \in [Passes -> PassStates] /\ pass'[p] = new
      /\ \A q \in Passes \ {p} : pass'[q] = pass[q]
  BY <1>1, <1>2, SetTyped
<1> QED
  BY <1>1, <1>3

LEMMA AdvanceTyped ==
  ASSUME JudgeTypeOK, NEW p \in Passes, NEW s \in PassStates, s.case = pass[p].case, Advance(p, s)
  PROVE  /\ pass' \in [Passes -> PassStates]
         /\ pass'[p].results = s.results
         /\ \/ pass'[p].at = "case" /\ pass'[p].case = pass[p].case + 1
            \/ pass'[p].at = "clean"
         /\ \A q \in Passes \ {p} : pass'[q] = pass[q]
<1> DEFINE on == [s EXCEPT !.at = "case", !.case = @ + 1]
           end == [s EXCEPT !.at = "clean", !.case = 1]
<1>1. CASE pass[p].case < JudgeCases
  <2>0. s.case + 1 \in CaseIds
    BY <1>1, JudgeAssumption DEF PassStates, CaseIds
  <2>1. /\ on \in PassStates /\ on.results = s.results /\ on.at = "case"
        /\ on.case = pass[p].case + 1
    BY <2>0 DEF PassStates
  <2>2. Set(p, on)
    BY <1>1 DEF Advance
  <2> HIDE DEF on
  <2>3. /\ pass' \in [Passes -> PassStates] /\ pass'[p] = on
        /\ \A q \in Passes \ {p} : pass'[q] = pass[q]
    BY <2>1, <2>2, SetTyped
  <2> QED
    BY <2>1, <2>3
<1>2. CASE ~(pass[p].case < JudgeCases)
  <2>0. 1 \in CaseIds
    BY JudgeAssumption DEF CaseIds
  <2>1. end \in PassStates /\ end.results = s.results /\ end.at = "clean"
    BY <2>0 DEF PassStates
  <2>2. Set(p, end)
    BY <1>2 DEF Advance
  <2> HIDE DEF end
  <2>3. /\ pass' \in [Passes -> PassStates] /\ pass'[p] = end
        /\ \A q \in Passes \ {p} : pass'[q] = pass[q]
    BY <2>1, <2>2, SetTyped
  <2> QED
    BY <2>1, <2>3
<1> QED
  BY <1>1, <1>2

-------------------------------------------------------------------------------

(* A run is a pass, a case, a repeat and a try.                            *)
LEMMA RunIdIs ==
  ASSUME NEW p \in Passes, NEW c \in CaseIds, NEW r \in 1..Repeats, NEW a \in 1..MaxTries
  PROVE  <<p, c, r, a>> \in RunIds
BY DEF RunIds

(* A decision that runs keep, and the aggregates over it, stay.            *)
LEMMA CountStays ==
  ASSUME NEW p \in Passes, NEW c \in CaseIds, NEW r \in 1..Repeats, NEW counted,
         \A id \in RunIds : runs[id] \in Outcomes => runs'[id] = runs[id],
         CountsRepeat(p, c, counted, r)
  PROVE  /\ CountsRepeat(p, c, counted, r)'
         /\ counted[r] \in RunIds /\ runs'[counted[r]] = runs[counted[r]]
         /\ runs[counted[r]] \in Decisions
<1>1. PICK a \in 1..MaxTries : counted[r] = <<p, c, r, a>> /\ Decided(p, c, r, a)
  BY DEF CountsRepeat
<1>2. <<p, c, r, a>> \in RunIds /\ \A b \in 1..(a - 1) : <<p, c, r, b>> \in RunIds
  BY JudgeAssumption, RunIdIs
<1>3. Decided(p, c, r, a)'
  BY <1>1, <1>2 DEF Decided, Outcomes
<1> QED
  BY <1>1, <1>2, <1>3 DEF CountsRepeat, Decided, Outcomes

LEMMA SoundStays ==
  ASSUME NEW x, NEW c \in CaseIds, Sound(x, c),
         \A id \in RunIds : runs[id] \in Outcomes => runs'[id] = runs[id]
  PROVE  Sound(x, c)'
<1>1. PICK p \in Passes : \A r \in 1..Repeats : CountsRepeat(p, c, x.counted, r)
  BY DEF Sound
<1>2. \A r \in 1..Repeats :
        CountsRepeat(p, c, x.counted, r)' /\ runs'[x.counted[r]] = runs[x.counted[r]]
  BY <1>1, CountStays
<1>3. 1 \in 1..Repeats
  BY JudgeAssumption
<1>4. Merged(x.counted)' = Merged(x.counted)
  BY <1>2, <1>3 DEF Merged
<1> QED
  BY <1>2, <1>4 DEF Sound

(* What a step of p has to show, when it is p that moves.                  *)
LEMMA StepKeeps ==
  ASSUME Cohort, NEW p \in Passes, JudgeTypeOK',
         \A q \in Passes \ {p} : pass'[q] = pass[q],
         \A id \in RunIds : runs[id] \in Outcomes => runs'[id] = runs[id],
         \A q \in Passes \ {p}, c \in CaseIds, r \in 1..Repeats, a \in 1..MaxTries :
           runs'[<<q, c, r, a>>] = runs[<<q, c, r, a>>],
         \A c \in CaseIds : aggregate[c].is = "whole" => aggregate'[c] = aggregate[c],
         \A c \in CaseIds : aggregate'[c].is = "whole" =>
           aggregate'[c] = aggregate[c] \/ Sound(aggregate[c], c)',
         Untouched(p)', Counting(p)', OnDisk(pass[p].results)',
         \A q \in Passes : summary'[q] = summary[q] \/ SummaryHolds(q)'
  PROVE  Cohort'
<1>1. ASSUME NEW results, OnDisk(results) PROVE OnDisk(results)'
  BY <1>1 DEF OnDisk, Reported
<1>2. ASSUME NEW q \in Passes \ {p}
      PROVE  Untouched(q)' /\ Counting(q)' /\ OnDisk(pass[q].results)'
  <2>1. Untouched(q) /\ Counting(q) /\ OnDisk(pass[q].results)
    BY DEF Cohort
  <2>2. Untouched(q)'
    BY <2>1 DEF Untouched, Ahead
  <2>3. OnDisk(pass[q].results)'
    BY <2>1, <1>1
  <2>4. pass[q] \in PassStates
    BY DEF Cohort, JudgeTypeOK
  <2>5. ASSUME pass[q].at \in {"open", "carrier"}, NEW b \in 1..(pass[q].attempt - 1)
        PROVE  runs'[<<q, pass[q].case, pass[q].repeat, b>>]
                 = runs[<<q, pass[q].case, pass[q].repeat, b>>]
    BY <2>4, JudgeAssumption DEF PassStates
  <2>6. pass[q].at \in {"open", "carrier", "merge"} =>
          \A r \in 1..Len(pass[q].counted) : r \in 1..Repeats
    BY <2>1, <2>4, JudgeAssumption DEF Counting, PassStates
  <2>7. pass[q].at \in {"open", "carrier", "merge"} =>
          \A r \in 1..Len(pass[q].counted) : CountsRepeat(q, pass[q].case, pass[q].counted, r)'
    <3>1. pass[q].case \in CaseIds
      BY <2>4 DEF PassStates
    <3> QED
      BY <2>1, <2>6, <3>1, CountStays DEF Counting
  <2>8. Counting(q)'
    <3>1. pass'[q] = pass[q]
      OBVIOUS
    <3>2. pass[q].at \in {"open", "carrier"} =>
            /\ Len(pass[q].counted) = pass[q].repeat - 1
            /\ \A b \in 1..(pass[q].attempt - 1) :
                 runs'[<<q, pass[q].case, pass[q].repeat, b>>] = "transport"
      BY <2>1, <2>5 DEF Counting
    <3> QED
      BY <2>1, <2>7, <3>1, <3>2 DEF Counting, CountsRepeat, Decided
  <2> QED
    BY <2>2, <2>3, <2>8
<1>3. ASSUME NEW q \in Passes PROVE SummaryHolds(q)'
  <2>1. SummaryHolds(q)
    BY DEF Cohort
  <2>2. CASE summary'[q] = summary[q]
    BY <1>1, <2>1, <2>2 DEF SummaryHolds, Reported
  <2> QED
    BY <2>2
<1>4. ASSUME NEW c \in CaseIds, aggregate'[c].is = "whole" PROVE Sound(aggregate[c], c)'
  <2>1. CASE aggregate'[c] = aggregate[c]
    <3>1. Sound(aggregate[c], c)
      BY <1>4, <2>1 DEF Cohort
    <3>2. PICK x : x = aggregate[c]
      OBVIOUS
    <3>3. Sound(x, c)'
      BY <3>1, <3>2, SoundStays
    <3>4. aggregate'[c] = x
      BY <2>1, <3>2
    <3> QED
      BY <3>3, <3>4 DEF Sound, Merged, CountsRepeat, Decided
  <2> QED
    BY <1>4, <2>1
<1> QED
  BY <1>2, <1>3, <1>4 DEF Cohort

(* A step that leaves runs and aggregates as they are and counts nothing.  *)
LEMMA QuietKeeps ==
  ASSUME Cohort, NEW p \in Passes, JudgeTypeOK', UNCHANGED <<runs, aggregate>>,
         \A q \in Passes \ {p} : pass'[q] = pass[q],
         pass'[p].at \notin {"open", "carrier", "merge"},
         \/ pass'[p].at \notin Starting \cup {"case"}
         \/ pass[p].at \in Starting
         \/ pass[p].at = "case" /\ pass'[p].at = "case" /\ pass'[p].case > pass[p].case,
         OnDisk(pass'[p].results),
         \A q \in Passes : summary'[q] = summary[q] \/ SummaryHolds(q)'
  PROVE  Cohort'
<1>1. Untouched(p)'
  <2>1. pass[p] \in PassStates /\ pass'[p] \in PassStates
    BY DEF Cohort, JudgeTypeOK
  <2>2. ASSUME NEW c \in CaseIds, NEW r \in 1..Repeats, NEW a \in 1..MaxTries, Ahead(p, c, r, a)'
        PROVE  Ahead(p, c, r, a)
    BY <2>1, <2>2 DEF Ahead, PassStates, CaseIds, Starting
  <2>3. Untouched(p)
    BY DEF Cohort
  <2> QED
    BY <2>2, <2>3 DEF Untouched
<1>2. Counting(p)'
  BY DEF Counting
<1>3. OnDisk(pass[p].results)'
  BY DEF OnDisk, Reported
<1> QED
  BY <1>1, <1>2, <1>3, StepKeeps

(* Starting, clearing, making the workspaces and loading.                  *)
LEMMA BeginKeeps ==
  ASSUME Cohort, NEW p \in Passes, StartPass(p) \/ Clear(p) \/ Make(p) \/ Load(p)
  PROVE  Cohort'
<1>0. JudgeTypeOK /\ OnDisk(pass[p].results) /\ pass[p] \in PassStates
  BY DEF Cohort, JudgeTypeOK
<1>1. OnDisk(NoResults)
  BY DEF OnDisk, Reported, NoResults, None
<1>2. CASE StartPass(p)
  <2>1. PICK resume \in BOOLEAN :
          Set(p, [pass[p] EXCEPT !.resume = resume, !.at = IF resume THEN "clear" ELSE "make"])
    BY <1>2 DEF StartPass
  <2> DEFINE new == [pass[p] EXCEPT !.resume = resume, !.at = IF resume THEN "clear" ELSE "make"]
  <2>2. new \in PassStates /\ new.at \in {"clear", "make"} /\ new.results = pass[p].results
    BY <1>0 DEF PassStates
  <2>3. Set(p, new)
    BY <2>1
  <2> HIDE DEF new
  <2>4. /\ pass' \in [Passes -> PassStates] /\ pass'[p] = new
        /\ \A q \in Passes \ {p} : pass'[q] = pass[q]
    BY <1>0, <2>2, <2>3, SetTyped
  <2>5. JudgeTypeOK'
    BY <1>0, <1>2, <2>2, <2>4 DEF JudgeTypeOK, StartPass, PassAt
  <2> QED
    BY <1>0, <1>2, <2>2, <2>4, <2>5, QuietKeeps DEF StartPass, PassAt, Starting
<1>3. CASE Clear(p)
  <2>1. Proceed(p, "make")
    BY <1>3 DEF Clear
  <2>2. /\ pass' \in [Passes -> PassStates] /\ pass'[p].at = "make"
        /\ pass'[p].results = pass[p].results
        /\ \A q \in Passes \ {p} : pass'[q] = pass[q]
    BY <1>0, <2>1, ProceedTyped
  <2>3. JudgeTypeOK'
    BY <1>0, <1>3, <2>2 DEF JudgeTypeOK, Clear, PassAt, NoSpaces
  <2> QED
    BY <1>0, <1>3, <2>2, <2>3, QuietKeeps DEF Clear, PassAt, Starting
<1>4. CASE Make(p)
  <2>1. /\ pass' \in [Passes -> PassStates]
        /\ pass'[p].at \in {"broken", "load", "case"}
        /\ pass'[p].results \in {pass[p].results, NoResults}
        /\ \A q \in Passes \ {p} : pass'[q] = pass[q]
    <3>1. CASE spaces.there
      <4>1. End(p, "broken")
        BY <1>4, <3>1 DEF Make
      <4> QED
        BY <1>0, <4>1, EndTyped
    <3>2. CASE ~spaces.there
      <4>1. PICK place \in {"load", "case"} : Proceed(p, place)
        BY <1>4, <3>2 DEF Make
      <4> QED
        BY <1>0, <4>1, ProceedTyped
    <3> QED
      BY <3>1, <3>2
  <2>2. spaces' \in [there : BOOLEAN, of : SUBSET Passes] /\ (~spaces'.there => spaces'.of = {})
    <3>1. CASE UNCHANGED spaces
      BY <1>0, <3>1 DEF JudgeTypeOK
    <3>2. CASE spaces' = [there |-> TRUE, of |-> {}]
      BY <3>2
    <3> QED
      BY <1>4, <3>1, <3>2 DEF Make
  <2>3. JudgeTypeOK'
    BY <1>0, <1>4, <2>1, <2>2 DEF JudgeTypeOK, Make, PassAt
  <2> QED
    BY <1>0, <1>1, <1>4, <2>1, <2>3, QuietKeeps DEF Make, PassAt, Starting
<1>5. CASE Load(p)
  <2>1. CASE End(p, "broken")
    <3>3. /\ pass' \in [Passes -> PassStates]
          /\ pass'[p].at = "broken" /\ pass'[p].results = NoResults
          /\ \A q \in Passes \ {p} : pass'[q] = pass[q]
      BY <1>0, <2>1, EndTyped
    <3>4. JudgeTypeOK'
      BY <1>0, <1>5, <3>3 DEF JudgeTypeOK, Load, PassAt
    <3> QED
      BY <1>1, <1>5, <3>3, <3>4, QuietKeeps DEF Load, PassAt, Starting
  <2>2. CASE Set(p, [pass[p] EXCEPT !.at = "case", !.results = Readable(aggregate)])
    <3> DEFINE new == [pass[p] EXCEPT !.at = "case", !.results = Readable(aggregate)]
    <3>1. Readable(aggregate) \in [CaseIds -> Aggregates]
      BY <1>0, NothingTyped DEF Readable, JudgeTypeOK
    <3>2. OnDisk(Readable(aggregate))
      BY DEF OnDisk, Reported, Readable, None
    <3>3. new \in PassStates /\ new.at = "case" /\ new.results = Readable(aggregate)
      BY <1>0, <3>1 DEF PassStates
    <3>4. Set(p, new)
      BY <2>2
    <3> HIDE DEF new
    <3>5. /\ pass' \in [Passes -> PassStates] /\ pass'[p] = new
          /\ \A q \in Passes \ {p} : pass'[q] = pass[q]
      BY <1>0, <3>3, <3>4, SetTyped
    <3>6. JudgeTypeOK'
      BY <1>0, <1>5, <3>3, <3>5 DEF JudgeTypeOK, Load, PassAt
    <3> QED
      BY <1>0, <1>5, <3>2, <3>3, <3>5, <3>6, QuietKeeps DEF Load, PassAt, Starting
  <2> QED
    BY <1>5, <2>1, <2>2 DEF Load
<1> QED
  BY <1>2, <1>3, <1>4, <1>5

(* A failure: the pass is over but for its summary.                        *)
LEMMA FailKeeps ==
  ASSUME Cohort, NEW p \in Passes, Fail(p), pass[p].at # "done",
         UNCHANGED <<started, runs, aggregate, spaces, summary>>
  PROVE  Cohort'
<1>0. JudgeTypeOK /\ OnDisk(pass[p].results)
  BY DEF Cohort
<1>1. /\ pass' \in [Passes -> PassStates]
      /\ pass'[p].at = "clean" /\ pass'[p].results = pass[p].results
      /\ \A q \in Passes \ {p} : pass'[q] = pass[q]
  BY <1>0, FailTyped
<1>2. JudgeTypeOK'
  BY <1>0, <1>1 DEF JudgeTypeOK, PassAt
<1> QED
  BY <1>0, <1>1, <1>2, QuietKeeps DEF Starting

LEMMA CaseKeeps == ASSUME Cohort, NEW p \in Passes, Case(p) PROVE Cohort'
<1>0. /\ JudgeTypeOK /\ OnDisk(pass[p].results) /\ pass[p] \in PassStates
      /\ pass[p].at = "case" /\ Untouched(p)
  BY DEF Cohort, JudgeTypeOK, Case, PassAt
<1>1. CASE Advance(p, pass[p]) /\ UNCHANGED spaces
  <2>1. /\ pass' \in [Passes -> PassStates]
        /\ pass'[p].results = pass[p].results
        /\ \/ pass'[p].at = "case" /\ pass'[p].case = pass[p].case + 1
           \/ pass'[p].at = "clean"
        /\ \A q \in Passes \ {p} : pass'[q] = pass[q]
    BY <1>0, <1>1, AdvanceTyped
  <2>2. JudgeTypeOK'
    BY <1>0, <1>1, <2>1 DEF JudgeTypeOK, Case, PassAt
  <2>3. pass[p].case + 1 > pass[p].case
    BY <1>0 DEF PassStates, CaseIds
  <2> QED
    BY <1>0, <2>1, <2>2, <2>3, QuietKeeps DEF Case, Starting
<1>2. CASE Fail(p) /\ UNCHANGED spaces
  BY <1>0, <1>2, FailKeeps DEF Case
<1>3. CASE /\ spaces.there
           /\ spaces' = [spaces EXCEPT !.of = @ \cup {p}]
           /\ Set(p, [pass[p] EXCEPT !.at = "open", !.repeat = 1, !.attempt = 1, !.counted = <<>>])
  <2> DEFINE new == [pass[p] EXCEPT !.at = "open", !.repeat = 1, !.attempt = 1, !.counted = <<>>]
  <2>0. 1 \in 1..Repeats /\ 1 \in 1..MaxTries /\ <<>> \in Seq(RunIds) /\ Len(<<>>) = 0
    BY JudgeAssumption
  <2>1. /\ new \in PassStates /\ new.at = "open" /\ new.case = pass[p].case
        /\ new.repeat = 1 /\ new.attempt = 1 /\ new.counted = <<>>
        /\ new.results = pass[p].results
    BY <1>0, <2>0 DEF PassStates
  <2>2. Set(p, new)
    BY <1>3
  <2> HIDE DEF new
  <2>3. /\ pass' \in [Passes -> PassStates] /\ pass'[p] = new
        /\ \A q \in Passes \ {p} : pass'[q] = pass[q]
    BY <1>0, <2>1, <2>2, SetTyped
  <2>4. spaces' \in [there : BOOLEAN, of : SUBSET Passes] /\ spaces'.there
    BY <1>0, <1>3 DEF JudgeTypeOK
  <2>5. JudgeTypeOK'
    BY <1>0, <2>1, <2>3, <2>4 DEF JudgeTypeOK, Case, PassAt
  <2>6. Untouched(p)'
    <3>1. ASSUME NEW c \in CaseIds, NEW r \in 1..Repeats, NEW a \in 1..MaxTries,
                 Ahead(p, c, r, a)'
          PROVE  Ahead(p, c, r, a)
      BY <1>0, <2>1, <2>3, <3>1 DEF Ahead, Starting
    <3> QED
      BY <1>0, <3>1 DEF Untouched, Case
  <2>7. Counting(p)'
    BY <2>0, <2>1, <2>3 DEF Counting
  <2>8. OnDisk(pass[p].results)'
    BY <1>0, <2>1, <2>3 DEF OnDisk, Reported, Case
  <2> QED
    BY <2>3, <2>5, <2>6, <2>7, <2>8, StepKeeps DEF Case
<1> QED
  BY <1>1, <1>2, <1>3 DEF Case

(* The session of a try begins, in a run that has no outcome.              *)
LEMMA OpenKeeps == ASSUME Cohort, NEW p \in Passes, Open(p) PROVE Cohort'
<1>0. /\ JudgeTypeOK /\ OnDisk(pass[p].results) /\ pass[p] \in PassStates
      /\ pass[p].at = "open" /\ Untouched(p) /\ Counting(p)
  BY DEF Cohort, JudgeTypeOK, Open, PassAt
<1>1. /\ pass' \in [Passes -> PassStates] /\ pass'[p].at = "carrier"
      /\ pass'[p].results = pass[p].results
      /\ pass'[p].case = pass[p].case /\ pass'[p].repeat = pass[p].repeat
      /\ pass'[p].attempt = pass[p].attempt /\ pass'[p].counted = pass[p].counted
      /\ \A q \in Passes \ {p} : pass'[q] = pass[q]
  BY <1>0, ProceedTyped DEF Open
<1>2. RunId(p) \in RunIds /\ runs[RunId(p)] \notin Outcomes
  <2>1. Ahead(p, pass[p].case, pass[p].repeat, pass[p].attempt)
    BY <1>0 DEF Ahead, PassStates
  <2>2. pass[p].case \in CaseIds /\ pass[p].repeat \in 1..Repeats /\ pass[p].attempt \in 1..MaxTries
    BY <1>0 DEF PassStates
  <2> QED
    BY <1>0, <2>1, <2>2, RunIdIs DEF Untouched, RunId
<1>3. \A id \in RunIds : runs'[id] = IF id = RunId(p) THEN "open" ELSE runs[id]
  BY <1>0 DEF Open, JudgeTypeOK
<1>4. \A id \in RunIds : runs[id] \in Outcomes => runs'[id] = runs[id]
  BY <1>2, <1>3
<1>5. \A q \in Passes \ {p}, c \in CaseIds, r \in 1..Repeats, a \in 1..MaxTries :
        runs'[<<q, c, r, a>>] = runs[<<q, c, r, a>>]
  BY <1>3, RunIdIs DEF RunId
<1>6. JudgeTypeOK'
  <2>1. runs' \in [RunIds -> RunStates]
    BY <1>0 DEF Open, JudgeTypeOK, RunStates
  <2> QED
    BY <1>0, <1>1, <2>1 DEF JudgeTypeOK, Open, PassAt
<1>7. "open" \notin Outcomes
  BY JudgeAssumption DEF Outcomes
<1>8. Untouched(p)'
  <2> SUFFICES ASSUME NEW c \in CaseIds, NEW r \in 1..Repeats, NEW a \in 1..MaxTries,
                      Ahead(p, c, r, a)'
               PROVE  runs'[<<p, c, r, a>>] \notin Outcomes
    BY DEF Untouched
  <2>1. Ahead(p, c, r, a)
    BY <1>0, <1>1 DEF Ahead, Starting
  <2>2. runs[<<p, c, r, a>>] \notin Outcomes
    BY <1>0, <2>1 DEF Untouched
  <2> QED
    BY <1>3, <1>7, <2>2, RunIdIs
<1>9. Counting(p)'
  <2>1. /\ pass[p].case \in CaseIds /\ pass[p].repeat \in 1..Repeats
        /\ pass[p].attempt \in 1..MaxTries /\ Len(pass[p].counted) = pass[p].repeat - 1
    BY <1>0 DEF PassStates, Counting
  <2>2. \A r \in 1..Len(pass[p].counted) : r \in 1..Repeats
    BY <2>1, JudgeAssumption
  <2>3. \A r \in 1..Len(pass[p].counted) :
          CountsRepeat(p, pass[p].case, pass[p].counted, r)'
    <3>1. \A r \in 1..Len(pass[p].counted) : CountsRepeat(p, pass[p].case, pass[p].counted, r)
      BY <1>0 DEF Counting
    <3> TAKE r \in 1..Len(pass[p].counted)
    <3>2. CountsRepeat(p, pass[p].case, pass[p].counted, r) /\ r \in 1..Repeats
      BY <2>2, <3>1
    <3> QED
      BY <1>1, <1>4, <2>1, <3>2, CountStays
  <2>4. ASSUME NEW b \in 1..(pass[p].attempt - 1)
        PROVE  runs'[<<p, pass[p].case, pass[p].repeat, b>>] = "transport"
    <3>1. <<p, pass[p].case, pass[p].repeat, b>> \in RunIds
      BY SMTT(30), <2>1, JudgeAssumption, RunIdIs
    <3>2. runs[<<p, pass[p].case, pass[p].repeat, b>>] = "transport"
      BY <1>0 DEF Counting
    <3> QED
      BY <1>4, <3>1, <3>2 DEF Outcomes
  <2> QED
    BY <1>1, <2>1, <2>3, <2>4 DEF Counting, CountsRepeat, Decided
<1>10. OnDisk(pass[p].results)'
  BY <1>0, <1>1 DEF OnDisk, Reported, Open
<1> QED
  BY <1>1, <1>4, <1>5, <1>6, <1>8, <1>9, <1>10, StepKeeps DEF Open

(* The session of a try has ended: its repeat is decided, tried again, or  *)
(* the end of the pass.                                                    *)
LEMMA ReceiveKeeps == ASSUME Cohort, NEW p \in Passes, Receive(p) PROVE Cohort'
<1>0. /\ JudgeTypeOK /\ OnDisk(pass[p].results) /\ pass[p] \in PassStates
      /\ pass[p].at = "carrier" /\ Untouched(p) /\ Counting(p)
  BY DEF Cohort, JudgeTypeOK, Receive, PassAt
<1>1. PICK c \in CaseIds, r \in 1..Repeats, a \in 1..MaxTries, old \in Seq(RunIds) :
        /\ c = pass[p].case /\ r = pass[p].repeat /\ a = pass[p].attempt
        /\ old = pass[p].counted
  BY <1>0 DEF PassStates
<1>2. /\ RunId(p) = <<p, c, r, a>> /\ RunId(p) \in RunIds /\ Len(old) = r - 1
      /\ \A b \in 1..(a - 1) : runs[<<p, c, r, b>>] = "transport"
      /\ \A s \in 1..(r - 1) : CountsRepeat(p, c, old, s)
  BY <1>0, <1>1, RunIdIs DEF RunId, Counting
<1> DEFINE decided == Append(old, <<p, c, r, a>>)
           next == [pass[p] EXCEPT !.at = "open", !.repeat = @ + 1, !.attempt = 1,
                                   !.counted = decided]
           last == [pass[p] EXCEPT !.at = "merge", !.counted = decided]
           again == [pass[p] EXCEPT !.at = "open", !.attempt = @ + 1]
<1>3. PICK outcome \in Outcomes :
        /\ runs' = [runs EXCEPT ![RunId(p)] = outcome]
        /\ \/ outcome \in Decisions /\ r < Repeats /\ Set(p, next)
           \/ outcome \in Decisions /\ ~(r < Repeats) /\ Set(p, last)
           \/ outcome \notin Decisions /\ Retryable(p, outcome) /\ Set(p, again)
           \/ outcome \notin Decisions /\ ~Retryable(p, outcome) /\ Fail(p)
  BY <1>1, <1>2 DEF Receive
<1>4. runs[RunId(p)] \notin Outcomes
  <2>1. Ahead(p, c, r, a)
    BY <1>0, <1>1 DEF Ahead
  <2> QED
    BY <1>0, <1>2, <2>1 DEF Untouched
<1>5. \A id \in RunIds : runs'[id] = IF id = RunId(p) THEN outcome ELSE runs[id]
  BY <1>0, <1>3 DEF JudgeTypeOK
<1>6. \A id \in RunIds : runs[id] \in Outcomes => runs'[id] = runs[id]
  BY <1>4, <1>5
<1>7. \A q \in Passes, d \in CaseIds, s \in 1..Repeats, b \in 1..MaxTries :
        q # p \/ d # c \/ s # r \/ b # a => runs'[<<q, d, s, b>>] = runs[<<q, d, s, b>>]
  BY <1>2, <1>5, RunIdIs
<1>8. runs' \in [RunIds -> RunStates]
  BY <1>0, <1>3 DEF JudgeTypeOK, RunStates
<1>9. \A b \in 1..(a - 1) : runs'[<<p, c, r, b>>] = "transport"
  <2> TAKE b \in 1..(a - 1)
  <2>1. <<p, c, r, b>> \in RunIds
    BY JudgeAssumption, RunIdIs
  <2> QED
    BY <1>2, <1>6, <2>1 DEF Outcomes
<1>10. /\ decided \in Seq(RunIds) /\ Len(decided) = r /\ decided[r] = <<p, c, r, a>>
       /\ \A s \in 1..(r - 1) : decided[s] = old[s]
  BY <1>2
<1> HIDE DEF decided
<1>11. ASSUME outcome \in Decisions, NEW s \in 1..r PROVE CountsRepeat(p, c, decided, s)'
  <2>1. CASE s = r
    BY <1>2, <1>5, <1>9, <1>10, <1>11, <2>1 DEF CountsRepeat, Decided
  <2>2. CASE s # r
    <3>1. s \in 1..(r - 1) /\ s \in 1..Repeats
      BY <2>2, JudgeAssumption
    <3>2. CountsRepeat(p, c, old, s)
      BY <1>2, <3>1
    <3>3. CountsRepeat(p, c, old, s)'
      BY <1>6, <3>1, <3>2, CountStays
    <3> QED
      BY <1>10, <3>1, <3>3 DEF CountsRepeat
  <2> QED
    BY <2>1, <2>2
<1>12. CASE Fail(p)
  <2>1. /\ pass' \in [Passes -> PassStates]
        /\ pass'[p].at = "clean" /\ pass'[p].results = pass[p].results
        /\ \A q \in Passes \ {p} : pass'[q] = pass[q]
    BY <1>0, <1>12, FailTyped
  <2>2. JudgeTypeOK'
    BY ZenonT(40), <1>0, <1>8, <2>1 DEF JudgeTypeOK, Receive, PassAt
  <2>3. Untouched(p)' /\ Counting(p)'
    BY <2>1 DEF Untouched, Ahead, Counting, Starting
  <2>4. OnDisk(pass[p].results)'
    BY <1>0, <2>1 DEF OnDisk, Reported, Receive
  <2> QED
    BY <1>6, <1>7, <2>1, <2>2, <2>3, <2>4, StepKeeps DEF Receive
<1>13. ASSUME NEW new \in PassStates, Set(p, new), new.results = pass[p].results,
              new.case = c, new.at \in {"open", "merge"},
              new.at = "open" =>
                \/ new.repeat = r + 1
                \/ new.repeat = r /\ new.attempt = a + 1,
              new.at = "open" =>
                /\ Len(new.counted) = new.repeat - 1
                /\ \A b \in 1..(new.attempt - 1) :
                     runs'[<<p, c, new.repeat, b>>] = "transport",
              new.at = "merge" => Len(new.counted) = Repeats,
              \A s \in 1..Len(new.counted) : CountsRepeat(p, c, new.counted, s)'
       PROVE  Cohort'
  <2>1. /\ pass' \in [Passes -> PassStates] /\ pass'[p] = new
        /\ \A q \in Passes \ {p} : pass'[q] = pass[q]
    BY <1>0, <1>13, SetTyped
  <2>2. JudgeTypeOK'
    BY SMTT(30), <1>0, <1>8, <1>13, <2>1 DEF JudgeTypeOK, Receive, PassAt
  <2>3. Untouched(p)'
    <3> SUFFICES ASSUME NEW d \in CaseIds, NEW s \in 1..Repeats, NEW b \in 1..MaxTries,
                        Ahead(p, d, s, b)'
                 PROVE  runs'[<<p, d, s, b>>] \notin Outcomes
      BY DEF Untouched
    <3>1. Ahead(p, d, s, b) /\ (d # c \/ s # r \/ b # a)
      BY SMTT(30), <1>0, <1>1, <1>13, <2>1 DEF Ahead, Starting, CaseIds
    <3>2. runs'[<<p, d, s, b>>] = runs[<<p, d, s, b>>]
      BY <1>7, <3>1
    <3> QED
      BY <1>0, <3>1, <3>2 DEF Untouched
  <2>4. Counting(p)'
    BY <1>13, <2>1 DEF Counting
  <2>5. OnDisk(pass[p].results)'
    BY <1>0, <1>13, <2>1 DEF OnDisk, Reported, Receive
  <2> QED
    BY <1>6, <1>7, <2>1, <2>2, <2>3, <2>4, <2>5, StepKeeps DEF Receive
<1>14. CASE outcome \in Decisions /\ r < Repeats /\ Set(p, next)
  <2>1. r + 1 \in 1..Repeats /\ 1 \in 1..MaxTries
    BY <1>14, JudgeAssumption
  <2>2. /\ next \in PassStates /\ next.at = "open" /\ next.case = c /\ next.repeat = r + 1
        /\ next.attempt = 1 /\ next.counted = decided /\ next.results = pass[p].results
    BY <1>0, <1>1, <1>10, <2>1 DEF PassStates
  <2> HIDE DEF next
  <2>3. Len(next.counted) = next.repeat - 1 /\ 1..(next.attempt - 1) = {}
    BY <1>10, <2>2
  <2>4. \A s \in 1..Len(next.counted) : CountsRepeat(p, c, decided, s)'
    BY <1>10, <1>11, <1>14, <2>2
  <2>5. PICK new : new = next
    OBVIOUS
  <2> QED
    BY <1>13, <1>14, <2>2, <2>3, <2>4, <2>5
<1>15. CASE outcome \in Decisions /\ ~(r < Repeats) /\ Set(p, last)
  <2>1. r = Repeats
    BY <1>15, JudgeAssumption
  <2>2. /\ last \in PassStates /\ last.at = "merge" /\ last.case = c
        /\ last.counted = decided /\ last.results = pass[p].results
    BY <1>0, <1>1, <1>10 DEF PassStates
  <2> HIDE DEF last
  <2> QED
    BY <1>10, <1>11, <1>13, <1>15, <2>1, <2>2
<1>16. CASE outcome \notin Decisions /\ Retryable(p, outcome) /\ Set(p, again)
  <2>1. outcome = "transport" /\ a + 1 \in 1..MaxTries
    BY <1>1, <1>16, JudgeAssumption DEF Retryable
  <2>2. /\ again \in PassStates /\ again.at = "open" /\ again.case = c /\ again.repeat = r
        /\ again.attempt = a + 1 /\ again.counted = old /\ again.results = pass[p].results
    BY <1>0, <1>1, <2>1 DEF PassStates
  <2> HIDE DEF again
  <2>3. \A b \in 1..((a + 1) - 1) : runs'[<<p, c, r, b>>] = "transport"
    <3>1. \A b \in 1..((a + 1) - 1) : b = a \/ b \in 1..(a - 1)
      OBVIOUS
    <3> QED
      BY <1>2, <1>5, <1>9, <2>1, <3>1
  <2>4. ASSUME NEW s \in 1..Len(old) PROVE CountsRepeat(p, c, old, s)'
    <3>1. s \in 1..Repeats /\ CountsRepeat(p, c, old, s)
      BY <1>2, JudgeAssumption
    <3> QED
      BY <1>6, <3>1, CountStays
  <2> QED
    BY <1>2, <1>13, <1>16, <2>2, <2>3, <2>4
<1> QED
  BY <1>3, <1>12, <1>14, <1>15, <1>16

(* The aggregate of a case is published, if its name is free.              *)
LEMMA PublishKeeps == ASSUME Cohort, NEW p \in Passes, Publish(p) PROVE Cohort'
<1>0. /\ JudgeTypeOK /\ OnDisk(pass[p].results) /\ pass[p] \in PassStates
      /\ pass[p].at = "merge" /\ Untouched(p) /\ Counting(p)
  BY DEF Cohort, JudgeTypeOK, Publish, PassAt
<1>1. PICK c \in CaseIds, old \in Seq(RunIds) : c = pass[p].case /\ old = pass[p].counted
  BY <1>0 DEF PassStates
<1>2. CASE ~Free(c) /\ Fail(p) /\ UNCHANGED <<aggregate, spaces>>
  BY <1>0, <1>2, FailKeeps DEF Publish
<1> DEFINE merge == [is |-> "whole", counted |-> old, verdict |-> Merged(old)]
           new == [pass[p] EXCEPT !.results[c] = merge, !.counted = <<>>]
<1>3. CASE /\ Free(c)
           /\ aggregate' = [aggregate EXCEPT ![c] = merge]
           /\ spaces' = [spaces EXCEPT !.of = @ \ {p}]
           /\ Advance(p, new)
  <2>1. \A r \in 1..Repeats : CountsRepeat(p, c, old, r)
    BY <1>0, <1>1 DEF Counting
  <2>2. Merged(old) \in Decisions \cup {"unstable"}
    <3>1. 1 \in 1..Repeats
      BY JudgeAssumption
    <3>2. runs[old[1]] \in Decisions
      BY <2>1, <3>1 DEF CountsRepeat, Decided
    <3> QED
      BY <3>2 DEF Merged
  <2>3. /\ merge \in Aggregates /\ merge.is = "whole" /\ merge.counted = old
        /\ merge.verdict = Merged(old)
    BY <2>2 DEF Aggregates
  <2>4. PICK x \in Aggregates : x = merge
    BY <2>3
  <2>5. x.is = "whole" /\ Sound(x, c)
    BY <2>1, <2>3, <2>4 DEF Sound
  <2>6. \A id \in RunIds : runs[id] \in Outcomes => runs'[id] = runs[id]
    BY DEF Publish
  <2>7. Sound(x, c)'
    BY <2>5, <2>6, SoundStays
  <2>8. /\ aggregate' \in [CaseIds -> Aggregates] /\ aggregate'[c] = x
        /\ \A d \in CaseIds \ {c} : aggregate'[d] = aggregate[d]
    BY <1>0, <1>3, <2>4 DEF JudgeTypeOK
  <2>9. aggregate[c].is # "whole"
    BY <1>3 DEF Free
  <2>10. /\ new \in PassStates /\ new.case = pass[p].case
         /\ new.results = [pass[p].results EXCEPT ![c] = x]
    <3>1. pass[p].results \in [CaseIds -> Aggregates] /\ <<>> \in Seq(RunIds)
      BY <1>0 DEF PassStates
    <3>2. [pass[p].results EXCEPT ![c] = x] \in [CaseIds -> Aggregates]
      BY <3>1
    <3> HIDE DEF merge
    <3>3. /\ [pass[p] EXCEPT !.results[c] = x, !.counted = <<>>] \in PassStates
          /\ [pass[p] EXCEPT !.results[c] = x, !.counted = <<>>].case = pass[p].case
          /\ [pass[p] EXCEPT !.results[c] = x, !.counted = <<>>].results
               = [pass[p].results EXCEPT ![c] = x]
      BY <1>0, <3>1, <3>2 DEF PassStates
    <3> QED
      BY <2>4, <3>3
  <2> HIDE DEF new, merge
  <2>11. /\ pass' \in [Passes -> PassStates] /\ pass'[p].results = new.results
         /\ \/ pass'[p].at = "case" /\ pass'[p].case = pass[p].case + 1
            \/ pass'[p].at = "clean"
         /\ \A q \in Passes \ {p} : pass'[q] = pass[q]
    BY <1>0, <1>3, <2>10, AdvanceTyped
  <2>12. spaces' \in [there : BOOLEAN, of : SUBSET Passes] /\ (~spaces'.there => spaces'.of = {})
    BY <1>0, <1>3 DEF JudgeTypeOK
  <2>13. JudgeTypeOK'
    BY <1>0, <2>8, <2>11, <2>12 DEF JudgeTypeOK, Publish, PassAt
  <2>14. Untouched(p)'
    <3>1. ASSUME NEW d \in CaseIds, NEW r \in 1..Repeats, NEW a \in 1..MaxTries,
                 Ahead(p, d, r, a)'
          PROVE  Ahead(p, d, r, a)
      <4>1. pass[p].case \in Nat /\ d \in Nat
        BY <1>1 DEF CaseIds
      <4>2. pass'[p].at = "case" /\ pass'[p].case = pass[p].case + 1
        BY <2>11, <3>1 DEF Ahead, Starting
      <4>3. d > pass[p].case
        BY <3>1, <4>1, <4>2 DEF Ahead, Starting
      <4> QED
        BY <1>0, <4>3 DEF Ahead
    <3> QED
      BY <1>0, <3>1 DEF Untouched, Publish
  <2>15. Counting(p)'
    BY <2>11 DEF Counting
  <2>16. OnDisk(pass[p].results)'
    BY SMTT(30), <1>0, <2>8, <2>9, <2>10, <2>11 DEF OnDisk, Reported, PassStates
  <2>17. \A d \in CaseIds : aggregate[d].is = "whole" => aggregate'[d] = aggregate[d]
    BY <2>8, <2>9
  <2>18. \A d \in CaseIds : aggregate'[d].is = "whole" =>
           aggregate'[d] = aggregate[d] \/ Sound(aggregate[d], d)'
    <3>1. Sound(aggregate[c], c)'
      BY <2>7, <2>8 DEF Sound, Merged, CountsRepeat, Decided
    <3> QED
      BY <2>8, <3>1
  <2> QED
    BY <2>6, <2>11, <2>13, <2>14, <2>15, <2>16, <2>17, <2>18, StepKeeps DEF Publish
<1> QED
  BY <1>1, <1>2, <1>3 DEF Publish

(* The end of a pass: the workspaces go, the summary says what it had.     *)
LEMMA EndKeeps ==
  ASSUME Cohort, NEW p \in Passes, Clean(p) \/ Summarize(p) PROVE Cohort'
<1>0. JudgeTypeOK /\ OnDisk(pass[p].results) /\ pass[p] \in PassStates
  BY DEF Cohort, JudgeTypeOK
<1>1. CASE Clean(p)
  <2>1. /\ pass' \in [Passes -> PassStates] /\ pass'[p].at = "summary"
        /\ pass'[p].results = pass[p].results
        /\ \A q \in Passes \ {p} : pass'[q] = pass[q]
    BY <1>0, <1>1, ProceedTyped DEF Clean
  <2>2. JudgeTypeOK'
    BY <1>0, <1>1, <2>1 DEF JudgeTypeOK, Clean, PassAt, NoSpaces
  <2> QED
    BY <1>0, <1>1, <2>1, <2>2, QuietKeeps DEF Clean, Starting
<1>2. CASE Summarize(p)
  <2>1. /\ pass' \in [Passes -> PassStates] /\ pass'[p].at = "done"
        /\ pass'[p].results = NoResults
        /\ \A q \in Passes \ {p} : pass'[q] = pass[q]
    BY <1>0, <1>2, EndTyped DEF Summarize
  <2> DEFINE valid == ~pass[p].failed /\ Reports(p) = CaseIds
             said == [is |-> "whole", valid |-> valid, results |-> pass[p].results]
             kinds == [is : {"absent", "whole"}, valid : BOOLEAN, results : [CaseIds -> Aggregates]]
  <2>2. valid \in BOOLEAN /\ (valid => Reports(p) = CaseIds)
    OBVIOUS
  <2> HIDE DEF valid
  <2>3. /\ said \in kinds /\ said.is = "whole" /\ said.results = pass[p].results
        /\ said.valid = valid
    BY <1>0, <2>2 DEF PassStates
  <2>4. summary' = [summary EXCEPT ![p] = said]
    BY <1>2 DEF Summarize, valid
  <2> HIDE DEF said
  <2>5. /\ summary' \in [Passes -> kinds] /\ summary'[p] = said
        /\ \A q \in Passes \ {p} : summary'[q] = summary[q]
    BY <1>0, <2>3, <2>4 DEF JudgeTypeOK
  <2>6. JudgeTypeOK'
    BY <1>0, <1>2, <2>1, <2>3, <2>5 DEF JudgeTypeOK, Summarize, PassAt
  <2>7. SummaryHolds(p)'
    BY <1>0, <1>2, <2>2, <2>3, <2>5 DEF SummaryHolds, OnDisk, Reported, Reports, Summarize
  <2>8. OnDisk(pass'[p].results)
    BY <2>1 DEF OnDisk, Reported, NoResults, None
  <2> QED
    BY <1>2, <2>1, <2>5, <2>6, <2>7, <2>8, QuietKeeps DEF Summarize, Starting
<1> QED
  BY <1>1, <1>2

(* Death leaves at most a name with two links.                             *)
LEMMA DieKeeps == ASSUME Cohort, NEW p \in Passes, DiePass(p) PROVE Cohort'
<1>0. JudgeTypeOK /\ pass[p] \in PassStates /\ pass[p].at # "done"
  BY DEF Cohort, JudgeTypeOK, DiePass, PassRunning
<1>1. /\ pass' \in [Passes -> PassStates] /\ pass'[p].at = "dead"
      /\ pass'[p].results = NoResults
      /\ \A q \in Passes \ {p} : pass'[q] = pass[q]
  BY <1>0, EndTyped DEF DiePass
<1>2. /\ aggregate' \in [CaseIds -> Aggregates]
      /\ \A c \in CaseIds : \/ aggregate'[c] = aggregate[c]
                            \/ aggregate[c].is = "absent" /\ aggregate'[c].is = "doubled"
  <2>1. CASE UNCHANGED aggregate
    BY <1>0, <2>1 DEF JudgeTypeOK
  <2>2. CASE /\ Free(pass[p].case)
             /\ aggregate' = [aggregate EXCEPT ![pass[p].case] = Doubled]
    <3>1. Doubled.is = "doubled"
      BY DEF Doubled, None
    <3> QED
      BY <1>0, <2>2, <3>1, NothingTyped DEF JudgeTypeOK, Free, PassStates
  <2> QED
    BY <2>1, <2>2 DEF DiePass
<1>3. JudgeTypeOK'
  BY <1>0, <1>1, <1>2 DEF JudgeTypeOK, DiePass, PassAt
<1>4. Untouched(p)' /\ Counting(p)'
  BY <1>1 DEF Untouched, Ahead, Counting, Starting
<1>5. OnDisk(pass[p].results)'
  BY <1>1 DEF OnDisk, Reported, NoResults, None
<1>6. /\ \A c \in CaseIds : aggregate[c].is = "whole" => aggregate'[c] = aggregate[c]
      /\ \A c \in CaseIds : aggregate'[c].is = "whole" => aggregate'[c] = aggregate[c]
  BY <1>2
<1> QED
  BY <1>1, <1>3, <1>4, <1>5, <1>6, StepKeeps DEF DiePass

-------------------------------------------------------------------------------

(* Nothing is there, or a run of a pass that died.                         *)
LEMMA InitCohort == ASSUME JudgeInit PROVE Cohort
<1>1. pass \in [Passes -> PassStates] /\ \A p \in Passes :
        pass[p].at \in {"off", "dead"} /\ pass[p].results = NoResults
  <2>1. /\ FreshPass \in PassStates /\ FreshPass.at = "off" /\ FreshPass.results = NoResults
        /\ [FreshPass EXCEPT !.at = "dead"] \in PassStates
        /\ [FreshPass EXCEPT !.at = "dead"].at = "dead"
        /\ [FreshPass EXCEPT !.at = "dead"].results = NoResults
    <3>1. FreshPass \in PassStates /\ FreshPass.at = "off" /\ FreshPass.results = NoResults
      BY NothingTyped DEF FreshPass
    <3> QED
      BY <3>1 DEF PassStates
  <2> QED
    BY <2>1 DEF JudgeInit
<1>2. /\ \A id \in RunIds : runs[id] \in {"open", "none"}
      /\ runs \in [RunIds -> RunStates] /\ started \in BOOLEAN
  BY DEF JudgeInit, RunStates
<1>3. "open" \notin Outcomes /\ "none" \notin Outcomes
  BY JudgeAssumption DEF Outcomes
<1>4. /\ aggregate = NoResults /\ aggregate \in [CaseIds -> Aggregates]
      /\ \A c \in CaseIds : NoResults[c].is = "absent"
  BY NothingTyped DEF JudgeInit, NoResults, None
<1>5. /\ summary \in [Passes -> [is : {"absent", "whole"}, valid : BOOLEAN,
                                 results : [CaseIds -> Aggregates]]]
      /\ \A p \in Passes : summary[p].is = "absent"
  BY NothingTyped DEF JudgeInit, NoSummary
<1>6. JudgeTypeOK
  BY <1>1, <1>2, <1>4, <1>5 DEF JudgeInit, JudgeTypeOK, NoSpaces, PassAt
<1>7. ASSUME NEW p \in Passes
      PROVE  Untouched(p) /\ Counting(p) /\ OnDisk(pass[p].results) /\ SummaryHolds(p)
  <2>1. Untouched(p)
    BY <1>2, <1>3, RunIdIs DEF Untouched
  <2> QED
    BY <1>1, <1>4, <1>5, <2>1 DEF Counting, OnDisk, Reported, SummaryHolds
<1> QED
  BY <1>4, <1>6, <1>7 DEF Cohort

(* Every step keeps the invariant.                                         *)
LEMMA NextCohort == ASSUME Cohort, [JudgeNext]_jvars PROVE Cohort'
<1>1. CASE UNCHANGED jvars
  <2>1. JudgeTypeOK'
    BY <1>1 DEF jvars, Cohort, JudgeTypeOK, PassAt
  <2>2. ASSUME NEW p \in Passes
        PROVE  Untouched(p)' /\ Counting(p)' /\ OnDisk(pass[p].results)' /\ SummaryHolds(p)'
    BY <1>1 DEF jvars, Cohort, Untouched, Ahead, Counting, CountsRepeat, Decided, OnDisk, Reported,
                SummaryHolds
  <2>3. ASSUME NEW c \in CaseIds, aggregate'[c].is = "whole" PROVE Sound(aggregate[c], c)'
    BY <1>1, <2>3 DEF jvars, Cohort, Sound, Merged, CountsRepeat, Decided
  <2> QED
    BY <2>1, <2>2, <2>3 DEF Cohort
<1> SUFFICES ASSUME NEW p \in Passes,
                    \/ StartPass(p) \/ Clear(p) \/ Make(p) \/ Load(p) \/ Case(p) \/ Open(p)
                    \/ Receive(p) \/ Throw(p) \/ Publish(p) \/ Clean(p) \/ Summarize(p)
                    \/ DiePass(p)
             PROVE  Cohort'
  BY <1>1 DEF JudgeNext
<1>2. CASE Throw(p)
  BY <1>2, FailKeeps DEF Throw, PassAt
<1> QED
  BY <1>2, BeginKeeps, CaseKeeps, OpenKeeps, ReceiveKeeps, PublishKeeps, EndKeeps, DieKeeps

(* The invariant gives the property: an aggregate counts runs that are     *)
(* named by one pass, its case and their repeat.                           *)
LEMMA CohortAgrees == ASSUME Cohort PROVE SummariesAgree
<1> SUFFICES ASSUME NEW p \in Passes, summary[p].is = "whole",
                    NEW c \in Reported(summary[p].results),
                    NEW x, x = summary[p].results[c]
             PROVE  /\ x = aggregate[c]
                    /\ x.verdict = Merged(x.counted)
                    /\ \A r \in 1..Repeats :
                         /\ x.counted[r][1] = x.counted[1][1] /\ x.counted[r][2] = c
                         /\ x.counted[r][3] = r /\ runs[x.counted[r]] \in Decisions
                         /\ \A a \in 1..(x.counted[r][4] - 1) :
                              runs[<<x.counted[r][1], c, r, a>>] = "transport"
  BY DEF Cohort, SummaryHolds, SummariesAgree
<1>1. x = aggregate[c]
  BY DEF Cohort, SummaryHolds, OnDisk
<1>2. Sound(x, c)
  BY <1>1 DEF Cohort, Reported
<1>3. PICK q \in Passes : \A r \in 1..Repeats : CountsRepeat(q, c, x.counted, r)
  BY <1>2 DEF Sound
<1>4. ASSUME NEW r \in 1..Repeats
      PROVE  /\ x.counted[r][1] = q /\ x.counted[r][2] = c
             /\ x.counted[r][3] = r /\ runs[x.counted[r]] \in Decisions
             /\ \A a \in 1..(x.counted[r][4] - 1) : runs[<<q, c, r, a>>] = "transport"
  <2>1. PICK a \in 1..MaxTries : x.counted[r] = <<q, c, r, a>> /\ Decided(q, c, r, a)
    BY <1>3 DEF CountsRepeat
  <2>2. /\ x.counted[r][1] = q /\ x.counted[r][2] = c
        /\ x.counted[r][3] = r /\ x.counted[r][4] = a
    BY <2>1
  <2> QED
    BY <2>1, <2>2 DEF Decided
<1>5. 1 \in 1..Repeats
  BY JudgeAssumption
<1>6. x.verdict = Merged(x.counted) /\ x.counted[1][1] = q
  BY <1>2, <1>4, <1>5 DEF Sound
<1>7. ASSUME NEW r \in 1..Repeats
      PROVE  /\ x.counted[r][1] = x.counted[1][1] /\ x.counted[r][2] = c
             /\ x.counted[r][3] = r /\ runs[x.counted[r]] \in Decisions
             /\ \A a \in 1..(x.counted[r][4] - 1) :
                  runs[<<x.counted[r][1], c, r, a>>] = "transport"
  BY <1>4, <1>6
<1> QED
  BY <1>1, <1>6, <1>7

(* Every variable has its type; only a pass that is done has a summary.    *)
THEOREM JudgesTyped == JudgeSpec => []JudgeTypeOK
<1>1. Cohort => JudgeTypeOK
  BY DEF Cohort
<1> QED
  BY InitCohort, NextCohort, <1>1, PTL DEF JudgeSpec

(* However many passes judge however many cases, resume each other, die    *)
(* and overlap: two summaries that report a case report the aggregate on   *)
(* disk, which merges one decision of each repeat, the first it gave, all  *)
(* of one pass (run-phase3c-judge-cohort.ts, executeJudgeCase).            *)
THEOREM JudgesAgree == JudgeSpec => []SummariesAgree
<1> QED
  BY InitCohort, NextCohort, CohortAgrees, PTL DEF JudgeSpec

-----------------------------------------------------------------------------
(***************************************************************************)
(* Induction over the natural numbers for a set: it has every number when  *)
(* it has 0 and, with a number, the next one.                              *)
(***************************************************************************)
LEMMA SetInduction ==
  ASSUME NEW T, 0 \in T, \A n \in Nat : n \in T => n + 1 \in T
  PROVE  Nat \subseteq T
<1> SUFFICES ASSUME NEW m \in Nat, m \notin T PROVE FALSE
  OBVIOUS
<1> DEFINE D == Nat \ T
<1>1. PICK x \in D : \A y \in D : ~(<<y, x>> \in OpToRel(<, Nat))
  BY NatLessThanWellFounded, WFMin
<1>2. x # 0 /\ x - 1 \in Nat
  OBVIOUS
<1>3. <<x - 1, x>> \in OpToRel(<, Nat)
  BY <1>2 DEF OpToRel
<1>4. x - 1 \notin D
  BY <1>1, <1>3
<1> QED
  BY <1>2, <1>4

(***************************************************************************)
(* The claims that a requirement reaches, level by level, as the queue of  *)
(* compileCommerceGrader goes through them.                                *)
(***************************************************************************)
Onward(r, S) == S \cup {e[2] : e \in {f \in r.dependencies : f[1] \in S}}

LevelsTo(r, k, level) ==
  /\ level \in [0..k -> SUBSET PackClaims]
  /\ level[0] = r.uses \cup r.preserves
  /\ \A n \in 1..k : level[n] = Onward(r, level[n - 1])

(* There are as many levels as one asks for.                               *)
LEMMA LevelsExist ==
  ASSUME NEW r \in Requests
  PROVE  \A k \in Nat : \E level : LevelsTo(r, k, level)
<1> DEFINE T == {k \in Nat : \E level : LevelsTo(r, k, level)}
<1>1. 0 \in T
  <2> DEFINE l == [n \in 0..0 |-> r.uses \cup r.preserves]
  <2>1. LevelsTo(r, 0, l)
    BY DeliveryAssumption DEF LevelsTo
  <2> QED BY <2>1
<1>2. ASSUME NEW k \in Nat, k \in T PROVE k + 1 \in T
  <2>1. PICK level : LevelsTo(r, k, level)
    BY <1>2
  <2> DEFINE next == [n \in 0..(k + 1) |-> IF n = k + 1 THEN Onward(r, level[k]) ELSE level[n]]
  <2>2. Onward(r, level[k]) \in SUBSET PackClaims
    BY <2>1, DeliveryAssumption DEF LevelsTo, Onward
  <2>3. next \in [0..(k + 1) -> SUBSET PackClaims]
    BY <2>1, <2>2 DEF LevelsTo
  <2>4. next[0] = r.uses \cup r.preserves
    BY <2>1 DEF LevelsTo
  <2>5. ASSUME NEW n \in 1..(k + 1) PROVE next[n] = Onward(r, next[n - 1])
    <3>1. CASE n = k + 1
      BY <3>1
    <3>2. CASE n # k + 1
      <4>1. n \in 1..k /\ n - 1 \in 0..(k + 1) /\ n \in 0..(k + 1) /\ n - 1 # k + 1
        BY <3>2
      <4>2. next[n] = level[n] /\ next[n - 1] = level[n - 1]
        BY <4>1, <3>2
      <4> QED BY <4>1, <4>2, <2>1 DEF LevelsTo
    <3> QED BY <3>1, <3>2
  <2>6. LevelsTo(r, k + 1, next)
    BY <2>3, <2>4, <2>5 DEF LevelsTo
  <2> QED BY <2>6
<1> HIDE DEF T
<1>3. Nat \subseteq T
  BY <1>1, <1>2, SetInduction
<1> QED BY <1>3 DEF T

(* Reached(r) is the last of the levels, whatever function has them all.   *)
LEMMA ReachedByLevels ==
  ASSUME NEW r \in Requests
  PROVE  \E level :
           /\ level[0] = r.uses \cup r.preserves
           /\ \A n \in 1..Cardinality(PackClaims) : level[n] = Onward(r, level[n - 1])
           /\ Reached(r) = level[Cardinality(PackClaims)]
<1> DEFINE K == Cardinality(PackClaims)
           F(level) == [n \in 0..K |->
             IF n = 0 THEN r.uses \cup r.preserves
             ELSE level[n - 1] \cup {e[2] : e \in {f \in r.dependencies : f[1] \in level[n - 1]}}]
           l == CHOOSE level : level = F(level)
<1>1. K \in Nat
  BY DeliveryAssumption, FS_CardinalityType
<1>2. PICK level : LevelsTo(r, K, level)
  BY <1>1, LevelsExist
<1>3. level = F(level)
  BY <1>2, <1>1 DEF LevelsTo, Onward
<1>4. l = F(l)
  BY <1>3
<1>5. Reached(r) = l[K]
  BY DEF Reached
<1> HIDE DEF l
<1>6. l[0] = r.uses \cup r.preserves
  BY <1>4, <1>1
<1>7. ASSUME NEW n \in 1..K PROVE l[n] = Onward(r, l[n - 1])
  <2>1. n \in 0..K /\ n # 0
    BY <1>1
  <2>2. F(l)[n] = l[n - 1] \cup {e[2] : e \in {f \in r.dependencies : f[1] \in l[n - 1]}}
    BY <2>1
  <2> QED BY <1>4, <2>2 DEF Onward
<1> QED BY <1>5, <1>6, <1>7

ClosedUnder(r, S) == \A e \in r.dependencies : e[1] \in S => e[2] \in S

(* What a requirement reaches holds what it names, and is within every set *)
(* that does and is closed under dependencies.                             *)
LEMMA ReachedIsLeast ==
  ASSUME NEW r \in Requests
  PROVE  /\ r.uses \cup r.preserves \subseteq Reached(r)
         /\ \A closed : r.uses \cup r.preserves \subseteq closed /\ ClosedUnder(r, closed)
              => Reached(r) \subseteq closed
<1> DEFINE K == Cardinality(PackClaims)
           named == r.uses \cup r.preserves
<1>0. K \in Nat
  BY DeliveryAssumption, FS_CardinalityType
<1>1. PICK level : /\ level[0] = named
                   /\ \A n \in 1..K : level[n] = Onward(r, level[n - 1])
                   /\ Reached(r) = level[K]
  BY ReachedByLevels
<1> DEFINE T(closed) == {n \in Nat : n <= K => named \subseteq level[n] /\ level[n] \subseteq closed}
<1>2. ASSUME NEW closed, named \subseteq closed, ClosedUnder(r, closed)
      PROVE  named \subseteq Reached(r) /\ Reached(r) \subseteq closed
  <2>1. 0 \in T(closed)
    BY <1>1, <1>2
  <2>2. ASSUME NEW n \in Nat, n \in T(closed) PROVE n + 1 \in T(closed)
    <3> SUFFICES ASSUME n + 1 <= K
                 PROVE  named \subseteq level[n + 1] /\ level[n + 1] \subseteq closed
      OBVIOUS
    <3>1. named \subseteq level[n] /\ level[n] \subseteq closed
      BY <2>2, <1>0
    <3>2. n + 1 \in 1..K /\ (n + 1) - 1 = n
      BY <1>0
    <3>3. level[n + 1] = Onward(r, level[n])
      BY <3>2, <1>1
    <3> QED BY <3>1, <3>3, <1>2 DEF Onward, ClosedUnder
  <2> HIDE DEF T
  <2>3. Nat \subseteq T(closed)
    BY <2>1, <2>2, SetInduction
  <2>4. K \in T(closed)
    BY <2>3, <1>0
  <2> QED BY <2>4, <1>0, <1>1 DEF T
<1>3. named \subseteq PackClaims /\ ClosedUnder(r, PackClaims)
  BY DeliveryAssumption DEF ClosedUnder
<1>4. named \subseteq Reached(r)
  BY <1>2, <1>3
<1> QED BY <1>2, <1>4

(* A requirement that leaves nothing over reaches what it bears on.        *)
LEMMA ReachedIsConcerned ==
  ASSUME NEW r \in Requests, WellFormedIr(r), Residual(r) = {}
  PROVE  /\ Graded(r) = Reached(r) /\ Reached(r) = Concerned(r)
         /\ Concerned(r) \subseteq PackClaims
<1> DEFINE named == r.uses \cup r.preserves
<1>1. named \subseteq PackClaims /\ ClosedUnder(r, PackClaims)
  BY DeliveryAssumption DEF ClosedUnder
<1>2. Graded(r) = Reached(r)
  BY DEF Residual, Graded
<1>3. ClosedUnder(r, Reached(r))
  BY <1>2 DEF WellFormedIr, ClosedUnder
<1>4. Reached(r) \in SUBSET PackClaims
  BY <1>1, ReachedIsLeast
<1>5. Concerned(r) \subseteq Reached(r)
  BY <1>3, <1>4, ReachedIsLeast DEF Concerned, ClosedUnder
<1>6. Reached(r) \subseteq Concerned(r)
  <2> SUFFICES ASSUME NEW c \in Reached(r), NEW closed \in SUBSET PackClaims,
                      named \subseteq closed, ClosedUnder(r, closed)
               PROVE  c \in closed
    BY <1>4 DEF Concerned, ClosedUnder
  <2> QED BY ReachedIsLeast
<1> QED BY <1>2, <1>4, <1>5, <1>6

-----------------------------------------------------------------------------
(* The invariant.  A process is past the compiler only with a requirement  *)
(* that compiles, past the calibration only with an admitted one, and past *)
(* the campaign only when that was reported; the report is the last thing  *)
(* that is written, and from then on nothing moves.                        *)

Phases == {"none", "qualified", "arm_1_running", "arm_1_frozen", "arm_2_running", "arm_2_frozen",
           "oracle_running", "projected", "reported", "interrupted"}
Places == {"compile", "calibrate", "prepare", "confirm", "campaign", "bind", "publish", "replay",
           "done", "refused", "dead"}
Verdicts == {"inconclusive", "reject", "accept"}

DeliveryTypeOK ==
  /\ request \in Requests /\ at \in Places /\ campaign \in Phases
  /\ {package, graded, prepared} \subseteq Versions
  /\ drifted \in BOOLEAN /\ ran \subseteq Versions
  /\ calibration \in [Candidates -> Vectors]
  /\ order \in {<<"control", "treatment">>, <<"treatment", "control">>}
  /\ arms \in [Arm -> Flaws] /\ vectors \in [Arm -> Vectors]
  /\ report \in {"none"} \cup Verdicts /\ replayed \in {"none"} \cup Verdicts

PastCompiler == {"calibrate", "prepare", "confirm", "campaign", "bind", "publish", "replay", "done"}
PastAdmission == PastCompiler \ {"calibrate"}
PastCampaign == {"bind", "publish", "replay", "done"}

PlacesEarned ==
  /\ at \in PastCompiler => Compiles(request)
  /\ at \in PastAdmission => Admitted(calibration)
  /\ at \in PastCampaign => campaign = "reported"
  /\ at = "publish" => Bound

(* While nobody edits the package, what runs reads the version that was    *)
(* digested, and something has run before anything is published.           *)
RanWhatWasGraded ==
  /\ ~drifted => graded = package /\ ran \subseteq {graded}
  /\ at = "compile" => ran = {} /\ ~drifted
  /\ at \in PastAdmission \/ report # "none" => ran # {}

ReportEarned ==
  report # "none" =>
    /\ at \in {"replay", "done", "dead"}
    /\ Compiles(request) /\ Admitted(calibration)
    /\ campaign = "reported" /\ Bound
    /\ report = Verdict(request)

DeliveryInv ==
  /\ DeliveryTypeOK /\ PlacesEarned /\ RanWhatWasGraded /\ ReportEarned
  /\ replayed \in {"none", report}

(* A delivery starts without a report.                                     *)
LEMMA DeliveryInvInit == DeliveryInit => DeliveryInv
<1> SUFFICES ASSUME DeliveryInit PROVE DeliveryInv
  OBVIOUS
<1>1. DeliveryTypeOK
  BY DEF DeliveryInit, DeliveryTypeOK, Ideal, Expected, All, Candidates, Vectors, Status, Arm, Flaws,
         Phases, Places, Verdicts
<1>2. PlacesEarned /\ RanWhatWasGraded /\ ReportEarned /\ replayed \in {"none", report}
  BY DEF DeliveryInit, PlacesEarned, RanWhatWasGraded, ReportEarned, PastCompiler, PastAdmission,
         PastCampaign
<1> QED
  BY <1>1, <1>2 DEF DeliveryInv

(* A verdict is one of three.                                              *)
LEMMA VerdictTyped == \A r \in Requests : Verdict(r) \in Verdicts
BY DEF Verdict, Verdicts

(* A calibration gives each candidate a vector.                            *)
LEMMA CalibrationsTyped == Calibrations \subseteq [Candidates -> Vectors]
<1>1. Ideal \in [Candidates -> Vectors]
  BY DEF Ideal, Expected, All, Candidates, Vectors, Status
<1> QED BY <1>1 DEF Calibrations

(* A step writes no report but at its place, and moves none of its grounds *)
(* after.                                                                  *)
LEMMA DeliveryInvNext == DeliveryInv /\ [DeliveryNext]_vvars => DeliveryInv'
<1> SUFFICES ASSUME DeliveryInv, [DeliveryNext]_vvars PROVE DeliveryInv'
  OBVIOUS
<1> USE DEF DeliveryInv, PlacesEarned, RanWhatWasGraded, ReportEarned, PastCompiler, PastAdmission, PastCampaign,
            disk, Read
<1>1. CASE Compile
  BY <1>1 DEF Compile, DeliveryTypeOK, Places, Bound
<1>2. CASE Calibrate
  BY <1>2, CalibrationsTyped DEF Calibrate, DeliveryTypeOK, Places, Bound
<1>3. CASE Prepare
  BY <1>3 DEF Prepare, DeliveryTypeOK, Places, Bound
<1>4. CASE Confirm
  BY <1>4 DEF Confirm, DeliveryTypeOK, Places, Phases, Bound
<1>5. CASE LaunchArm
  BY <1>5 DEF LaunchArm, InPhase, DeliveryTypeOK, Phases, Bound
<1>6. CASE FreezeArm
  <2>1. order[1] \in Arm /\ order[2] \in Arm
    BY DEF DeliveryTypeOK, Arm
  <2>2. arms' \in [Arm -> Flaws]
    BY <1>6, <2>1 DEF FreezeArm, DeliveryTypeOK
  <2> QED BY <1>6, <2>2 DEF FreezeArm, InPhase, DeliveryTypeOK, Phases, Bound
<1>7. CASE StartOracle
  BY <1>7 DEF StartOracle, InPhase, DeliveryTypeOK, Phases, Bound
<1>8. CASE Evaluate
  <2>1. \A arm \in Arm : OracleVectors(arm) \subseteq Vectors
    BY DEF OracleVectors, All, Vectors, Status
  <2>2. vectors' \in [Arm -> Vectors]
    BY <1>8, <2>1 DEF Evaluate, Arm
  <2> QED BY <1>8, <2>2 DEF Evaluate, InPhase, DeliveryTypeOK, Phases, Bound
<1>9. CASE ReportPair
  BY <1>9 DEF ReportPair, InPhase, DeliveryTypeOK, Phases, Places, Bound
<1>10. CASE Interrupt
  BY <1>10 DEF Interrupt, DeliveryTypeOK, Phases, Places, Bound
<1>11. CASE Bind
  BY <1>11 DEF Bind, DeliveryTypeOK, Places, Bound
<1>12. CASE PublishReport
  <2>1. Verdict(request)' = Verdict(request)
    BY <1>12 DEF PublishReport, Verdict, Combined, AxisStatuses, AxisStatus
  <2>2. Verdict(request) # "none" /\ Verdict(request) \in Verdicts
    BY DEF Verdict, Verdicts
  <2> QED BY <1>12, <2>1, <2>2 DEF PublishReport, DeliveryTypeOK, Places, Bound
<1>13. CASE Replay
  <2>1. Verdict(request)' = Verdict(request)
    BY <1>13 DEF Replay, Verdict, Combined, AxisStatuses, AxisStatus
  <2> QED BY <1>13, <2>1 DEF Replay, DeliveryTypeOK, Places, Bound
<1>14. CASE Edit
  <2>1. Verdict(request)' = Verdict(request)
    BY <1>14 DEF Edit, Verdict, Combined, AxisStatuses, AxisStatus
  <2>2. package' \in Versions /\ drifted' = TRUE
    BY <1>14 DEF Edit
  <2> QED BY <1>14, <2>1, <2>2 DEF Edit, DeliveryTypeOK, Bound
<1>15. CASE DieDelivering
  <2>1. Verdict(request)' = Verdict(request)
    BY <1>15 DEF DieDelivering, Verdict, Combined, AxisStatuses, AxisStatus
  <2> QED BY <1>15, <2>1 DEF DieDelivering, DeliveryTypeOK, Places, Bound
<1>16. CASE UNCHANGED vvars
  <2>1. Verdict(request)' = Verdict(request)
    BY <1>16 DEF vvars, Verdict, Combined, AxisStatuses, AxisStatus
  <2> QED BY <1>16, <2>1 DEF vvars, DeliveryTypeOK, Bound
<1> QED
  BY <1>1, <1>2, <1>3, <1>4, <1>5, <1>6, <1>7, <1>8, <1>9, <1>10, <1>11, <1>12, <1>13, <1>14,
     <1>15, <1>16 DEF DeliveryNext

-----------------------------------------------------------------------------
(* What a verdict says.                                                    *)

(* A vector without a failure and without an error passes throughout.      *)
LEMMA PassingVector ==
  ASSUME NEW v \in Vectors, Failing(v) = {}, Erring(v) = {}
  PROVE  v = All("pass")
BY DEF Vectors, Failing, Erring, All, Status

(* In a valid pair the evidence of the treatment is clean and neither arm  *)
(* has an error.                                                           *)
LEMMA ValidArms ==
  ASSUME DeliveryTypeOK, Combined = "valid"
  PROVE  /\ arms["control"] \in {"none", "goalless"} /\ arms["treatment"] = "none"
         /\ \A a \in Arm : Erring(vectors[a]) = {}
<1>1. \A a \in Arm : ArmValidity(a, arms[a], vectors[a]) = "valid"
  BY DEF Combined, ArmValidity
<1> QED BY <1>1 DEF ArmValidity, Arm, Flaws, DeliveryTypeOK

(* Accepted is what passed throughout.                                     *)
LEMMA AcceptedPassed ==
  ASSUME NEW r \in Requests, vectors \in [Arm -> Vectors], Graded(r) \subseteq PackClaims,
         "error" \notin AxisStatuses(r)
  PROVE  ("fail" \notin AxisStatuses(r)) <=>
           \A c \in Graded(r) : \A b \in r.observed[c] : vectors["treatment"][b] = "pass"
<1> DEFINE v == vectors["treatment"]
           Axes == {"requirement_delta", "domain_preservation"}
           Seen(axis) == {v[b] : b \in UNION {r.observed[c] : c \in Axis(r, axis)}}
<1>1. \A c \in Graded(r) : \E axis \in Axes : c \in Axis(r, axis)
  BY DEF Axis
<1>2. \A axis \in Axes : Axis(r, axis) \subseteq Graded(r)
  BY DEF Axis
<1>3. \A axis \in Axes : "error" \notin Seen(axis)
  BY DEF AxisStatuses, AxisStatus
<1>4. "fail" \notin AxisStatuses(r) <=> \A axis \in Axes : "fail" \notin Seen(axis)
  BY <1>3 DEF AxisStatuses, AxisStatus
<1>5. \A c \in Graded(r) : \A b \in r.observed[c] : v[b] \in Status
  BY DeliveryAssumption DEF Vectors, Arm
<1>6. ASSUME "fail" \notin AxisStatuses(r), NEW c \in Graded(r), NEW b \in r.observed[c]
      PROVE  v[b] = "pass"
  <2>1. PICK axis \in Axes : c \in Axis(r, axis)
    BY <1>1
  <2>2. v[b] \in Seen(axis)
    BY <2>1
  <2> QED BY <1>3, <1>4, <1>5, <1>6, <2>2 DEF Status
<1>7. ASSUME \A c \in Graded(r) : \A b \in r.observed[c] : v[b] = "pass", NEW axis \in Axes
      PROVE  "fail" \notin Seen(axis)
  BY <1>2, <1>7
<1> QED BY <1>4, <1>6, <1>7

(* The invariant gives what a verdict says.                                *)
LEMMA DeliveryInvEarned == DeliveryInv => VerdictIsEarned
<1> SUFFICES ASSUME DeliveryInv, report \in {"accept", "reject"}
             PROVE  VerdictIsEarned
  BY DEF VerdictIsEarned
<1>1. /\ request \in Requests /\ DeliveryTypeOK
      /\ Compiles(request) /\ Admitted(calibration)
      /\ campaign = "reported" /\ graded = prepared
      /\ drifted \/ ran = {graded}
      /\ report = Verdict(request) /\ replayed \in {"none", report}
  BY DEF DeliveryInv, RanWhatWasGraded, ReportEarned, DeliveryTypeOK, Bound
<1>2. /\ Combined = "valid" /\ Residual(request) = {} /\ "error" \notin AxisStatuses(request)
      /\ (report = "accept") <=> "fail" \notin AxisStatuses(request)
  BY <1>1 DEF Verdict
<1>3. WellFormedIr(request) /\ ~request.withdraws /\ Reached(request) \cap request.dormant = {}
  BY <1>1 DEF Compiles
<1>4. /\ Graded(request) = Reached(request) /\ Reached(request) = Concerned(request)
      /\ Concerned(request) \subseteq PackClaims
  BY <1>1, <1>2, <1>3, ReachedIsConcerned
<1>5. \A c \in Concerned(request) : request.observed[c] # {} /\ c \notin request.dormant
  BY <1>3, <1>4 DEF Graded
<1>6. request.proposed = {}
  BY <1>2 DEF Residual
<1>7. calibration["gold"] = All("pass") /\ calibration["next"] = All("pass")
  BY <1>1, PassingVector DEF Admitted, DeliveryTypeOK, Candidates
<1>8. \A b \in Behaviors : \E k \in Candidates : calibration[k][b] = "fail"
  BY <1>1 DEF Admitted, Expected, Candidates
<1>9. /\ arms["control"] \in {"none", "goalless"} /\ arms["treatment"] = "none"
      /\ \A a \in Arm : Erring(vectors[a]) = {}
  BY <1>1, <1>2, ValidArms
<1>10. (report = "accept") <=>
         \A c \in Concerned(request) : \A b \in request.observed[c] : vectors["treatment"][b] = "pass"
  BY <1>1, <1>2, <1>4, AcceptedPassed DEF DeliveryTypeOK
<1> QED
  BY <1>1, <1>3, <1>5, <1>6, <1>7, <1>8, <1>9, <1>10 DEF VerdictIsEarned

(***************************************************************************)
(* The state of a delivery keeps its shape, whatever the package, the      *)
(* evidence and the moment the process dies.                               *)
(***************************************************************************)
THEOREM DeliveryTyped == DeliverySpec => []DeliveryTypeOK
BY DeliveryInvInit, DeliveryInvNext, PTL DEF DeliverySpec, DeliveryInv

(***************************************************************************)
(* A report that accepts or rejects was earned: the requirement leaves     *)
(* nothing over and all that it bears on is graded, the grader told the    *)
(* good candidates from the bad, the campaign was prepared with that       *)
(* grader's package, both arms are valid, and it accepts exactly when the  *)
(* treatment passed every behaviour of every claim concerned.  A replay    *)
(* repeats it.                                                             *)
(***************************************************************************)
THEOREM DeliveriesAreEarned == DeliverySpec => []VerdictIsEarned
BY DeliveryInvInit, DeliveryInvNext, DeliveryInvEarned, PTL DEF DeliverySpec

-----------------------------------------------------------------------------
(***************************************************************************)
(* Profile installation.  An installation that had the profiles for itself *)
(* only ever moves, or takes back, what it has made: its stages, the roots *)
(* it has claimed and those it has committed are of the release that it    *)
(* installs.  Whatever else a step renames comes to lie at the root or in  *)
(* a backup.                                                               *)
(***************************************************************************)
Releases == {"legacy", "accepted", "target"}
Owners == Installers \cup {Nobody}

Directory ==
  [made : Owners, release : Releases, has : SUBSET Parts, cordis : BOOLEAN,
   marker : Installers \cup {"none", "whole"}, strange : BOOLEAN]

Activating == {"swap", "compare", "place", "claim", "mark", "write", "move", "unclaim", "release"}
ProfileSteps ==
  {"off", "preflight", "staging", "recheck", "verify", "unmark", "undo", "restore", "sweep",
   "done", "failed", "dead"} \cup Activating

StateFields == {"at", "found", "snapshot", "committed", "claimed", "moved", "whole", "alone"}

StateTyped(s) ==
  /\ DOMAIN s = StateFields
  /\ s.at \in ProfileSteps \X Roles
  /\ DOMAIN s.found = Roles /\ DOMAIN s.snapshot = Roles
  /\ \A r \in Roles : s.snapshot[r] \in SUBSET Directory
  /\ s.committed \in SUBSET Roles /\ s.claimed \in SUBSET Roles /\ s.moved \in SUBSET Parts
  /\ s.whole \in BOOLEAN /\ s.alone \in BOOLEAN

ProfileTypeOK ==
  /\ dir \in [Paths -> SUBSET Directory]
  /\ DOMAIN installer = Installers
  /\ \A i \in Installers : StateTyped(installer[i])
  /\ touched \in BOOLEAN

(* All that is there is of the release that is being installed.            *)
New(ds) == \A d \in ds : d.release = "target"

(* The roots an installation has committed and not yet taken back.         *)
Taken(s) ==
  IF s.at[1] \in {"undo", "restore"}
    THEN {r \in s.committed : /\ s.at[2] = "runner" => r = "runner"
                              /\ s.at[1] = "restore" => r # s.at[2]}
  ELSE IF s.at[1] = "sweep" THEN {} ELSE s.committed

(* Roots are activated in order, and before that none is committed.        *)
InOrder(s) ==
  /\ s.at[1] \in {"off", "preflight", "staging", "recheck"} => s.committed = {}
  /\ s.at[1] \in Activating => s.at[2] \notin s.committed
  /\ s.at[1] \in Activating /\ s.at[2] = "runner" => s.committed = {}
  /\ s.at[1] = "undo" => s.at[2] \in Taken(s)

Running(s) == s.at[1] \notin {"off", "done", "failed", "dead"}

AloneIsAlone ==
  \A i, j \in Installers :
    i # j /\ Running(installer[i]) /\ installer[i].alone => ~Running(installer[j])

OwnIsNew(i, s, d) ==
  /\ \A r \in Roles : New(d[Stage(i, r)])
  /\ \A r \in Taken(s) : New(d[Root(r)])
  /\ s.at[1] \in {"mark", "write", "move", "unclaim"} => New(d[Root(s.at[2])])

ProfileInv ==
  /\ ProfileTypeOK
  /\ AloneIsAlone
  /\ \A i \in Installers :
       /\ InOrder(installer[i])
       /\ installer[i].at[1] = "off" => \A r \in Roles : dir[Stage(i, r)] = {}
       /\ Running(installer[i]) /\ installer[i].alone => OwnIsNew(i, installer[i], dir)

(* Paths of a root, a stage and a backup differ. *)
LEMMA PathsDiffer ==
  ASSUME NEW i \in Installers, NEW r \in Roles
  PROVE  /\ Root(r) \in Paths /\ Stage(i, r) \in Paths /\ Backup(i, r) \in Paths
         /\ Root(r) # Stage(i, r) /\ Root(r) # Backup(i, r) /\ Stage(i, r) # Backup(i, r)
         /\ \A q \in Roles : /\ Root(q) # Stage(i, r) /\ Root(q) # Backup(i, r)
                             /\ Root(q) = Root(r) => q = r
                             /\ Stage(i, q) = Stage(i, r) => q = r
                             /\ Stage(i, q) # Backup(i, r)
         /\ \A j \in Installers, q \in Roles :
              j # i => Stage(j, q) # Stage(i, r) /\ Backup(j, q) # Backup(i, r)
         /\ \A j \in Installers, q \in Roles : Stage(j, q) # Backup(i, r)
BY DEF Paths, Root, Stage, Backup

(* What a step of an installation makes of its own state. *)
OthersStay(i) ==
  /\ DOMAIN installer' = Installers
  /\ \A j \in Installers \ {i} : installer'[j] = installer[j]

Becomes(i, to, committed, claimed, moved, whole) ==
  /\ OthersStay(i)
  /\ DOMAIN installer'[i] = StateFields
  /\ installer'[i].at = to
  /\ installer'[i].found = installer[i].found
  /\ installer'[i].snapshot = installer[i].snapshot
  /\ installer'[i].committed = committed
  /\ installer'[i].claimed = claimed
  /\ installer'[i].moved = moved
  /\ installer'[i].whole = whole
  /\ installer'[i].alone = installer[i].alone

Goes(i, to) ==
  Becomes(i, to, installer[i].committed, installer[i].claimed, installer[i].moved, installer[i].whole)

Aborts(i) ==
  Becomes(i, NextUndo(installer[i].committed), installer[i].committed, installer[i].claimed,
          installer[i].moved, FALSE)

Ends(i) ==
  /\ OthersStay(i)
  /\ StateTyped(installer'[i])
  /\ installer'[i].at[1] \in {"done", "failed", "dead"}
  /\ installer'[i].committed = {}

(* A label changes and nothing else. *)
LEMMA Going ==
  ASSUME ProfileTypeOK, NEW i \in Installers, NEW to, Go(i, to)
  PROVE  Goes(i, to)
<1>1. DOMAIN installer[i] = StateFields
  BY DEF ProfileTypeOK, StateTyped
<1>2. installer' = [installer EXCEPT ![i] = [installer[i] EXCEPT !.at = to]]
  BY DEF Go
<1>3. installer'[i] = [installer[i] EXCEPT !.at = to] /\ OthersStay(i)
  BY <1>2 DEF ProfileTypeOK, OthersStay
<1> QED
  BY <1>1, <1>3 DEF Goes, Becomes, StateFields

(* An error. *)
LEMMA Aborting ==
  ASSUME ProfileTypeOK, NEW i \in Installers, Abort(i)
  PROVE  Aborts(i)
<1>1. DOMAIN installer[i] = StateFields
  BY DEF ProfileTypeOK, StateTyped
<1> DEFINE s == [installer[i] EXCEPT !.at = NextUndo(installer[i].committed), !.whole = FALSE]
<1>2. installer' = [installer EXCEPT ![i] = s]
  BY DEF Abort
<1>3. installer'[i] = s /\ OthersStay(i)
  BY <1>2 DEF ProfileTypeOK, OthersStay
<1> QED
  BY <1>1, <1>3 DEF Aborts, Becomes, StateFields

(* An installation that has ended has the state of a fresh one. *)
LEMMA Ending ==
  ASSUME ProfileTypeOK, NEW i \in Installers, NEW how \in {"done", "failed", "dead"},
         installer' = [installer EXCEPT ![i] = Ended(how)]
  PROVE  Ends(i) /\ installer'[i].at = <<how, "runner">>
<1>1. installer'[i] = Ended(how) /\ OthersStay(i)
  BY DEF ProfileTypeOK, OthersStay
<1>2. StateTyped(Ended(how)) /\ Ended(how).at = <<how, "runner">> /\ Ended(how).committed = {}
  BY DEF Ended, Fresh, StateTyped, StateFields, ProfileSteps, Activating, Roles
<1> QED
  BY <1>1, <1>2 DEF Ends

(* The first root to take back is one that was committed. *)
LEMMA NextUndoIs ==
  ASSUME NEW left \in SUBSET Roles
  PROVE  \/ left = {} /\ NextUndo(left) = <<"sweep", "runner">>
         \/ "author" \in left /\ NextUndo(left) = <<"undo", "author">>
         \/ left = {"runner"} /\ NextUndo(left) = <<"undo", "runner">>
BY DEF NextUndo, Roles

(***************************************************************************)
(* What a step must do for the invariant to go on, of its own installation *)
(* and of the roots it has made.                                           *)
(***************************************************************************)
StateGoesOn(i) ==
  /\ OthersStay(i)
  /\ StateTyped(installer'[i])
  /\ installer'[i].at[1] # "off"
  /\ Running(installer'[i]) => installer'[i].alone = installer[i].alone
  /\ InOrder(installer'[i])

DirGoesOn(i) ==
  /\ dir' \in [Paths -> SUBSET Directory]
  /\ \A j \in Installers \ {i}, r \in Roles : dir[Stage(j, r)] = {} => dir'[Stage(j, r)] = {}

OwnGoesOn(i) ==
  OwnIsNew(i, installer[i], dir) /\ Running(installer'[i]) => OwnIsNew(i, installer'[i], dir')

LEMMA StepGoesOn ==
  ASSUME ProfileInv, NEW i \in Installers, Running(installer[i]), touched' \in BOOLEAN,
         StateGoesOn(i), DirGoesOn(i), installer[i].alone => OwnGoesOn(i)
  PROVE  ProfileInv'
<1>1. ProfileTypeOK'
  BY DEF ProfileInv, ProfileTypeOK, StateGoesOn, OthersStay, DirGoesOn
<1>2. \A j \in Installers : Running(installer'[j]) =>
        Running(installer[j]) /\ installer'[j].alone = installer[j].alone
  BY DEF StateGoesOn, OthersStay
<1>3. AloneIsAlone'
  BY <1>2 DEF AloneIsAlone, ProfileInv
<1>4. ASSUME NEW j \in Installers PROVE InOrder(installer'[j])
  BY DEF StateGoesOn, OthersStay, ProfileInv
<1>5. ASSUME NEW j \in Installers, installer'[j].at[1] = "off", NEW r \in Roles
      PROVE  dir'[Stage(j, r)] = {}
  BY <1>5 DEF StateGoesOn, OthersStay, DirGoesOn, ProfileInv
<1>6. ASSUME NEW j \in Installers, Running(installer'[j]), installer'[j].alone
      PROVE  OwnIsNew(j, installer'[j], dir')
  <2>1. CASE j # i
    BY <2>1, <1>2, <1>6 DEF ProfileInv, AloneIsAlone
  <2>2. CASE j = i
    BY <2>2, <1>2, <1>6 DEF ProfileInv, OwnGoesOn
  <2> QED
    BY <2>1, <2>2
<1> QED
  BY <1>1, <1>3, <1>4, <1>5, <1>6 DEF ProfileInv

(* The path of a predecessor, and a copy that still has everything. *)
Homes(r) == {Root(r)} \cup {Backup(j, r) : j \in Installers}
Old(d) == d.release # "target" /\ d.has = Parts /\ ~d.strange

Excused(i, r) ==
  \/ installer'[i].at[1] = "done" /\ installer[i].at[1] # "done"
  \/ installer[i].at \in {"move", "unclaim", "undo"} \X {r} /\ ~installer[i].alone

Shelters(i) == \A r \in Roles : Predecessor(r) => Predecessor(r)' \/ Excused(i, r)

StepIsGood(i) ==
  /\ Running(installer[i]) /\ touched' \in BOOLEAN
  /\ StateGoesOn(i) /\ DirGoesOn(i) /\ (installer[i].alone => OwnGoesOn(i))
  /\ Shelters(i)

LEMMA Carried ==
  ASSUME NEW r \in Roles,
         \A p \in Homes(r) : \A d \in dir[p] : Old(d) =>
           \E q \in Homes(r) : \E e \in dir'[q] : Old(e)
  PROVE  Predecessor(r) => Predecessor(r)'
BY DEF Homes, Old, Predecessor, Root, Backup

(* Types of a state whose fields are known. *)
LEMMA BecomesTyped ==
  ASSUME ProfileTypeOK, NEW i \in Installers, NEW to \in ProfileSteps \X Roles,
         NEW committed \in SUBSET Roles, NEW claimed \in SUBSET Roles, NEW moved \in SUBSET Parts,
         NEW whole \in BOOLEAN, Becomes(i, to, committed, claimed, moved, whole)
  PROVE  StateTyped(installer'[i]) /\ OthersStay(i)
BY DEF ProfileTypeOK, StateTyped, Becomes

LEMMA GoesTyped ==
  ASSUME ProfileTypeOK, NEW i \in Installers, NEW to \in ProfileSteps \X Roles, Goes(i, to)
  PROVE  StateTyped(installer'[i]) /\ OthersStay(i)
<1>1. StateTyped(installer[i])
  BY DEF ProfileTypeOK
<1> QED
  BY <1>1, BecomesTyped DEF Goes, StateTyped

Marking == {"mark", "write", "move", "unclaim"}
Undoing == {"undo", "restore", "sweep"}

(* An error leads to the sweep or to the taking back of what is committed. *)
LEMMA AbortGoesOn ==
  ASSUME ProfileInv, NEW i \in Installers, Aborts(i), installer[i].at[1] \notin Undoing
  PROVE  /\ StateGoesOn(i) /\ Running(installer'[i]) /\ installer'[i].at[1] \notin Marking
         /\ Taken(installer'[i]) \subseteq Taken(installer[i])
<1> DEFINE s == installer[i]
           t == installer'[i]
<1>1. ProfileTypeOK /\ StateTyped(s)
  BY DEF ProfileInv, ProfileTypeOK
<1>2. s.committed \in SUBSET Roles
  BY <1>1 DEF StateTyped
<1>3. PICK to \in ProfileSteps \X Roles :
        /\ to = NextUndo(s.committed)
        /\ \/ to = <<"sweep", "runner">>
           \/ to = <<"undo", "author">> /\ "author" \in s.committed
           \/ to = <<"undo", "runner">> /\ s.committed = {"runner"}
  BY <1>2, NextUndoIs DEF ProfileSteps, Roles
<1>4. StateTyped(t) /\ OthersStay(i)
  BY <1>1, <1>2, <1>3, BecomesTyped DEF Aborts, StateTyped
<1>5. t.at = to /\ t.committed = s.committed /\ t.alone = s.alone
  BY <1>3 DEF Aborts, Becomes
<1>6. InOrder(t) /\ Taken(t) \subseteq s.committed
  BY <1>3, <1>5 DEF InOrder, Taken, Activating
<1>7. Taken(s) = s.committed
  BY DEF Taken, Undoing
<1> QED
  BY <1>3, <1>4, <1>5, <1>6, <1>7 DEF StateGoesOn, Running, Marking

(* A step that leaves every directory where it is and takes nothing on. *)
LEMMA Quiet ==
  ASSUME ProfileInv, NEW i \in Installers, Running(installer[i]), StateGoesOn(i),
         dir' = dir, touched' = touched,
         Taken(installer'[i]) \subseteq Taken(installer[i]),
         installer'[i].at[1] \in Marking =>
           installer[i].at[1] \in Marking /\ installer'[i].at[2] = installer[i].at[2]
  PROVE  StepIsGood(i)
<1>1. DirGoesOn(i) /\ touched' \in BOOLEAN
  BY DEF DirGoesOn, ProfileInv, ProfileTypeOK
<1>2. OwnGoesOn(i)
  BY DEF OwnGoesOn, OwnIsNew, Marking
<1>3. Shelters(i)
  BY Carried DEF Shelters
<1> QED
  BY <1>1, <1>2, <1>3 DEF StepIsGood

(* Where an installation goes when a root is done. *)
LEMMA NextIs ==
  ASSUME NEW i \in Installers, NEW r \in Roles
  PROVE  /\ Activate(i, r) \in {<<"claim", r>>, <<"swap", r>>}
         /\ FirstActivation(i) \in {<<"claim", q>> : q \in Roles} \cup {<<"swap", q>> : q \in Roles}
         /\ \/ NextActivation(i, r) = <<"verify", "runner">>
            \/ r = "runner" /\ NextActivation(i, r) \in {<<"claim", "author">>, <<"swap", "author">>}
BY DEF Activate, FirstActivation, NextActivation, Roles

(* A step to a label at which nothing more is at stake than before. *)
LEMMA GoGoesOn ==
  ASSUME ProfileInv, NEW i \in Installers, NEW to \in ProfileSteps \X Roles, Goes(i, to),
         installer[i].at[1] \notin Undoing, to[1] \notin Undoing \cup {"off"},
         to[1] \in {"preflight", "staging", "recheck"} => installer[i].committed = {},
         to[1] \in Activating => /\ to[2] \notin installer[i].committed
                                 /\ to[2] = "runner" => installer[i].committed = {}
  PROVE  StateGoesOn(i) /\ Taken(installer'[i]) = Taken(installer[i]) /\ installer'[i].at = to
<1>1. StateTyped(installer'[i]) /\ OthersStay(i)
  BY GoesTyped DEF ProfileInv
<1>2. /\ installer'[i].at = to /\ installer'[i].committed = installer[i].committed
      /\ installer'[i].alone = installer[i].alone
  BY DEF Goes, Becomes
<1>3. InOrder(installer'[i])
  BY <1>2 DEF InOrder, Undoing
<1> QED
  BY <1>1, <1>2, <1>3 DEF StateGoesOn, Taken, Undoing

LEMMA RecheckGood ==
  ASSUME ProfileInv, NEW i \in Installers, NEW r \in Roles, Recheck(i, r)
  PROVE  StepIsGood(i)
<1>1. /\ installer[i].at = <<"recheck", r>> /\ Running(installer[i]) /\ dir' = dir /\ touched' = touched
      /\ ProfileTypeOK /\ installer[i].at[1] \notin Undoing /\ installer[i].committed = {}
  BY DEF Recheck, At, Running, ProfileInv, Undoing, InOrder
<1>2. CASE Abort(i)
  <2>1. Aborts(i)
    BY <1>1, <1>2, Aborting
  <2> QED
    BY <1>1, <2>1, AbortGoesOn, Quiet
<1>3. ASSUME NEW to \in {<<"recheck", "author">>} \cup {<<"claim", q>> : q \in Roles}
                        \cup {<<"swap", q>> : q \in Roles}, Go(i, to)
      PROVE  StepIsGood(i)
  <2>1. /\ to \in ProfileSteps \X Roles /\ to[1] \notin Undoing \cup {"off"} /\ to[1] \notin Marking
    BY <1>3 DEF ProfileSteps, Activating, Roles, Undoing, Marking
  <2>2. Goes(i, to)
    BY <1>1, <1>3, Going
  <2>3. StateGoesOn(i) /\ Taken(installer'[i]) = Taken(installer[i]) /\ installer'[i].at = to
    BY <1>1, <2>1, <2>2, GoGoesOn
  <2> QED
    BY <1>1, <2>1, <2>3, Quiet
<1> QED
  BY <1>2, <1>3, NextIs DEF Recheck

LEMMA VerifyGood ==
  ASSUME ProfileInv, NEW i \in Installers, NEW r \in Roles, Verify(i, r)
  PROVE  StepIsGood(i)
<1>1. /\ installer[i].at = <<"verify", r>> /\ Running(installer[i]) /\ dir' = dir /\ touched' = touched
      /\ ProfileTypeOK /\ installer[i].at[1] \notin Undoing
  BY DEF Verify, At, Running, ProfileInv, Undoing
<1>2. CASE Abort(i)
  <2>1. Aborts(i)
    BY <1>1, <1>2, Aborting
  <2> QED
    BY <1>1, <2>1, AbortGoesOn, Quiet
<1>3. ASSUME NEW to \in {<<"verify", "author">>, <<"unmark", "runner">>}, Go(i, to)
      PROVE  StepIsGood(i)
  <2>1. /\ to \in ProfileSteps \X Roles /\ to[1] \notin Undoing \cup {"off"} /\ to[1] \notin Marking
        /\ to[1] \notin Activating /\ to[1] \notin {"preflight", "staging", "recheck"}
    BY <1>3 DEF ProfileSteps, Activating, Roles, Undoing, Marking
  <2>2. Goes(i, to)
    BY <1>1, <1>3, Going
  <2>3. StateGoesOn(i) /\ Taken(installer'[i]) = Taken(installer[i]) /\ installer'[i].at = to
    BY <1>1, <2>1, <2>2, GoGoesOn
  <2> QED
    BY <1>1, <2>1, <2>3, Quiet
<1> QED
  BY <1>2, <1>3 DEF Verify

(* An installation that ends without a success, and moves nothing. *)
LEMMA EndGood ==
  ASSUME ProfileInv, NEW i \in Installers, Running(installer[i]), Ends(i),
         dir' = dir, touched' = touched
  PROVE  StepIsGood(i)
<1>1. StateGoesOn(i) /\ ~Running(installer'[i]) /\ Taken(installer'[i]) = {}
  BY DEF Ends, StateGoesOn, Running, InOrder, Activating, Taken
<1>2. installer'[i].at[1] \notin Marking
  BY DEF Ends, Marking
<1> QED
  BY <1>1, <1>2, Quiet

LEMMA DieGood ==
  ASSUME ProfileInv, NEW i \in Installers, Die(i)
  PROVE  StepIsGood(i)
BY Ending, EndGood DEF Die, Live, Running, ProfileInv

LEMMA PreflightGood ==
  ASSUME ProfileInv, NEW i \in Installers, NEW r \in Roles, Preflight(i, r)
  PROVE  StepIsGood(i)
<1>1. /\ installer[i].at = <<"preflight", r>> /\ Running(installer[i]) /\ dir' = dir /\ touched' = touched
      /\ ProfileTypeOK /\ StateTyped(installer[i]) /\ installer[i].committed = {}
  BY DEF Preflight, At, Running, ProfileInv, ProfileTypeOK, InOrder
<1>2. CASE \E how \in {"done", "failed"} : installer' = [installer EXCEPT ![i] = Ended(how)]
  BY <1>1, <1>2, Ending, EndGood
<1> DEFINE to == IF r = "runner" THEN <<"preflight", "author">> ELSE <<"staging", "runner">>
           now == [installer[i] EXCEPT !.found[r] = Inspect(dir[Root(r)]),
                                       !.snapshot[r] = dir[Root(r)], !.at = to]
<1>3. CASE installer' = [installer EXCEPT ![i] = now]
  <2>1. installer'[i] = now /\ OthersStay(i)
    BY <1>1, <1>3 DEF ProfileTypeOK, OthersStay
  <2>2. dir[Root(r)] \in SUBSET Directory
    BY <1>1 DEF ProfileTypeOK, Root, Paths
  <2>3. /\ DOMAIN now = StateFields /\ now.at = to
        /\ now.found = [installer[i].found EXCEPT ![r] = Inspect(dir[Root(r)])]
        /\ now.snapshot = [installer[i].snapshot EXCEPT ![r] = dir[Root(r)]]
        /\ now.committed = installer[i].committed /\ now.claimed = installer[i].claimed
        /\ now.moved = installer[i].moved /\ now.whole = installer[i].whole
        /\ now.alone = installer[i].alone
    BY <1>1 DEF StateTyped, StateFields
  <2>4. to \in ProfileSteps \X Roles /\ to[1] \in {"preflight", "staging"}
    BY DEF ProfileSteps, Roles
  <2>5. StateTyped(now)
    BY <1>1, <2>2, <2>3, <2>4 DEF StateTyped
  <2> HIDE DEF now, to
  <2>6. StateGoesOn(i) /\ Taken(installer'[i]) = {} /\ installer'[i].at[1] \notin Marking
    BY <1>1, <2>1, <2>3, <2>4, <2>5 DEF StateGoesOn, InOrder, Taken, Marking, Activating
  <2> QED
    BY <1>1, <2>6, Quiet
<1> QED
  BY <1>2, <1>3 DEF Preflight

(* The stages are prepared. *)
LEMMA PrepareGood ==
  ASSUME ProfileInv, NEW i \in Installers, PrepareProfiles(i)
  PROVE  StepIsGood(i)
<1>0. installer[i].at = <<"staging", "runner">> /\ touched' = touched
  BY Zenon DEF PrepareProfiles, At, Do
<1>1. /\ installer[i].at = <<"staging", "runner">> /\ Running(installer[i]) /\ ProfileTypeOK
      /\ installer[i].committed = {} /\ installer[i].at[1] \notin Undoing
      /\ touched' = touched /\ touched' \in BOOLEAN
  BY <1>0 DEF Running, ProfileInv, ProfileTypeOK, InOrder, Undoing
<1>2. CASE installer' = [installer EXCEPT ![i] = Ended("failed")] /\ dir' = dir
  BY <1>1, <1>2, Ending, EndGood
<1>3. CASE Go(i, <<"recheck", "runner">>) /\ dir' # dir
  <2>1. Goes(i, <<"recheck", "runner">>)
    BY <1>1, <1>3, Going
  <2>2. <<"recheck", "runner">> \in ProfileSteps \X Roles
    BY DEF ProfileSteps, Roles
  <2>3. /\ StateGoesOn(i) /\ Taken(installer'[i]) = Taken(installer[i])
        /\ installer'[i].at = <<"recheck", "runner">>
    BY <1>1, <2>1, <2>2, GoGoesOn DEF Undoing, Activating
  <2>4. PICK stage \in [Paths -> SUBSET Directory] :
          /\ dir' = [p \in Paths |->
               IF \E r \in Replaced(installer[i].found) : p = Stage(i, r) THEN stage[p] ELSE dir[p]]
          /\ \A p \in Paths : New(stage[p])
    <3> DEFINE new(p) == [Made(i) EXCEPT !.has = Parts,
                            !.cordis = \E d \in dir[Root(p[3])] :
                                         installer[i].snapshot[p[3]] # {} /\ d.cordis]
               stage == [p \in Paths |-> {new(p)}]
    <3>1. ASSUME NEW p PROVE new(p) \in Directory /\ new(p).release = "target"
      <4> DEFINE c == \E d \in dir[Root(p[3])] : installer[i].snapshot[p[3]] # {} /\ d.cordis
      <4>1. c \in BOOLEAN
        OBVIOUS
      <4> HIDE DEF c
      <4>2. [Made(i) EXCEPT !.has = Parts, !.cordis = c] \in Directory
        BY <4>1 DEF Made, Directory, Owners, Releases
      <4>3. [Made(i) EXCEPT !.has = Parts, !.cordis = c].release = "target"
        BY DEF Made
      <4> QED
        BY <4>2, <4>3 DEF c
    <3> HIDE DEF new
    <3>2. stage \in [Paths -> SUBSET Directory] /\ \A p \in Paths : New(stage[p])
      BY <3>1 DEF New
    <3>3. dir' = [p \in Paths |->
               IF \E r \in Replaced(installer[i].found) : p = Stage(i, r) THEN {new(p)} ELSE dir[p]]
      BY <1>3 DEF PrepareProfiles, Do, new
    <3> QED
      BY <3>2, <3>3
  <2>5. DirGoesOn(i)
    <3>1. dir' \in [Paths -> SUBSET Directory]
      BY <1>1, <2>4 DEF ProfileTypeOK
    <3>2. ASSUME NEW j \in Installers \ {i}, NEW r \in Roles PROVE dir'[Stage(j, r)] = dir[Stage(j, r)]
      BY <2>4, PathsDiffer DEF Replaced
    <3> QED
      BY <3>1, <3>2 DEF DirGoesOn
  <2>6. ASSUME NEW r \in Roles, NEW p \in Homes(r) PROVE dir'[p] = dir[p] /\ p \in Paths
    BY <2>4, PathsDiffer DEF Homes, Replaced
  <2>7. OwnGoesOn(i)
    <3> SUFFICES ASSUME OwnIsNew(i, installer[i], dir) PROVE OwnIsNew(i, installer'[i], dir')
      BY DEF OwnGoesOn
    <3>1. ASSUME NEW r \in Roles PROVE New(dir'[Stage(i, r)])
      BY <2>4, PathsDiffer DEF OwnIsNew
    <3> QED
      BY <1>1, <2>3, <3>1 DEF OwnIsNew, Taken
  <2>8. Shelters(i)
    BY <2>6, Carried DEF Shelters
  <2> QED
    BY <1>1, <2>3, <2>5, <2>7, <2>8 DEF StepIsGood
<1>4. CASE Go(i, <<"recheck", "runner">>) /\ dir' = dir
  <2>1. Goes(i, <<"recheck", "runner">>)
    BY <1>1, <1>4, Going
  <2>2. <<"recheck", "runner">> \in ProfileSteps \X Roles
    BY DEF ProfileSteps, Roles
  <2>3. /\ StateGoesOn(i) /\ Taken(installer'[i]) = Taken(installer[i])
        /\ installer'[i].at = <<"recheck", "runner">>
    BY <1>1, <2>1, <2>2, GoGoesOn DEF Undoing, Activating
  <2> QED
    BY <1>1, <1>4, <2>3, Quiet DEF Marking
<1> QED
  BY <1>2, <1>3, <1>4 DEF PrepareProfiles, Do

(* A rename takes a directory with what is in it, and is onto nothing that *)
(* has anything in it.                                                     *)
LEMMA Renaming ==
  ASSUME ProfileTypeOK, NEW from \in Paths, NEW to \in Paths, from # to,
         CanRename(from, to), dir' = Renamed(from, to)
  PROVE  /\ dir' \in [Paths -> SUBSET Directory]
         /\ dir'[to] = dir[from] /\ dir'[from] = {}
         /\ \A p \in Paths \ {from, to} : dir'[p] = dir[p]
         /\ \A d \in dir[to] : ~Old(d)
BY DEF ProfileTypeOK, CanRename, Renamed, Empty, Old, Parts

(* A rename between the paths of one role keeps the predecessors, unless   *)
(* it takes one into a stage.                                              *)
LEMMA RenameShelters ==
  ASSUME ProfileTypeOK, NEW q \in Roles, NEW i \in Installers, NEW r \in Roles,
         NEW from \in {Root(r), Stage(i, r), Backup(i, r)}, NEW to \in {Root(r), Stage(i, r), Backup(i, r)},
         from # to, CanRename(from, to), dir' = Renamed(from, to),
         q = r /\ to = Stage(i, r) => New(dir[from])
  PROVE  Predecessor(q) => Predecessor(q)'
<1>1. from \in Paths /\ to \in Paths
  BY PathsDiffer
<1>2. /\ dir'[to] = dir[from] /\ \A p \in Paths \ {from, to} : dir'[p] = dir[p]
      /\ \A d \in dir[to] : ~Old(d)
  BY <1>1, Renaming
<1>3. \A p \in Homes(q) : p \in Paths
  BY PathsDiffer DEF Homes
<1>4. ASSUME NEW p \in Homes(q), NEW d \in dir[p], Old(d)
      PROVE  \E h \in Homes(q) : \E e \in dir'[h] : Old(e)
  <2>1. CASE p \notin {from, to}
    BY <1>2, <1>3, <1>4, <2>1
  <2>2. CASE p = to
    BY <1>2, <1>4, <2>2
  <2>3. CASE p = from
    <3>1. q = r
      BY <2>3, PathsDiffer DEF Homes, Root, Stage, Backup
    <3>2. to # Stage(i, r)
      BY <1>4, <2>3, <3>1 DEF New, Old
    <3>3. to \in Homes(q)
      BY <3>1, <3>2 DEF Homes
    <3> QED
      BY <1>2, <1>4, <2>3, <3>3
  <2> QED
    BY <2>1, <2>2, <2>3
<1> QED
  BY <1>4, Carried

(* A rename between the paths of a role of one installation. *)
LEMMA RenameGoesOn ==
  ASSUME ProfileInv, NEW i \in Installers, NEW r \in Roles,
         NEW from \in {Root(r), Stage(i, r), Backup(i, r)}, NEW to \in {Root(r), Stage(i, r), Backup(i, r)},
         from # to, CanRename(from, to), dir' = Renamed(from, to)
  PROVE  /\ DirGoesOn(i) /\ dir'[to] = dir[from] /\ dir'[from] = {}
         /\ \A p \in Paths \ {from, to} : dir'[p] = dir[p]
<1>1. from \in Paths /\ to \in Paths /\ ProfileTypeOK
  BY PathsDiffer DEF ProfileInv
<1>2. /\ dir' \in [Paths -> SUBSET Directory] /\ dir'[to] = dir[from] /\ dir'[from] = {}
      /\ \A p \in Paths \ {from, to} : dir'[p] = dir[p]
  BY <1>1, Renaming
<1>3. ASSUME NEW j \in Installers \ {i}, NEW q \in Roles
      PROVE  Stage(j, q) \in Paths \ {from, to}
  <2>1. /\ Stage(j, q) \in Paths /\ Stage(j, q) # Root(r) /\ Stage(j, q) # Stage(i, r)
        /\ Stage(j, q) # Backup(i, r)
    BY PathsDiffer
  <2> QED
    BY <2>1
<1> QED
  BY <1>2, <1>3 DEF DirGoesOn

LEMMA PutBackGoesOn ==
  ASSUME ProfileInv, NEW i \in Installers, NEW r \in Roles, PutBack(i, r)
  PROVE  /\ DirGoesOn(i) /\ touched' = touched
         /\ \A p \in Paths \ {Root(r), Backup(i, r)} : dir'[p] = dir[p]
         /\ \A q \in Roles : Predecessor(q) => Predecessor(q)'
<1>1. touched' = touched /\ ProfileTypeOK
  BY DEF PutBack, Do, ProfileInv
<1>2. CASE CanRename(Backup(i, r), Root(r))
  <2>1. dir' = Renamed(Backup(i, r), Root(r))
    BY <1>2 DEF PutBack, Do
  <2> QED
    BY <1>1, <1>2, <2>1, RenameGoesOn, RenameShelters, PathsDiffer
<1>3. CASE ~CanRename(Backup(i, r), Root(r))
  <2>1. dir' = dir
    BY <1>3 DEF PutBack, Do
  <2> QED
    BY <1>1, <2>1, Carried DEF DirGoesOn, ProfileTypeOK
<1> QED
  BY <1>2, <1>3

LEMMA SwapGood ==
  ASSUME ProfileInv, NEW i \in Installers, NEW r \in Roles, Swap(i, r)
  PROVE  StepIsGood(i)
<1>1. /\ installer[i].at = <<"swap", r>> /\ Running(installer[i]) /\ touched' = touched
      /\ ProfileTypeOK /\ installer[i].at[1] \notin Undoing
      /\ r \notin installer[i].committed /\ (r = "runner" => installer[i].committed = {})
      /\ touched' \in BOOLEAN
  BY DEF Swap, At, Do, Running, ProfileInv, ProfileTypeOK, Undoing, InOrder, Activating
<1>2. CASE CanRename(Root(r), Backup(i, r))
  <2>1. Goes(i, <<"compare", r>>) /\ dir' = Renamed(Root(r), Backup(i, r))
    BY <1>1, <1>2, Going DEF Swap, Do
  <2>2. <<"compare", r>> \in ProfileSteps \X Roles
    BY DEF ProfileSteps, Activating
  <2>3. /\ StateGoesOn(i) /\ Taken(installer'[i]) = Taken(installer[i])
        /\ installer'[i].at = <<"compare", r>>
    BY <1>1, <2>1, <2>2, GoGoesOn DEF Undoing
  <2>4. /\ DirGoesOn(i) /\ \A p \in Paths \ {Root(r), Backup(i, r)} : dir'[p] = dir[p]
    BY <1>2, <2>1, RenameGoesOn, PathsDiffer
  <2>5. OwnGoesOn(i)
    <3>1. \A q \in Taken(installer[i]) : q # r /\ q \in Roles
      BY <1>1 DEF Taken, Undoing, ProfileTypeOK, StateTyped
    <3> QED
      BY <2>3, <2>4, <3>1, PathsDiffer DEF OwnGoesOn, OwnIsNew
  <2>6. Shelters(i)
    BY <1>1, <1>2, <2>1, RenameShelters, PathsDiffer DEF Shelters
  <2> QED
    BY <1>1, <2>3, <2>4, <2>5, <2>6 DEF StepIsGood
<1>3. CASE ~CanRename(Root(r), Backup(i, r))
  <2>1. Aborts(i) /\ dir' = dir
    BY <1>1, <1>3, Aborting DEF Swap
  <2> QED
    BY <1>1, <2>1, AbortGoesOn, Quiet
<1> QED
  BY <1>2, <1>3

(* An error that puts the backup of a root back. *)
LEMMA AbortBackGood ==
  ASSUME ProfileInv, NEW i \in Installers, NEW r \in Roles, Abort(i), PutBack(i, r),
         Running(installer[i]), installer[i].at[1] \notin Undoing, r \notin installer[i].committed
  PROVE  StepIsGood(i)
<1>1. ProfileTypeOK /\ Aborts(i)
  BY Aborting DEF ProfileInv
<1>2. /\ StateGoesOn(i) /\ Running(installer'[i]) /\ installer'[i].at[1] \notin Marking
      /\ Taken(installer'[i]) \subseteq Taken(installer[i])
  BY <1>1, AbortGoesOn
<1>3. /\ DirGoesOn(i) /\ touched' = touched
      /\ \A p \in Paths \ {Root(r), Backup(i, r)} : dir'[p] = dir[p]
      /\ \A q \in Roles : Predecessor(q) => Predecessor(q)'
  BY PutBackGoesOn
<1>4. \A q \in Taken(installer'[i]) : q # r /\ q \in Roles
  BY <1>1, <1>2 DEF Taken, Undoing, ProfileTypeOK, StateTyped
<1>5. OwnGoesOn(i)
  BY <1>2, <1>3, <1>4, PathsDiffer DEF OwnGoesOn, OwnIsNew, Marking
<1> QED
  BY <1>1, <1>2, <1>3, <1>5 DEF StepIsGood, Shelters, ProfileTypeOK

LEMMA CompareGood ==
  ASSUME ProfileInv, NEW i \in Installers, NEW r \in Roles, Compare(i, r)
  PROVE  StepIsGood(i)
<1>1. /\ installer[i].at = <<"compare", r>> /\ Running(installer[i]) /\ ProfileTypeOK
      /\ installer[i].at[1] \notin Undoing
      /\ r \notin installer[i].committed /\ (r = "runner" => installer[i].committed = {})
  BY DEF Compare, At, Running, ProfileInv, Undoing, InOrder, Activating
<1>2. CASE Go(i, <<"place", r>>) /\ UNCHANGED <<dir, touched>>
  <2>1. Goes(i, <<"place", r>>) /\ dir' = dir /\ touched' = touched
    BY <1>1, <1>2, Going
  <2>2. <<"place", r>> \in ProfileSteps \X Roles
    BY DEF ProfileSteps, Activating
  <2>3. /\ StateGoesOn(i) /\ Taken(installer'[i]) = Taken(installer[i])
        /\ installer'[i].at = <<"place", r>>
    BY <1>1, <2>1, <2>2, GoGoesOn DEF Undoing
  <2> QED
    BY <1>1, <2>1, <2>3, Quiet DEF Marking
<1>3. CASE Abort(i) /\ PutBack(i, r)
  BY <1>1, <1>3, AbortBackGood
<1> QED
  BY <1>2, <1>3 DEF Compare

(* A root is committed: the next one is activated, or all are verified. *)
LEMMA CommitGoesOn ==
  ASSUME ProfileInv, NEW i \in Installers, NEW r \in Roles, NEW claimed \in SUBSET Roles,
         installer[i].at[1] \in Activating, installer[i].at[2] = r,
         NEW moved \in SUBSET Parts,
         Becomes(i, NextActivation(i, r), installer[i].committed \cup {r}, claimed, moved,
                 installer[i].whole)
  PROVE  /\ StateGoesOn(i) /\ Running(installer'[i]) /\ installer'[i].at[1] \notin Marking
         /\ Taken(installer'[i]) = Taken(installer[i]) \cup {r}
<1>1. /\ ProfileTypeOK /\ StateTyped(installer[i]) /\ InOrder(installer[i])
      /\ installer[i].at[1] \notin Undoing
  BY DEF ProfileInv, ProfileTypeOK, Activating, Undoing
<1>2. r = "runner" => installer[i].committed = {}
  BY <1>1 DEF InOrder
<1>3. PICK to \in ProfileSteps \X Roles :
        /\ to = NextActivation(i, r)
        /\ \/ to = <<"verify", "runner">>
           \/ r = "runner" /\ to \in {<<"claim", "author">>, <<"swap", "author">>}
  BY NextIs DEF ProfileSteps, Roles, Activating
<1>4. installer[i].committed \cup {r} \in SUBSET Roles /\ installer[i].whole \in BOOLEAN
  BY <1>1 DEF StateTyped
<1>5. StateTyped(installer'[i]) /\ OthersStay(i)
  BY <1>1, <1>3, <1>4, BecomesTyped
<1>6. /\ installer'[i].at = to /\ installer'[i].committed = installer[i].committed \cup {r}
      /\ installer'[i].alone = installer[i].alone
  BY <1>3 DEF Becomes
<1>7. InOrder(installer'[i])
  BY <1>2, <1>3, <1>6 DEF InOrder, Activating
<1>8. Taken(installer'[i]) = Taken(installer[i]) \cup {r}
  BY <1>1, <1>3, <1>6 DEF Taken, Undoing
<1> QED
  BY <1>3, <1>5, <1>6, <1>7, <1>8 DEF StateGoesOn, Running, Marking

LEMMA PlaceGood ==
  ASSUME ProfileInv, NEW i \in Installers, NEW r \in Roles, Place(i, r)
  PROVE  StepIsGood(i)
<1>1. /\ installer[i].at = <<"place", r>> /\ Running(installer[i]) /\ ProfileTypeOK
      /\ installer[i].at[1] \notin Undoing /\ installer[i].at[1] \in Activating
      /\ r \notin installer[i].committed
  BY DEF Place, At, Running, ProfileInv, Undoing, InOrder, Activating
<1>2. CASE CanRename(Stage(i, r), Root(r))
  <2>1. /\ dir' = Renamed(Stage(i, r), Root(r)) /\ touched' = touched
        /\ installer' = [installer EXCEPT ![i] =
             [installer[i] EXCEPT !.at = NextActivation(i, r),
                                  !.committed = installer[i].committed \cup {r}]]
    BY <1>2 DEF Place, Do
  <2>2. Becomes(i, NextActivation(i, r), installer[i].committed \cup {r}, installer[i].claimed,
                installer[i].moved, installer[i].whole)
    <3> DEFINE s == [installer[i] EXCEPT !.at = NextActivation(i, r),
                                  !.committed = installer[i].committed \cup {r}]
    <3>1. installer'[i] = s /\ OthersStay(i)
      BY <1>1, <2>1 DEF ProfileTypeOK, OthersStay
    <3>2. DOMAIN installer[i] = StateFields
      BY <1>1 DEF ProfileTypeOK, StateTyped
    <3> QED
      BY <3>1, <3>2 DEF Becomes, StateFields
  <2>3. /\ installer[i].claimed \in SUBSET Roles /\ installer[i].moved \in SUBSET Parts
        /\ Taken(installer[i]) \subseteq Roles /\ installer[i].at[2] = r
    BY <1>1 DEF ProfileTypeOK, StateTyped, Taken, Undoing
  <2>4. /\ StateGoesOn(i) /\ Running(installer'[i]) /\ installer'[i].at[1] \notin Marking
        /\ Taken(installer'[i]) = Taken(installer[i]) \cup {r}
    BY <1>1, <2>2, <2>3, CommitGoesOn
  <2>5. /\ DirGoesOn(i) /\ dir'[Root(r)] = dir[Stage(i, r)] /\ dir'[Stage(i, r)] = {}
        /\ \A p \in Paths \ {Root(r), Stage(i, r)} : dir'[p] = dir[p]
    BY <1>2, <2>1, RenameGoesOn, PathsDiffer
  <2>6. OwnGoesOn(i)
    <3> SUFFICES ASSUME OwnIsNew(i, installer[i], dir) PROVE OwnIsNew(i, installer'[i], dir')
      BY DEF OwnGoesOn
    <3>1. ASSUME NEW q \in Roles PROVE New(dir'[Stage(i, q)])
      BY <2>5, PathsDiffer DEF OwnIsNew, New
    <3>2. ASSUME NEW q \in Taken(installer'[i]) PROVE New(dir'[Root(q)])
      BY <2>3, <2>4, <2>5, PathsDiffer DEF OwnIsNew
    <3> QED
      BY <2>4, <3>1, <3>2 DEF OwnIsNew, Marking
  <2>7. Shelters(i)
    BY <1>1, <1>2, <2>1, RenameShelters, PathsDiffer DEF Shelters
  <2> QED
    BY <1>1, <2>1, <2>4, <2>5, <2>6, <2>7 DEF StepIsGood, ProfileTypeOK
<1>3. CASE ~CanRename(Stage(i, r), Root(r))
  <2>1. Abort(i) /\ PutBack(i, r)
    BY <1>3 DEF Place
  <2> QED
    BY <1>1, <2>1, AbortBackGood
<1> QED
  BY <1>2, <1>3

(* The next root to take back, when one has been. *)
LEMMA NextUndoGoesOn ==
  ASSUME ProfileInv, NEW i \in Installers, NEW r \in Roles,
         installer[i].at \in {<<"undo", r>>, <<"restore", r>>},
         Goes(i, NextUndo(installer[i].committed \ {r, "author"}))
  PROVE  /\ StateGoesOn(i) /\ Running(installer'[i]) /\ installer'[i].at[1] \notin Marking
         /\ Taken(installer'[i]) \subseteq Taken(installer[i]) \ {r}
<1> DEFINE s == installer[i]
           t == installer'[i]
           left == s.committed \ {r, "author"}
<1>1. /\ ProfileTypeOK /\ s.committed \in SUBSET Roles /\ left \in SUBSET Roles
  BY DEF ProfileInv, ProfileTypeOK, StateTyped
<1>2. left \subseteq {"runner"}
  BY <1>1 DEF Roles
<1>3. PICK to \in ProfileSteps \X Roles :
        /\ to = NextUndo(left)
        /\ \/ to = <<"sweep", "runner">>
           \/ to = <<"undo", "runner">> /\ left = {"runner"}
  BY <1>1, <1>2, NextUndoIs DEF ProfileSteps, Roles
<1>4. StateTyped(t) /\ OthersStay(i)
  BY <1>1, <1>3, GoesTyped
<1>5. t.at = to /\ t.committed = s.committed /\ t.alone = s.alone
  BY <1>3 DEF Goes, Becomes
<1>6. /\ InOrder(t) /\ Taken(t) \subseteq left
  <2> HIDE DEF t, left
  <2>1. CASE to = <<"sweep", "runner">>
    <3>1. t.at[1] = "sweep"
      BY <1>5, <2>1
    <3> QED
      BY <3>1 DEF InOrder, Taken, Activating
  <2>2. CASE to = <<"undo", "runner">> /\ left = {"runner"}
    <3>1. t.at[1] = "undo" /\ t.at[2] = "runner"
      BY <1>5, <2>2
    <3>2. Taken(t) = {q \in t.committed : q = "runner"}
      BY <3>1 DEF Taken
    <3>3. "runner" \in t.committed
      BY <1>5, <2>2 DEF left
    <3> QED
      BY <2>2, <3>1, <3>2, <3>3 DEF InOrder, Activating
  <2> QED
    BY <1>3, <2>1, <2>2
<1>7. left = {"runner"} => r = "author"
  BY DEF Roles
<1>8. Taken(t) \subseteq Taken(s) \ {r}
  BY <1>2, <1>6, <1>7 DEF Taken
<1> QED
  BY <1>3, <1>4, <1>5, <1>6, <1>8 DEF StateGoesOn, Running, Marking

LEMMA UndoGood ==
  ASSUME ProfileInv, NEW i \in Installers, NEW r \in Roles, Undo(i, r)
  PROVE  StepIsGood(i)
<1>1. /\ installer[i].at = <<"undo", r>> /\ Running(installer[i]) /\ touched' = touched
      /\ ProfileTypeOK /\ StateTyped(installer[i]) /\ r \in Taken(installer[i])
      /\ touched' \in BOOLEAN
  BY DEF Undo, At, Do, Running, ProfileInv, ProfileTypeOK, InOrder
<1>2. CASE CanRename(Root(r), Stage(i, r))
  <2>1. Goes(i, <<"restore", r>>) /\ dir' = Renamed(Root(r), Stage(i, r))
    BY <1>1, <1>2, Going DEF Undo, Do
  <2>2. <<"restore", r>> \in ProfileSteps \X Roles
    BY DEF ProfileSteps
  <2>3. StateTyped(installer'[i]) /\ OthersStay(i)
    BY <1>1, <2>1, <2>2, GoesTyped
  <2>4. /\ installer'[i].at = <<"restore", r>> /\ installer'[i].committed = installer[i].committed
        /\ installer'[i].alone = installer[i].alone
    BY <2>1 DEF Goes, Becomes
  <2>5. /\ StateGoesOn(i) /\ Taken(installer'[i]) \subseteq Taken(installer[i]) \ {r}
        /\ installer'[i].at[1] \notin Marking
    BY <1>1, <2>3, <2>4 DEF StateGoesOn, InOrder, Taken, Activating, Marking
  <2>6. /\ DirGoesOn(i) /\ dir'[Stage(i, r)] = dir[Root(r)] /\ dir'[Root(r)] = {}
        /\ \A p \in Paths \ {Root(r), Stage(i, r)} : dir'[p] = dir[p]
    BY <1>2, <2>1, RenameGoesOn, PathsDiffer
  <2>7. OwnGoesOn(i)
    <3> SUFFICES ASSUME OwnIsNew(i, installer[i], dir) PROVE OwnIsNew(i, installer'[i], dir')
      BY DEF OwnGoesOn
    <3>1. ASSUME NEW q \in Roles PROVE New(dir'[Stage(i, q)])
      BY <1>1, <2>6, PathsDiffer DEF OwnIsNew
    <3>2. ASSUME NEW q \in Taken(installer'[i]) PROVE New(dir'[Root(q)])
      <4>1. q \in Roles /\ q # r /\ q \in Taken(installer[i])
        BY <1>1, <2>5 DEF Taken, StateTyped
      <4> QED
        BY <2>6, <4>1, PathsDiffer DEF OwnIsNew
    <3> QED
      BY <2>5, <3>1, <3>2 DEF OwnIsNew, Marking
  <2>8. ASSUME NEW q \in Roles, Predecessor(q), ~Excused(i, q) PROVE Predecessor(q)'
    <3>1. q = r => installer[i].alone
      BY <1>1, <2>8 DEF Excused
    <3>2. q = r => New(dir[Root(r)])
      BY <1>1, <3>1 DEF ProfileInv, OwnIsNew
    <3> QED
      BY <1>1, <1>2, <2>1, <2>8, <3>2, RenameShelters, PathsDiffer
  <2> QED
    BY <1>1, <2>5, <2>6, <2>7, <2>8 DEF StepIsGood, Shelters
<1>3. CASE ~CanRename(Root(r), Stage(i, r))
  <2>1. Goes(i, NextUndo(installer[i].committed \ {r, "author"})) /\ dir' = dir
    BY <1>1, <1>3, Going DEF Undo
  <2> QED
    BY <1>1, <2>1, NextUndoGoesOn, Quiet
<1> QED
  BY <1>2, <1>3

LEMMA RestoreGood ==
  ASSUME ProfileInv, NEW i \in Installers, NEW r \in Roles, Restore(i, r)
  PROVE  StepIsGood(i)
<1>1. /\ installer[i].at = <<"restore", r>> /\ Running(installer[i])
      /\ ProfileTypeOK /\ StateTyped(installer[i]) /\ touched \in BOOLEAN
  BY DEF Restore, At, Running, ProfileInv, ProfileTypeOK
<1>2. Goes(i, NextUndo(installer[i].committed \ {r, "author"}))
  BY <1>1, Going DEF Restore
<1>3. /\ StateGoesOn(i) /\ Running(installer'[i]) /\ installer'[i].at[1] \notin Marking
      /\ Taken(installer'[i]) \subseteq Taken(installer[i]) \ {r}
  BY <1>1, <1>2, NextUndoGoesOn
<1>4. /\ DirGoesOn(i) /\ touched' = touched
      /\ \A p \in Paths \ {Root(r), Backup(i, r)} : dir'[p] = dir[p]
      /\ \A q \in Roles : Predecessor(q) => Predecessor(q)'
  BY PutBackGoesOn DEF Restore
<1>5. \A q \in Taken(installer'[i]) : q # r /\ q \in Roles
  BY <1>1, <1>3 DEF Taken, StateTyped
<1>6. OwnGoesOn(i)
  BY <1>3, <1>4, <1>5, PathsDiffer DEF OwnGoesOn, OwnIsNew, Marking
<1> QED
  BY <1>1, <1>3, <1>4, <1>6 DEF StepIsGood, Shelters

(* A step that changes what is at one root. *)
LEMMA RootStep ==
  ASSUME ProfileInv, NEW i \in Installers, NEW r \in Roles, NEW ds \in SUBSET Directory,
         dir' = [dir EXCEPT ![Root(r)] = ds], touched' = touched,
         Running(installer[i]), StateGoesOn(i), Taken(installer'[i]) \subseteq Taken(installer[i]),
         New(dir[Root(r)]) => New(ds),
         installer'[i].at[1] \in Marking =>
           /\ installer'[i].at[2] = r
           /\ New(ds) \/ (installer[i].at[1] \in Marking /\ installer[i].at[2] = r),
         \A d \in dir[Root(r)] : Old(d) => Excused(i, r) \/ \E e \in ds : Old(e)
  PROVE  StepIsGood(i)
<1>1. ProfileTypeOK /\ touched' \in BOOLEAN /\ Root(r) \in Paths
  BY PathsDiffer DEF ProfileInv, ProfileTypeOK
<1>2. /\ dir' \in [Paths -> SUBSET Directory] /\ dir'[Root(r)] = ds
      /\ \A p \in Paths \ {Root(r)} : dir'[p] = dir[p]
  BY <1>1 DEF ProfileTypeOK
<1>3. DirGoesOn(i)
  BY <1>2, PathsDiffer DEF DirGoesOn
<1>4. OwnGoesOn(i)
  <2> SUFFICES ASSUME OwnIsNew(i, installer[i], dir) PROVE OwnIsNew(i, installer'[i], dir')
    BY DEF OwnGoesOn
  <2>1. ASSUME NEW q \in Roles PROVE New(dir'[Stage(i, q)])
    BY <1>2, PathsDiffer DEF OwnIsNew
  <2>2. ASSUME NEW q \in Taken(installer'[i]) PROVE New(dir'[Root(q)])
    <3>1. q \in Taken(installer[i]) /\ Root(q) \in Paths
      BY PathsDiffer DEF Taken, StateGoesOn, StateTyped
    <3> QED
      BY <1>2, <3>1 DEF OwnIsNew
  <2>3. installer'[i].at[1] \in Marking => New(ds)
    BY DEF OwnIsNew, Marking
  <2> QED
    BY <1>2, <2>1, <2>2, <2>3 DEF OwnIsNew, Marking
<1>5. ASSUME NEW q \in Roles, ~Excused(i, q) PROVE Predecessor(q) => Predecessor(q)'
  <2>1. ASSUME NEW p \in Homes(q), NEW d \in dir[p], Old(d)
        PROVE  \E h \in Homes(q) : \E e \in dir'[h] : Old(e)
    <3>1. p \in Paths
      BY PathsDiffer DEF Homes
    <3>2. CASE p # Root(r)
      BY <1>2, <2>1, <3>1, <3>2
    <3>3. CASE p = Root(r)
      <4>1. q = r
        BY <3>3, PathsDiffer DEF Homes
      <4> QED
        BY <1>2, <1>5, <2>1, <3>3, <4>1
    <3> QED
      BY <3>2, <3>3
  <2> QED
    BY <2>1, Carried
<1> QED
  BY <1>1, <1>3, <1>4, <1>5 DEF StepIsGood, Shelters

(* A step that has claimed a missing root: where it is and what it knows. *)
LEMMA MarkingStep ==
  ASSUME ProfileInv, NEW i \in Installers, NEW r \in Roles, NEW step \in Activating,
         installer[i].at = <<step, r>>
  PROVE  /\ ProfileTypeOK /\ StateTyped(installer[i]) /\ Running(installer[i])
         /\ installer[i].at[1] \notin Undoing /\ dir[Root(r)] \in SUBSET Directory
         /\ r \notin installer[i].committed /\ (r = "runner" => installer[i].committed = {})
         /\ step \in Marking /\ installer[i].alone => New(dir[Root(r)])
         /\ Taken(installer[i]) \subseteq Roles
<1>1. ProfileTypeOK /\ StateTyped(installer[i]) /\ Running(installer[i]) /\ installer[i].at[1] \notin Undoing
      /\ installer[i].at[1] = step /\ installer[i].at[2] = r
  BY DEF ProfileInv, ProfileTypeOK, Running, Undoing, Activating
<1>2. dir[Root(r)] \in SUBSET Directory
  BY <1>1, PathsDiffer DEF ProfileTypeOK
<1>3. r \notin installer[i].committed /\ (r = "runner" => installer[i].committed = {})
  BY <1>1 DEF ProfileInv, InOrder
<1>4. step \in Marking /\ installer[i].alone => New(dir[Root(r)])
  BY <1>1 DEF ProfileInv, OwnIsNew, Marking
<1>5. Taken(installer[i]) \subseteq Roles
  BY <1>1 DEF Taken, StateTyped
<1> QED
  BY <1>1, <1>2, <1>3, <1>4, <1>5

(* From one step of an activation to another. *)
LEMMA ActivationGoesOn ==
  ASSUME ProfileInv, NEW i \in Installers, NEW r \in Roles, NEW from \in Activating, NEW to \in Activating,
         installer[i].at = <<from, r>>, Go(i, <<to, r>>)
  PROVE  /\ StateGoesOn(i) /\ Taken(installer'[i]) = Taken(installer[i])
         /\ installer'[i].at = <<to, r>>
<1>1. /\ ProfileTypeOK /\ installer[i].at[1] \notin Undoing
      /\ r \notin installer[i].committed /\ (r = "runner" => installer[i].committed = {})
  BY MarkingStep
<1>2. Goes(i, <<to, r>>)
  BY <1>1, Going
<1>3. <<to, r>> \in ProfileSteps \X Roles /\ to \notin Undoing \cup {"off", "preflight", "staging", "recheck"}
  BY DEF ProfileSteps, Activating, Undoing
<1> QED
  BY <1>1, <1>2, <1>3, GoGoesOn

(* Directories of which the marker has changed. *)
LEMMA Remarked ==
  ASSUME NEW ds \in SUBSET Directory, NEW m \in Installers \cup {"none", "whole"}
  PROVE  LET marked == {[d EXCEPT !.marker = m] : d \in ds}
         IN  /\ marked \in SUBSET Directory
             /\ New(ds) => New(marked)
             /\ \A d \in ds : Old(d) => \E e \in marked : Old(e)
<1>1. ASSUME NEW d \in ds
      PROVE  LET e == [d EXCEPT !.marker = m]
             IN  /\ e \in Directory /\ e.release = d.release /\ e.has = d.has
                 /\ e.strange = d.strange
  BY DEF Directory
<1> QED
  BY <1>1 DEF New, Old

LEMMA ClaimGood ==
  ASSUME ProfileInv, NEW i \in Installers, NEW r \in Roles, Claim(i, r)
  PROVE  StepIsGood(i)
<1>1. /\ installer[i].at = <<"claim", r>> /\ "claim" \in Activating /\ "mark" \in Activating
      /\ touched' = touched
  BY DEF Claim, At, Do, Activating
<1>2. /\ ProfileTypeOK /\ Running(installer[i]) /\ installer[i].at[1] \notin Undoing
  BY <1>1, MarkingStep
<1>3. CASE dir[Root(r)] = {}
  <2>1. Go(i, <<"mark", r>>) /\ dir' = [dir EXCEPT ![Root(r)] = {Made(i)}]
    BY <1>3 DEF Claim, Do
  <2>2. {Made(i)} \in SUBSET Directory /\ New({Made(i)})
    BY DEF Made, Directory, Owners, Releases, New
  <2>3. /\ StateGoesOn(i) /\ Taken(installer'[i]) = Taken(installer[i])
        /\ installer'[i].at = <<"mark", r>>
    BY <1>1, <2>1, ActivationGoesOn
  <2>4. /\ installer'[i].at[2] = r /\ Taken(installer'[i]) \subseteq Taken(installer[i])
        /\ \A d \in dir[Root(r)] : FALSE
    BY <1>3, <2>3
  <2> QED
    BY <1>1, <1>2, <2>1, <2>2, <2>3, <2>4, RootStep
<1>4. CASE dir[Root(r)] # {}
  <2>1. Aborts(i) /\ dir' = dir
    BY <1>2, <1>4, Aborting DEF Claim
  <2> QED
    BY <1>1, <1>2, <2>1, AbortGoesOn, Quiet
<1> QED
  BY <1>3, <1>4

(* The way out of a claim. *)
LEMMA ToUnclaimGood ==
  ASSUME ProfileInv, NEW i \in Installers, NEW r \in Roles, NEW from \in {"mark", "move"},
         installer[i].at = <<from, r>>, Go(i, <<"unclaim", r>>), dir' = dir, touched' = touched
  PROVE  StepIsGood(i)
<1>1. from \in Activating /\ "unclaim" \in Activating /\ from \in Marking /\ "unclaim" \in Marking
  BY DEF Activating, Marking
<1>2. Running(installer[i])
  BY <1>1, MarkingStep
<1>3. /\ StateGoesOn(i) /\ Taken(installer'[i]) = Taken(installer[i])
      /\ installer'[i].at = <<"unclaim", r>>
  BY <1>1, ActivationGoesOn
<1>4. installer[i].at[1] \in Marking /\ installer[i].at[2] = r /\ installer'[i].at[2] = r
  BY <1>1, <1>3
<1> QED
  BY <1>2, <1>3, <1>4, Quiet

LEMMA MarkGood ==
  ASSUME ProfileInv, NEW i \in Installers, NEW r \in Roles, Mark(i, r)
  PROVE  StepIsGood(i)
<1>1. /\ installer[i].at = <<"mark", r>> /\ "mark" \in Activating /\ "write" \in Activating
      /\ "mark" \in Marking /\ touched' = touched
  BY DEF Mark, At, Do, Activating, Marking
<1>2. Running(installer[i]) /\ dir[Root(r)] \in SUBSET Directory
  BY <1>1, MarkingStep
<1>3. CASE \E d \in dir[Root(r)] : d.marker = "none"
  <2> DEFINE ds == {[d EXCEPT !.marker = i] : d \in dir[Root(r)]}
  <2>1. Go(i, <<"write", r>>) /\ dir' = [dir EXCEPT ![Root(r)] = ds]
    BY <1>3 DEF Mark, Do
  <2>2. /\ ds \in SUBSET Directory /\ (New(dir[Root(r)]) => New(ds))
        /\ \A d \in dir[Root(r)] : Old(d) => \E e \in ds : Old(e)
    BY <1>2, Remarked
  <2> HIDE DEF ds
  <2>3. /\ StateGoesOn(i) /\ Taken(installer'[i]) = Taken(installer[i])
        /\ installer'[i].at = <<"write", r>>
    BY <1>1, <2>1, ActivationGoesOn
  <2>4. /\ installer'[i].at[2] = r /\ Taken(installer'[i]) \subseteq Taken(installer[i])
        /\ installer[i].at[1] \in Marking /\ installer[i].at[2] = r
    BY <1>1, <2>3
  <2> QED
    BY <1>1, <1>2, <2>1, <2>2, <2>3, <2>4, RootStep
<1>4. CASE ~\E d \in dir[Root(r)] : d.marker = "none"
  <2>1. Go(i, <<"unclaim", r>>) /\ dir' = dir
    BY <1>4 DEF Mark
  <2> QED
    BY <1>1, <2>1, ToUnclaimGood
<1> QED
  BY <1>3, <1>4

LEMMA WriteMarkerGood ==
  ASSUME ProfileInv, NEW i \in Installers, NEW r \in Roles, WriteMarker(i, r)
  PROVE  StepIsGood(i)
<1>1. /\ installer[i].at = <<"write", r>> /\ "move" \in Activating /\ "write" \in Activating
      /\ "write" \in Marking /\ touched' = touched /\ Go(i, <<"move", r>>)
  BY DEF WriteMarker, At, Do, Activating, Marking
<1>2. /\ ProfileTypeOK /\ Running(installer[i]) /\ touched \in BOOLEAN
      /\ Taken(installer[i]) \subseteq Roles
  BY <1>1, MarkingStep DEF ProfileTypeOK
<1>3. /\ StateGoesOn(i) /\ Taken(installer'[i]) = Taken(installer[i])
      /\ installer'[i].at = <<"move", r>>
  BY <1>1, ActivationGoesOn
<1> DEFINE w(d) == IF d.marker = i THEN [d EXCEPT !.marker = "whole"] ELSE d
<1>4. dir' = [p \in Paths |-> {w(d) : d \in dir[p]}]
  BY DEF WriteMarker, Do
<1>5. ASSUME NEW d \in Directory
      PROVE  /\ w(d) \in Directory /\ w(d).release = d.release /\ w(d).has = d.has
             /\ w(d).strange = d.strange
  BY DEF Directory
<1> HIDE DEF w
<1>6. ASSUME NEW p \in Paths
      PROVE  /\ dir'[p] \in SUBSET Directory /\ (New(dir[p]) => New(dir'[p]))
             /\ (dir[p] = {} => dir'[p] = {})
             /\ \A d \in dir[p] : Old(d) => \E e \in dir'[p] : Old(e)
  <2>1. dir[p] \in SUBSET Directory
    BY <1>2 DEF ProfileTypeOK
  <2>2. dir'[p] = {w(d) : d \in dir[p]}
    BY <1>4
  <2> QED
    BY <1>5, <2>1, <2>2 DEF New, Old
<1>7. DirGoesOn(i)
  BY <1>4, <1>6, PathsDiffer DEF DirGoesOn
<1>8. OwnGoesOn(i)
  <2> SUFFICES ASSUME OwnIsNew(i, installer[i], dir) PROVE OwnIsNew(i, installer'[i], dir')
    BY DEF OwnGoesOn
  <2>1. ASSUME NEW q \in Roles PROVE New(dir'[Stage(i, q)])
    BY <1>6, PathsDiffer DEF OwnIsNew
  <2>2. ASSUME NEW q \in Taken(installer'[i]) PROVE New(dir'[Root(q)])
    BY <1>2, <1>3, <1>6, PathsDiffer DEF OwnIsNew
  <2>3. New(dir'[Root(r)])
    BY <1>1, <1>6, PathsDiffer DEF OwnIsNew
  <2> QED
    BY <1>3, <2>1, <2>2, <2>3 DEF OwnIsNew
<1>9. ASSUME NEW q \in Roles PROVE Predecessor(q) => Predecessor(q)'
  <2>1. \A p \in Homes(q) : p \in Paths
    BY PathsDiffer DEF Homes
  <2> QED
    BY <1>6, <2>1, Carried
<1> QED
  BY <1>1, <1>2, <1>3, <1>7, <1>8, <1>9 DEF StepIsGood, Shelters

(* A claim that is not alone may move its entries into what another        *)
(* installation has put back; one that is alone has only what it made.     *)
LEMMA AloneClaimsNew ==
  ASSUME ProfileInv, NEW i \in Installers, NEW r \in Roles, NEW step \in {"move", "unclaim"},
         installer[i].at = <<step, r>>
  PROVE  \A d \in dir[Root(r)] : Old(d) => Excused(i, r)
<1>1. step \in Marking /\ step \in Activating
  BY DEF Marking, Activating
<1>2. installer[i].alone => New(dir[Root(r)])
  BY <1>1, MarkingStep
<1> QED
  BY <1>2 DEF New, Old, Excused

LEMMA MoveGood ==
  ASSUME ProfileInv, NEW i \in Installers, NEW r \in Roles, Move(i, r)
  PROVE  StepIsGood(i)
<1>1. /\ installer[i].at = <<"move", r>> /\ "move" \in Activating /\ "move" \in Marking
      /\ touched' = touched
  BY Zenon DEF Move, At, Do, Activating, Marking
<1>2. /\ ProfileTypeOK /\ Running(installer[i]) /\ touched \in BOOLEAN /\ StateTyped(installer[i])
      /\ Taken(installer[i]) \subseteq Roles /\ dir[Root(r)] \in SUBSET Directory
      /\ installer[i].at[1] \notin Undoing
      /\ r \notin installer[i].committed /\ (r = "runner" => installer[i].committed = {})
  BY <1>1, MarkingStep DEF ProfileTypeOK
<1> DEFINE part == NextPart(installer[i].moved)
           into(d) == [d EXCEPT !.has = d.has \cup {part}, !.strange = d.strange \/ d.release # "target"]
           root == {into(d) : d \in dir[Root(r)]}
           stage == IF part = "package" THEN {}
                    ELSE {[d EXCEPT !.has = d.has \ {part}] : d \in dir[Stage(i, r)]}
           lands == \E d \in dir[Root(r)] : part \in d.has => part # "modules"
<1>3. CASE ~lands
  <2>1. Go(i, <<"unclaim", r>>) /\ dir' = dir
    BY <1>3 DEF Move
  <2> QED
    BY <1>1, <2>1, ToUnclaimGood
<1>4. CASE lands
  <2>1. dir' = [dir EXCEPT ![Root(r)] = root, ![Stage(i, r)] = stage]
    BY <1>4 DEF Move, Do
  <2>2. part \in Parts
    BY DEF NextPart, Parts
  <2>3. root \in SUBSET Directory /\ (New(dir[Root(r)]) => New(root))
    <3>1. ASSUME NEW d \in dir[Root(r)] PROVE into(d) \in Directory /\ into(d).release = d.release
      BY <1>2, <2>2 DEF Directory
    <3> HIDE DEF into
    <3> QED
      BY <3>1 DEF New
  <2>4. stage \in SUBSET Directory /\ (New(dir[Stage(i, r)]) => New(stage))
    <3>1. dir[Stage(i, r)] \in SUBSET Directory
      BY <1>2, PathsDiffer DEF ProfileTypeOK
    <3>2. ASSUME NEW d \in dir[Stage(i, r)]
          PROVE  LET e == [d EXCEPT !.has = d.has \ {part}]
                 IN  e \in Directory /\ e.release = d.release
      BY <3>1 DEF Directory
    <3> QED
      BY <3>2 DEF New
  <2>5. /\ StateGoesOn(i) /\ Running(installer'[i])
        /\ Taken(installer'[i]) \subseteq Taken(installer[i]) \cup {r}
        /\ installer'[i].at[1] \in Marking => installer'[i].at[2] = r
    <3>1. CASE part = "package"
      <4> DEFINE s == [installer[i] EXCEPT !.at = NextActivation(i, r), !.moved = {},
                         !.committed = installer[i].committed \cup {r},
                         !.claimed = installer[i].claimed \cup {r}]
      <4>1. installer' = [installer EXCEPT ![i] = s]
        BY <1>4, <3>1 DEF Move
      <4>2. installer'[i] = s /\ OthersStay(i)
        BY <1>2, <4>1 DEF ProfileTypeOK, OthersStay
      <4>3. DOMAIN installer[i] = StateFields
        BY <1>2 DEF StateTyped
      <4>4. Becomes(i, NextActivation(i, r), installer[i].committed \cup {r},
                    installer[i].claimed \cup {r}, {}, installer[i].whole)
        BY <4>2, <4>3 DEF Becomes, StateFields
      <4>5. installer[i].claimed \cup {r} \in SUBSET Roles /\ {} \in SUBSET Parts
            /\ installer[i].at[2] = r /\ installer[i].at[1] \in Activating
        BY <1>1, <1>2 DEF StateTyped
      <4> HIDE DEF s, part
      <4> QED
        BY <4>4, <4>5, CommitGoesOn
    <3>2. CASE part # "package"
      <4> DEFINE s == [installer[i] EXCEPT !.moved = installer[i].moved \cup {part}]
      <4>1. installer' = [installer EXCEPT ![i] = s]
        BY <1>4, <3>2 DEF Move
      <4>2. installer'[i] = s /\ OthersStay(i)
        BY <1>2, <4>1 DEF ProfileTypeOK, OthersStay
      <4>3. DOMAIN installer[i] = StateFields
        BY <1>2 DEF StateTyped
      <4>4. Becomes(i, installer[i].at, installer[i].committed, installer[i].claimed,
                    installer[i].moved \cup {part}, installer[i].whole)
        BY <4>2, <4>3 DEF Becomes, StateFields
      <4> HIDE DEF s, part
      <4>5. StateTyped(installer'[i])
        <5>1. /\ installer[i].at \in ProfileSteps \X Roles
              /\ installer[i].committed \in SUBSET Roles /\ installer[i].claimed \in SUBSET Roles
              /\ installer[i].moved \cup {part} \in SUBSET Parts /\ installer[i].whole \in BOOLEAN
          BY <1>2, <2>2 DEF StateTyped
        <5> QED
          BY <1>2, <4>4, <5>1, BecomesTyped
      <4>6. InOrder(installer'[i]) /\ Taken(installer'[i]) = Taken(installer[i])
            /\ installer'[i].at = installer[i].at /\ installer'[i].alone = installer[i].alone
        BY <1>1, <1>2, <4>4 DEF Becomes, InOrder, Taken
      <4> QED
        BY <1>1, <1>2, <4>2, <4>5, <4>6 DEF StateGoesOn, Running
    <3> QED
      BY <3>1, <3>2
  <2> HIDE DEF root, stage, into, lands, part
  <2>6. /\ dir' \in [Paths -> SUBSET Directory] /\ dir'[Root(r)] = root /\ dir'[Stage(i, r)] = stage
        /\ \A p \in Paths \ {Root(r), Stage(i, r)} : dir'[p] = dir[p]
    BY <1>2, <2>1, <2>3, <2>4, PathsDiffer DEF ProfileTypeOK
  <2>7. DirGoesOn(i)
    <3>1. ASSUME NEW j \in Installers \ {i}, NEW q \in Roles PROVE dir'[Stage(j, q)] = dir[Stage(j, q)]
      BY <2>6, PathsDiffer
    <3> QED
      BY <2>6, <3>1 DEF DirGoesOn
  <2>8. OwnGoesOn(i)
    <3> SUFFICES ASSUME OwnIsNew(i, installer[i], dir) PROVE OwnIsNew(i, installer'[i], dir')
      BY DEF OwnGoesOn
    <3>1. New(dir'[Root(r)])
      BY <1>1, <2>3, <2>6 DEF OwnIsNew
    <3>2. ASSUME NEW q \in Roles PROVE New(dir'[Stage(i, q)])
      BY <2>4, <2>6, PathsDiffer DEF OwnIsNew
    <3>3. ASSUME NEW q \in Taken(installer'[i]) PROVE New(dir'[Root(q)])
      <4>1. CASE q = r
        BY <3>1, <4>1
      <4>2. CASE q # r
        <5>1. q \in Roles /\ q \in Taken(installer[i])
          BY <1>2, <2>5, <4>2
        <5> QED
          BY <2>6, <4>2, <5>1, PathsDiffer DEF OwnIsNew
      <4> QED
        BY <4>1, <4>2
    <3> QED
      BY <2>5, <3>1, <3>2, <3>3 DEF OwnIsNew, Marking
  <2>9. ASSUME NEW q \in Roles, ~Excused(i, q) PROVE Predecessor(q) => Predecessor(q)'
    <3>1. ASSUME NEW p \in Homes(q), NEW d \in dir[p], Old(d)
          PROVE  \E h \in Homes(q) : \E e \in dir'[h] : Old(e)
      <4>1. p \in Paths /\ p # Stage(i, r)
        BY PathsDiffer DEF Homes
      <4>2. CASE p # Root(r)
        BY <2>6, <3>1, <4>1, <4>2
      <4>3. CASE p = Root(r)
        <5>1. q = r
          BY <4>3, PathsDiffer DEF Homes
        <5> QED
          BY <1>1, <2>9, <3>1, <4>3, <5>1, AloneClaimsNew
      <4> QED
        BY <4>2, <4>3
    <3> QED
      BY <3>1, Carried
  <2> QED
    BY <1>1, <1>2, <2>5, <2>7, <2>8, <2>9 DEF StepIsGood, Shelters
<1> QED
  BY <1>3, <1>4

LEMMA UnclaimGood ==
  ASSUME ProfileInv, NEW i \in Installers, NEW r \in Roles, Unclaim(i, r)
  PROVE  StepIsGood(i)
<1>1. /\ installer[i].at = <<"unclaim", r>> /\ "unclaim" \in Activating /\ "release" \in Activating
      /\ "release" \notin Marking /\ touched' = touched /\ Go(i, <<"release", r>>)
  BY DEF Unclaim, At, Do, Activating, Marking
<1>2. Running(installer[i]) /\ dir[Root(r)] \in SUBSET Directory
  BY <1>1, MarkingStep
<1>3. /\ StateGoesOn(i) /\ Taken(installer'[i]) \subseteq Taken(installer[i])
      /\ installer'[i].at[1] \notin Marking
  BY <1>1, ActivationGoesOn
<1> DEFINE out(d) == [d EXCEPT !.has = d.has \ installer[i].moved]
           ds == {out(d) : d \in dir[Root(r)]}
<1>4. dir' = [dir EXCEPT ![Root(r)] = ds]
  BY DEF Unclaim, Do
<1>5. ASSUME NEW d \in dir[Root(r)] PROVE out(d) \in Directory /\ out(d).release = d.release
  BY <1>2 DEF Directory
<1> HIDE DEF out
<1>6. ds \in SUBSET Directory /\ (New(dir[Root(r)]) => New(ds))
  BY <1>5 DEF New
<1> HIDE DEF ds
<1>7. \A d \in dir[Root(r)] : Old(d) => Excused(i, r)
  BY <1>1, AloneClaimsNew
<1> QED
  BY <1>1, <1>2, <1>3, <1>4, <1>6, <1>7, RootStep

LEMMA ReleaseGood ==
  ASSUME ProfileInv, NEW i \in Installers, NEW r \in Roles, Release(i, r)
  PROVE  StepIsGood(i)
<1>1. /\ installer[i].at = <<"release", r>> /\ "release" \in Activating
      /\ touched' = touched /\ Abort(i)
  BY Zenon DEF Release, At, Do, Activating
<1>2. /\ ProfileTypeOK /\ Running(installer[i]) /\ installer[i].at[1] \notin Undoing
      /\ dir[Root(r)] \in SUBSET Directory
  BY <1>1, MarkingStep
<1> DEFINE left == {[d EXCEPT !.marker = "none"] : d \in dir[Root(r)]}
           ds == {d \in left : ~Empty(d)}
<1>3. dir' = [dir EXCEPT ![Root(r)] = ds]
  BY DEF Release, Do
<1>4. /\ left \in SUBSET Directory /\ (New(dir[Root(r)]) => New(left))
      /\ \A d \in dir[Root(r)] : Old(d) => \E e \in left : Old(e)
  BY <1>2, Remarked
<1> HIDE DEF left
<1>5. /\ ds \in SUBSET Directory /\ (New(dir[Root(r)]) => New(ds))
      /\ \A d \in dir[Root(r)] : Old(d) => \E e \in ds : Old(e)
  BY <1>4 DEF New, Old, Empty, Parts
<1> HIDE DEF ds
<1>6. /\ StateGoesOn(i) /\ installer'[i].at[1] \notin Marking
      /\ Taken(installer'[i]) \subseteq Taken(installer[i])
  BY <1>1, <1>2, Aborting, AbortGoesOn
<1> QED
  BY <1>1, <1>2, <1>3, <1>5, <1>6, RootStep

LEMMA UnmarkGood ==
  ASSUME ProfileInv, NEW i \in Installers, NEW r \in Roles, Unmark(i, r)
  PROVE  StepIsGood(i)
<1> DEFINE to == IF r = "runner" THEN <<"unmark", "author">> ELSE <<"sweep", "runner">>
<1>1. /\ installer[i].at = <<"unmark", r>> /\ touched' = touched
  BY Zenon DEF Unmark, At, Do
<1>2. /\ ProfileTypeOK /\ Running(installer[i]) /\ installer[i].at[1] \notin Undoing
      /\ dir[Root(r)] \in SUBSET Directory
  BY <1>1, PathsDiffer DEF ProfileInv, ProfileTypeOK, Running, Undoing
<1>3. ASSUME Go(i, to)
      PROVE  /\ StateGoesOn(i) /\ Taken(installer'[i]) \subseteq Taken(installer[i])
             /\ installer'[i].at[1] \notin Marking
  <2>1. to \in ProfileSteps \X Roles /\ to[1] \in {"unmark", "sweep"}
    BY DEF ProfileSteps, Roles
  <2>2. Goes(i, to)
    BY <1>2, <1>3, Going
  <2>3. StateTyped(installer'[i]) /\ OthersStay(i)
    BY <1>2, <2>1, <2>2, GoesTyped
  <2>4. /\ installer'[i].at = to /\ installer'[i].committed = installer[i].committed
        /\ installer'[i].alone = installer[i].alone
    BY <2>2 DEF Goes, Becomes
  <2> HIDE DEF to
  <2>5. InOrder(installer'[i]) /\ Taken(installer'[i]) \subseteq Taken(installer[i])
        /\ installer'[i].at[1] \notin Marking
    BY <1>1, <2>1, <2>4 DEF InOrder, Taken, Activating, Marking
  <2> QED
    BY <2>1, <2>3, <2>4, <2>5 DEF StateGoesOn
<1>4. CASE Go(i, to) /\ UNCHANGED <<dir, touched>>
  BY <1>2, <1>3, <1>4, Quiet
<1>5. CASE Go(i, to) /\ Do(i, [dir EXCEPT ![Root(r)] = {[d EXCEPT !.marker = "none"] : d \in @}])
  <2> DEFINE ds == {[d EXCEPT !.marker = "none"] : d \in dir[Root(r)]}
  <2>1. dir' = [dir EXCEPT ![Root(r)] = ds]
    BY <1>5 DEF Do
  <2>2. /\ ds \in SUBSET Directory /\ (New(dir[Root(r)]) => New(ds))
        /\ \A d \in dir[Root(r)] : Old(d) => \E e \in ds : Old(e)
    BY <1>2, Remarked
  <2> HIDE DEF ds, to
  <2> QED
    BY <1>1, <1>2, <1>3, <1>5, <2>1, <2>2, RootStep
<1>6. CASE Abort(i) /\ UNCHANGED <<dir, touched>>
  BY <1>2, <1>6, Aborting, AbortGoesOn, Quiet
<1> QED
  BY <1>4, <1>5, <1>6 DEF Unmark

(* The end takes away what the installation has staged, and its backups    *)
(* only when it has succeeded.                                             *)
LEMMA SweepGood ==
  ASSUME ProfileInv, NEW i \in Installers, Sweep(i)
  PROVE  StepIsGood(i)
<1>1. /\ installer[i].at = <<"sweep", "runner">> /\ touched' = touched
  BY Zenon DEF Sweep, At, Do
<1>2. ProfileTypeOK /\ Running(installer[i]) /\ touched' \in BOOLEAN
  BY <1>1 DEF ProfileInv, ProfileTypeOK, Running
<1> DEFINE how == IF installer[i].whole THEN "done" ELSE "failed"
<1>3. installer' = [installer EXCEPT ![i] = Ended(how)] /\ how \in {"done", "failed", "dead"}
  BY DEF Sweep
<1>4. Ends(i) /\ installer'[i].at = <<how, "runner">>
  BY <1>2, <1>3, Ending
<1>5. StateGoesOn(i) /\ ~Running(installer'[i])
  BY <1>4 DEF Ends, StateGoesOn, Running, InOrder, Activating
<1> DEFINE gone(p) == p[2] = i /\ (p[1] = "stage" \/ (p[1] = "backup" /\ installer[i].whole))
<1>6. dir' = [p \in Paths |-> IF gone(p) THEN {} ELSE dir[p]]
  BY DEF Sweep, Do
<1>7. ASSUME ~installer[i].whole, NEW q \in Roles, NEW p \in Homes(q)
      PROVE  p \in Paths /\ ~gone(p)
  <2>1. p \in Paths
    BY PathsDiffer DEF Homes
  <2>2. p[1] = "root" \/ p[1] = "backup"
    <3>1. CASE p = Root(q)
      BY <3>1 DEF Root
    <3>2. ASSUME NEW j \in Installers, p = Backup(j, q) PROVE p[1] = "backup"
      BY <3>2 DEF Backup
    <3> QED
      BY <3>1, <3>2 DEF Homes
  <2> QED
    BY <1>7, <2>1, <2>2
<1> HIDE DEF gone
<1>8. DirGoesOn(i)
  <2>1. dir' \in [Paths -> SUBSET Directory]
    BY <1>2, <1>6 DEF ProfileTypeOK
  <2>2. ASSUME NEW j \in Installers \ {i}, NEW q \in Roles, dir[Stage(j, q)] = {}
        PROVE  dir'[Stage(j, q)] = {}
    BY <1>6, <2>2, PathsDiffer
  <2> QED
    BY <2>1, <2>2 DEF DirGoesOn
<1>9. OwnGoesOn(i)
  BY <1>5 DEF OwnGoesOn
<1>10. Shelters(i)
  <2>1. CASE installer[i].whole
    BY <1>1, <1>4, <2>1 DEF Shelters, Excused
  <2>2. CASE ~installer[i].whole
    <3>1. ASSUME NEW q \in Roles, NEW p \in Homes(q) PROVE dir'[p] = dir[p]
      BY <1>6, <1>7, <2>2
    <3> QED
      BY <3>1, Carried DEF Shelters
  <2> QED
    BY <2>1, <2>2
<1> QED
  BY <1>2, <1>5, <1>8, <1>9, <1>10 DEF StepIsGood

(* Every step of an installation that is under way. *)
LEMMA InstallGood ==
  ASSUME ProfileInv, NEW i \in Installers, Install(i), ~Start(i)
  PROVE  StepIsGood(i)
<1>1. CASE PrepareProfiles(i) \/ Sweep(i) \/ Die(i)
  BY <1>1, PrepareGood, SweepGood, DieGood
<1>2. ASSUME NEW r \in Roles,
             Preflight(i, r) \/ Recheck(i, r) \/ Verify(i, r) \/ Unmark(i, r) \/ Undo(i, r) \/ Restore(i, r)
      PROVE  StepIsGood(i)
  BY <1>2, PreflightGood, RecheckGood, VerifyGood, UnmarkGood, UndoGood, RestoreGood
<1>3. ASSUME NEW r \in Roles, Activation(i, r)
      PROVE  StepIsGood(i)
  BY <1>3, SwapGood, CompareGood, PlaceGood, ClaimGood, MarkGood, WriteMarkerGood, MoveGood,
     UnclaimGood, ReleaseGood DEF Activation
<1> QED
  BY <1>1, <1>2, <1>3 DEF Install

(* An installation that starts is alone unless another is under way, and   *)
(* no other is alone any more.                                             *)
LEMMA StartGoesOn ==
  ASSUME ProfileInv, NEW i \in Installers, Start(i)
  PROVE  ProfileInv' /\ UNCHANGED <<dir, touched>>
<1>1. /\ installer[i].at = <<"off", "runner">> /\ dir' = dir /\ touched' = touched /\ ProfileTypeOK
  BY DEF Start, At, ProfileInv
<1> DEFINE alone == \A k \in Installers \ {i} : ~Live(k)
           s == [Fresh EXCEPT !.at = <<"preflight", "runner">>, !.alone = alone]
           t(j) == [installer[j] EXCEPT !.alone = installer[j].alone /\ ~Live(j)]
<1>2. installer' = [j \in Installers |-> IF j = i THEN s ELSE t(j)]
  BY DEF Start
<1>3. /\ s.at = <<"preflight", "runner">> /\ s.committed = {} /\ s.alone = alone /\ StateTyped(s)
  BY DEF Fresh, StateTyped, StateFields, ProfileSteps, Activating, Roles
<1>4. ASSUME NEW j \in Installers
      PROVE  /\ StateTyped(t(j)) /\ t(j).at = installer[j].at /\ t(j).committed = installer[j].committed
             /\ t(j).alone = (installer[j].alone /\ ~Live(j))
  <2>1. StateTyped(installer[j])
    BY <1>1 DEF ProfileTypeOK
  <2>2. /\ DOMAIN t(j) = StateFields /\ t(j).at = installer[j].at /\ t(j).found = installer[j].found
        /\ t(j).snapshot = installer[j].snapshot /\ t(j).committed = installer[j].committed
        /\ t(j).claimed = installer[j].claimed /\ t(j).moved = installer[j].moved
        /\ t(j).whole = installer[j].whole /\ t(j).alone = (installer[j].alone /\ ~Live(j))
    BY <2>1 DEF StateTyped, StateFields
  <2> HIDE DEF t
  <2>3. (installer[j].alone /\ ~Live(j)) \in BOOLEAN
    OBVIOUS
  <2> QED
    BY <2>1, <2>2, <2>3 DEF StateTyped
<1> HIDE DEF s, t
<1>5. installer'[i] = s /\ \A j \in Installers \ {i} : installer'[j] = t(j)
  BY <1>2
<1>6. ProfileTypeOK'
  BY <1>1, <1>2, <1>3, <1>4, <1>5 DEF ProfileTypeOK
<1>7. \A j \in Installers : Live(j) <=> Running(installer[j])
  BY DEF Live, Running
<1>8. ASSUME NEW j \in Installers, j # i, Running(installer'[j]) PROVE ~installer'[j].alone
  BY <1>4, <1>5, <1>7, <1>8 DEF Running
<1>9. ASSUME installer'[i].alone, NEW j \in Installers, j # i PROVE ~Running(installer'[j])
  BY <1>3, <1>4, <1>5, <1>7, <1>9 DEF Running
<1>10. AloneIsAlone'
  BY <1>8, <1>9 DEF AloneIsAlone
<1>11. ASSUME NEW j \in Installers
       PROVE  /\ InOrder(installer'[j])
              /\ installer'[j].at[1] = "off" => \A r \in Roles : dir'[Stage(j, r)] = {}
  <2>1. CASE j = i
    BY <1>3, <1>5, <2>1 DEF InOrder, Activating
  <2>2. CASE j # i
    <3>1. installer'[j].at = installer[j].at /\ installer'[j].committed = installer[j].committed
      BY <1>4, <1>5, <2>2
    <3>2. /\ InOrder(installer[j])
          /\ installer[j].at[1] = "off" => \A r \in Roles : dir[Stage(j, r)] = {}
      BY DEF ProfileInv
    <3> QED
      BY <1>1, <3>1, <3>2 DEF InOrder, Taken
  <2> QED
    BY <2>1, <2>2
<1>12. OwnIsNew(i, installer'[i], dir')
  <2>1. \A r \in Roles : dir'[Stage(i, r)] = {}
    BY <1>1 DEF ProfileInv
  <2> QED
    BY <1>3, <1>5, <2>1 DEF OwnIsNew, New, Taken
<1> QED
  BY <1>1, <1>6, <1>8, <1>10, <1>11, <1>12 DEF ProfileInv

(* The owner changes no release and makes no directory of another one. *)
LEMMA OwnerGoesOn ==
  ASSUME ProfileInv, NEW r \in Roles, OwnerTouches(r)
  PROVE  ProfileInv' /\ touched' # touched
<1>1. /\ installer' = installer /\ touched' = TRUE /\ touched = FALSE /\ ProfileTypeOK
  BY DEF OwnerTouches, ProfileInv, ProfileTypeOK
<1> DEFINE fresh == [Made(Nobody) EXCEPT !.strange = TRUE]
           now == IF dir[Root(r)] = {} THEN {fresh} ELSE {[d EXCEPT !.strange = TRUE] : d \in dir[Root(r)]}
<1>2. dir' = [dir EXCEPT ![Root(r)] = now]
  BY DEF OwnerTouches
<1>3. dir[Root(r)] \in SUBSET Directory /\ Root(r) \in Paths
  BY <1>1 DEF ProfileTypeOK, Root, Paths
<1>4. fresh \in Directory /\ fresh.release = "target"
  BY DEF Made, Directory, Owners, Releases
<1>5. ASSUME NEW d \in dir[Root(r)]
      PROVE  [d EXCEPT !.strange = TRUE] \in Directory /\ [d EXCEPT !.strange = TRUE].release = d.release
  BY <1>3 DEF Directory
<1> HIDE DEF fresh
<1>6. now \in SUBSET Directory /\ (New(dir[Root(r)]) => New(now))
  BY <1>4, <1>5 DEF New
<1> HIDE DEF now
<1>7. /\ dir' \in [Paths -> SUBSET Directory] /\ dir'[Root(r)] = now
      /\ \A p \in Paths \ {Root(r)} : dir'[p] = dir[p]
  BY <1>1, <1>2, <1>3, <1>6 DEF ProfileTypeOK
<1>8. ASSUME NEW j \in Installers, NEW q \in Roles
      PROVE  dir'[Stage(j, q)] = dir[Stage(j, q)] /\ (New(dir[Root(q)]) => New(dir'[Root(q)]))
  BY <1>6, <1>7, PathsDiffer
<1>9. ASSUME NEW j \in Installers, OwnIsNew(j, installer[j], dir) PROVE OwnIsNew(j, installer'[j], dir')
  <2>1. Taken(installer[j]) \subseteq Roles /\ installer[j].at[2] \in Roles
    BY <1>1 DEF ProfileTypeOK, StateTyped, Taken
  <2> QED
    BY <1>1, <1>8, <1>9, <2>1 DEF OwnIsNew
<1>10. ProfileTypeOK' /\ AloneIsAlone'
  BY <1>1, <1>7 DEF ProfileInv, ProfileTypeOK, AloneIsAlone
<1> QED
  BY <1>1, <1>8, <1>9, <1>10 DEF ProfileInv

LEMMA ProfileInvInit == ProfileInit => ProfileInv
<1> SUFFICES ASSUME ProfileInit PROVE ProfileInv
  OBVIOUS
<1>1. ASSUME NEW v \in Releases, NEW c \in BOOLEAN PROVE Whole(v, c) \in Directory
  BY DEF Whole, Directory, Owners, Releases
<1>2. PICK was \in [Roles -> {"missing", "legacy", "accepted", "target"}], cordis \in BOOLEAN :
        dir = [p \in Paths |-> {Whole(was[r], cordis /\ r = "runner") :
                                  r \in {q \in Roles : p = Root(q) /\ was[q] # "missing"}}]
  BY DEF ProfileInit
<1>3. dir \in [Paths -> SUBSET Directory]
  <2>1. ASSUME NEW r \in Roles, was[r] # "missing"
        PROVE  Whole(was[r], cordis /\ r = "runner") \in Directory
    <3>1. was[r] \in Releases /\ (cordis /\ r = "runner") \in BOOLEAN
      BY <2>1 DEF Releases
    <3> QED
      BY <1>1, <3>1
  <2> QED
    BY <1>2, <2>1
<1>4. StateTyped(Fresh) /\ Fresh.at = <<"off", "runner">> /\ Fresh.committed = {}
  BY DEF Fresh, StateTyped, StateFields, ProfileSteps, Activating, Roles
<1>5. ProfileTypeOK
  BY <1>3, <1>4 DEF ProfileInit, ProfileTypeOK
<1>6. ASSUME NEW i \in Installers
      PROVE  /\ ~Running(installer[i]) /\ InOrder(installer[i])
             /\ \A r \in Roles : dir[Stage(i, r)] = {}
  <2>1. installer[i] = Fresh
    BY DEF ProfileInit
  <2>2. \A r \in Roles : dir[Stage(i, r)] = {}
    BY <1>2, PathsDiffer
  <2> QED
    BY <1>4, <2>1, <2>2 DEF Running, InOrder, Activating
<1> QED
  BY <1>5, <1>6 DEF ProfileInv, AloneIsAlone

LEMMA ProfileInvNext == ProfileInv /\ [ProfileNext]_pvars => ProfileInv'
<1> SUFFICES ASSUME ProfileInv, [ProfileNext]_pvars PROVE ProfileInv'
  OBVIOUS
<1>1. ASSUME NEW i \in Installers, Install(i), ~Start(i) PROVE ProfileInv'
  BY <1>1, InstallGood, StepGoesOn DEF StepIsGood
<1>2. ASSUME NEW i \in Installers, Start(i) PROVE ProfileInv'
  BY <1>2, StartGoesOn
<1>3. ASSUME NEW r \in Roles, OwnerTouches(r) PROVE ProfileInv'
  BY <1>3, OwnerGoesOn
<1>4. CASE UNCHANGED pvars
  BY <1>4 DEF pvars, ProfileInv, ProfileTypeOK, AloneIsAlone
<1> QED
  BY <1>1, <1>2, <1>3, <1>4 DEF ProfileNext

(***************************************************************************)
(* Profile roots, stages and backups hold directories, and installations   *)
(* keep their types.                                                       *)
(***************************************************************************)
THEOREM ProfilesTyped == ProfileSpec => []ProfileTypeOK
<1>1. ProfileInv => ProfileTypeOK
  BY DEF ProfileInv
<1> QED
  BY <1>1, ProfileInvInit, ProfileInvNext, PTL DEF ProfileSpec

(***************************************************************************)
(* However many installations overlap, fail or die: the last copy of a     *)
(* predecessor only goes when an installation succeeds, by the owner's     *)
(* hand, or under an installation that was not alone and claims, or takes  *)
(* back, what another has put at the root (replaceExistingProfile,         *)
(* activateClaimedMissingProfile, rollbackCommittedProfiles).              *)
(***************************************************************************)
THEOREM PredecessorsSurvive == ProfileSpec => PredecessorOutlivesFailure
<1>1. ProfileInv /\ [ProfileNext]_pvars =>
        [\A r \in Roles : Predecessor(r) /\ ~Predecessor(r)' =>
           \/ \E i \in Installers : installer'[i].at[1] = "done" /\ installer[i].at[1] # "done"
           \/ \E i \in Installers : installer[i].at \in {"move", "unclaim", "undo"} \X {r} /\ ~installer[i].alone
           \/ touched' # touched]_pvars
  <2> SUFFICES ASSUME ProfileInv, ProfileNext, NEW r \in Roles, Predecessor(r), ~Predecessor(r)'
               PROVE  \/ \E i \in Installers : Excused(i, r)
                      \/ touched' # touched
    BY DEF Excused
  <2>1. ASSUME NEW i \in Installers, Install(i), ~Start(i) PROVE Excused(i, r)
    BY <2>1, InstallGood DEF StepIsGood, Shelters
  <2>2. ASSUME NEW i \in Installers, Start(i) PROVE FALSE
    <3>1. dir' = dir
      BY <2>2, StartGoesOn
    <3> QED
      BY <3>1, Carried
  <2>3. ASSUME NEW q \in Roles, OwnerTouches(q) PROVE touched' # touched
    BY <2>3, OwnerGoesOn
  <2> QED
    BY <2>1, <2>2, <2>3 DEF ProfileNext
<1> QED
  BY <1>1, ProfileInvInit, ProfileInvNext, PTL DEF ProfileSpec, PredecessorOutlivesFailure

-----------------------------------------------------------------------------
(***************************************************************************)
(* All or nothing.  An installation that is alone knows what is at its     *)
(* three paths of a role from where it stands (Shape): before a role is    *)
(* activated its root is what was captured, once it is committed the root  *)
(* is the new release and what was captured is in the backup, and after it *)
(* has been taken back the root is what was captured.  The owner can only  *)
(* make a root strange, and a strange root stays strange or is replaced by *)
(* what was captured.                                                      *)
(***************************************************************************)
Single(ds) == \A x, y \in ds : x = y
Strange(ds) == \E x \in ds : x.strange
Ours(ds, plain) ==
  \E x \in ds : /\ ds = {x} /\ x.release = "target" /\ x.has = Parts /\ ~x.strange
                /\ plain => x.marker = "none"

(* A root that was claimed and is being filled. *)
Opened(ds, marker, has) ==
  \E x \in ds : /\ ds = {x} /\ x.release = "target" /\ x.has = has /\ x.marker = marker /\ ~x.strange

Exchanging == {"swap", "compare", "place"}

(* A role has been captured. *)
Captured(s, r) == s.at[1] = "preflight" => s.at[2] = "author" /\ r = "runner"

(* Where an installation stands with one role. *)
Phase(s, r) ==
  IF ~Captured(s, r) THEN "open"
  ELSE IF s.at[1] \in Activating /\ s.at[2] = r THEN s.at[1]
  ELSE IF r \in Taken(s) THEN "taken"
  ELSE IF s.at = <<"restore", r>> THEN "restore"
  ELSE IF s.at[1] = "sweep" /\ s.whole THEN "through"
  ELSE IF s.at[1] \in Undoing THEN "back"
  ELSE "waiting"

(* What an installation knows of itself, alone or not. *)
Course(s) ==
  /\ \A r \in Roles : Captured(s, r) =>
       s.found[r] = Inspect(s.snapshot[r]) /\ s.found[r] # "invalid" /\ Single(s.snapshot[r])
  /\ s.at[1] \notin Undoing => s.whole
  /\ s.at[1] \in {"undo", "restore"} => ~s.whole
  /\ s.claimed \subseteq s.committed
  /\ s.at[1] \in {"staging", "recheck"} \cup Activating =>
       s.committed \subseteq Replaced(s.found) /\ Replaced(s.found) # {}
  /\ s.at[1] \in Activating =>
       /\ s.at[2] \in Replaced(s.found)
       /\ s.at[2] = "author" => Replaced(s.found) \ {"author"} \subseteq s.committed
       /\ s.snapshot[s.at[2]] = {} <=> s.at[1] \notin Exchanging
  /\ s.at[1] \in {"verify", "unmark"} \/ (s.at[1] = "sweep" /\ s.whole) =>
       s.committed = Replaced(s.found)
  /\ s.at[1] \notin {"move", "unclaim", "release"} \cup Undoing => s.moved = {}
  /\ s.at[1] = "move" => s.moved \in {{}, {"early"}, {"early", "modules"}}

(* What is at the root, the stage and the backup of a role of which was    *)
(* was captured.                                                           *)
Form(i, phase, was, root, stage, backup, staged, moved, plain) ==
  /\ phase \in {"open", "waiting", "swap", "claim", "mark", "write", "move"} => backup = {}
  /\ phase \in {"waiting", "swap", "claim", "back"} => root = was \/ Strange(root)
  /\ phase \in {"compare", "place", "restore"} => root = {} \/ Strange(root)
  /\ phase = "compare" => backup = was \/ Strange(backup)
  /\ phase \in {"place", "taken", "restore"} => backup = was
  /\ phase \in {"swap", "claim", "compare", "place"} \/ (phase = "waiting" /\ staged) =>
       Ours(stage, TRUE)
  /\ phase = "mark" => Opened(root, "none", {}) \/ Strange(root)
  /\ phase = "write" => Opened(root, i, {}) \/ Strange(root)
  /\ phase = "move" => Opened(root, "whole", moved) \/ Strange(root)
  /\ phase \in {"unclaim", "release"} => Strange(root)
  /\ phase = "taken" => stage = {} /\ (Ours(root, plain) \/ Strange(root))
  /\ phase = "through" => Inspect(root) = "target" \/ Strange(root)

Staged(s, r) == s.at[1] \notin {"preflight", "staging"} /\ r \in Replaced(s.found)
Plain(s, r) == r \notin s.claimed \/ (s.at = <<"unmark", "author">> /\ r = "runner")

Shape(i, s, d, r) ==
  Form(i, Phase(s, r), s.snapshot[r], d[Root(r)], d[Stage(i, r)], d[Backup(i, r)],
       Staged(s, r), s.moved, Plain(s, r))

InstallInv ==
  /\ ProfileInv
  /\ \A p \in Paths : Single(dir[p])
  /\ \A i \in Installers :
       /\ installer[i].at[1] = "off" => \A r \in Roles : dir[Backup(i, r)] = {}
       /\ Running(installer[i]) => Course(installer[i])
       /\ Running(installer[i]) /\ installer[i].alone => \A r \in Roles : Shape(i, installer[i], dir, r)

(* What a step of an installation must do for this to go on. *)
Tidy(i) ==
  /\ \A p \in Paths : Single(dir'[p])
  /\ \A j \in Installers \ {i}, q \in Roles : dir[Backup(j, q)] = {} => dir'[Backup(j, q)] = {}

Proceeds(i) ==
  Running(installer'[i]) =>
    /\ Course(installer'[i])
    /\ installer[i].alone => \A q \in Roles : Shape(i, installer'[i], dir', q)

(* A step leaves the paths of a role alone. *)
Spares(i, q) ==
  dir'[Root(q)] = dir[Root(q)] /\ dir'[Stage(i, q)] = dir[Stage(i, q)] /\ dir'[Backup(i, q)] = dir[Backup(i, q)]

LEMMA InstallGoesOn ==
  ASSUME InstallInv, NEW i \in Installers, StepIsGood(i), Tidy(i), Proceeds(i)
  PROVE  InstallInv'
<1>1. ProfileInv' /\ StateGoesOn(i)
  BY StepGoesOn DEF StepIsGood, InstallInv
<1>2. \A j \in Installers : Running(installer'[j]) =>
        Running(installer[j]) /\ installer'[j].alone = installer[j].alone
  BY <1>1 DEF StateGoesOn, OthersStay, StepIsGood
<1>3. ASSUME NEW j \in Installers
      PROVE  /\ installer'[j].at[1] = "off" => \A r \in Roles : dir'[Backup(j, r)] = {}
             /\ Running(installer'[j]) => Course(installer'[j])
  <2>1. CASE j = i
    BY <1>1, <2>1 DEF StateGoesOn, Proceeds
  <2>2. CASE j # i
    <3>1. installer'[j] = installer[j]
      BY <1>1, <2>2 DEF StateGoesOn, OthersStay
    <3> QED
      BY <2>2, <3>1 DEF InstallInv, Tidy
  <2> QED
    BY <2>1, <2>2
<1>4. ASSUME NEW j \in Installers, Running(installer'[j]), installer'[j].alone, NEW r \in Roles
      PROVE  Shape(j, installer'[j], dir', r)
  <2>1. CASE j = i
    BY <1>2, <1>4, <2>1 DEF Proceeds
  <2>2. CASE j # i
    BY <1>2, <1>4, <2>2 DEF InstallInv, ProfileInv, AloneIsAlone, StepIsGood
  <2> QED
    BY <2>1, <2>2
<1>5. \A p \in Paths : Single(dir'[p])
  BY DEF Tidy
<1> QED
  BY <1>1, <1>3, <1>4, <1>5 DEF InstallInv

(* What is known weakens with what is asked. *)
LEMMA FormWeakens ==
  ASSUME NEW i, NEW phase, NEW was, NEW root, NEW stage, NEW backup, NEW staged, NEW moved, NEW plain,
         NEW staged2, NEW moved2, NEW plain2,
         Form(i, phase, was, root, stage, backup, staged, moved, plain),
         phase = "waiting" /\ staged2 => staged, phase = "taken" /\ plain2 => plain,
         phase = "move" => moved2 = moved
  PROVE  Form(i, phase, was, root, stage, backup, staged2, moved2, plain2)
BY DEF Form, Ours

(* The other role, in a step of one. *)
LEMMA OtherState ==
  ASSUME NEW i, NEW q \in Roles, NEW s, NEW t, NEW d, Shape(i, s, d, q),
         Phase(t, q) = Phase(s, q), t.snapshot = s.snapshot, t.found = s.found,
         Phase(s, q) # "move", s.at[1] \notin {"preflight", "staging"},
         q \in s.claimed => q \in t.claimed, t.at # <<"unmark", "author">>
  PROVE  Shape(i, t, d, q)
<1>1. Form(i, Phase(s, q), s.snapshot[q], d[Root(q)], d[Stage(i, q)], d[Backup(i, q)],
           Staged(s, q), s.moved, Plain(s, q))
  BY DEF Shape
<1>2. Staged(t, q) => Staged(s, q)
  BY DEF Staged
<1>3. Plain(t, q) => Plain(s, q)
  BY DEF Plain
<1>4. Form(i, Phase(s, q), s.snapshot[q], d[Root(q)], d[Stage(i, q)], d[Backup(i, q)],
           Staged(t, q), t.moved, Plain(t, q))
  BY <1>1, <1>2, <1>3, FormWeakens
<1> QED
  BY <1>4 DEF Shape

(* A step leaves what is known of a role. *)
Remains(i, q) == Shape(i, installer[i], dir, q) => Shape(i, installer[i], dir', q)

LEMMA SparedRemains ==
  ASSUME NEW i, NEW q, Spares(i, q)
  PROVE  Remains(i, q)
BY DEF Spares, Remains, Shape

LEMMA OtherRole ==
  ASSUME NEW i, NEW q \in Roles, NEW t, Shape(i, installer[i], dir, q), Remains(i, q),
         Phase(t, q) = Phase(installer[i], q), t.snapshot = installer[i].snapshot,
         t.found = installer[i].found, Phase(installer[i], q) # "move",
         installer[i].at[1] \notin {"preflight", "staging"},
         q \in installer[i].claimed => q \in t.claimed, t.at # <<"unmark", "author">>
  PROVE  Shape(i, t, dir', q)
BY OtherState DEF Remains

LEMMA PhaseIs ==
  ASSUME NEW s, NEW r \in Roles, NEW q \in Roles, s.at[1] \in Activating, s.at[2] = r
  PROVE  Phase(s, q) = IF q = r THEN s.at[1] ELSE IF q \in s.committed THEN "taken" ELSE "waiting"
BY DEF Phase, Captured, Activating, Taken, Undoing

LEMMA PhaseUndone ==
  ASSUME NEW s, NEW q \in Roles, s.at[1] \in {"undo", "sweep"}, ~s.whole
  PROVE  Phase(s, q) = IF q \in Taken(s) THEN "taken" ELSE "back"
BY DEF Phase, Captured, Activating, Undoing

(* What an installation that is under way knows. *)
LEMMA Knows ==
  ASSUME InstallInv, NEW i \in Installers, Running(installer[i])
  PROVE  /\ ProfileTypeOK /\ StateTyped(installer[i]) /\ Course(installer[i])
         /\ installer[i].alone => \A q \in Roles : Shape(i, installer[i], dir, q)
BY DEF InstallInv, ProfileInv, ProfileTypeOK

LEMMA TidyStill ==
  ASSUME InstallInv, NEW i \in Installers, dir' = dir
  PROVE  Tidy(i) /\ \A q \in Roles : Spares(i, q)
BY DEF Tidy, InstallInv, Spares

(* A rename between the paths of a role of one installation. *)
LEMMA TidyRename ==
  ASSUME InstallInv, NEW i \in Installers, NEW r \in Roles,
         NEW from \in {Root(r), Stage(i, r), Backup(i, r)}, NEW to \in {Root(r), Stage(i, r), Backup(i, r)},
         from # to, CanRename(from, to), dir' = Renamed(from, to)
  PROVE  /\ Tidy(i) /\ dir'[to] = dir[from] /\ dir'[from] = {}
         /\ \A p \in Paths \ {from, to} : dir'[p] = dir[p]
         /\ \A q \in Roles \ {r} : Spares(i, q)
<1>1. /\ dir'[to] = dir[from] /\ dir'[from] = {} /\ from \in Paths /\ to \in Paths
      /\ \A p \in Paths \ {from, to} : dir'[p] = dir[p]
  BY RenameGoesOn, PathsDiffer DEF InstallInv
<1>2. \A p \in Paths : Single(dir'[p])
  <2>1. ASSUME NEW p \in Paths PROVE Single(dir'[p])
    <3>1. dir'[p] \in {dir[p], dir[from], {}}
      BY <1>1
    <3> QED
      BY <1>1, <3>1 DEF InstallInv, Single
  <2> QED
    BY <2>1
<1>3. ASSUME NEW j \in Installers \ {i}, NEW q \in Roles PROVE dir'[Backup(j, q)] = dir[Backup(j, q)]
  <2>1. /\ Backup(j, q) \in Paths /\ Backup(j, q) # Root(r) /\ Backup(j, q) # Stage(i, r)
        /\ Backup(j, q) # Backup(i, r)
    BY PathsDiffer
  <2> QED
    BY <1>1, <2>1
<1>4. ASSUME NEW q \in Roles \ {r} PROVE Spares(i, q)
  <2>1. \A p \in {Root(q), Stage(i, q), Backup(i, q)} :
          p \in Paths /\ p \notin {Root(r), Stage(i, r), Backup(i, r)}
    BY DEF Paths, Root, Stage, Backup
  <2> QED
    BY <1>1, <2>1 DEF Spares
<1> QED
  BY <1>1, <1>2, <1>3, <1>4 DEF Tidy

(* A change of what is at one root. *)
LEMMA TidyRoot ==
  ASSUME InstallInv, NEW i \in Installers, NEW r \in Roles, NEW ds, Single(ds),
         dir' = [dir EXCEPT ![Root(r)] = ds]
  PROVE  /\ Tidy(i) /\ dir'[Root(r)] = ds /\ dir'[Stage(i, r)] = dir[Stage(i, r)]
         /\ dir'[Backup(i, r)] = dir[Backup(i, r)]
         /\ \A q \in Roles \ {r} : Spares(i, q)
<1>1. Root(r) \in Paths /\ DOMAIN dir = Paths
  BY PathsDiffer DEF InstallInv, ProfileInv, ProfileTypeOK
<1>2. dir'[Root(r)] = ds /\ \A p \in Paths \ {Root(r)} : dir'[p] = dir[p]
  BY <1>1
<1>3. ASSUME NEW j \in Installers, NEW q \in Roles
      PROVE  dir'[Backup(j, q)] = dir[Backup(j, q)] /\ dir'[Stage(j, q)] = dir[Stage(j, q)]
  BY <1>2, PathsDiffer
<1>4. ASSUME NEW q \in Roles \ {r} PROVE dir'[Root(q)] = dir[Root(q)]
  BY <1>2, PathsDiffer
<1> QED
  BY <1>2, <1>3, <1>4 DEF Tidy, Spares, InstallInv

(* From one step of the activation of a role to another. *)
LEMMA Turning ==
  ASSUME InstallInv, NEW i \in Installers, NEW r \in Roles, NEW step \in Activating, NEW next \in Activating,
         NEW moved, installer[i].at = <<step, r>>,
         Becomes(i, <<next, r>>, installer[i].committed, installer[i].claimed, moved, installer[i].whole),
         step \in Exchanging <=> next \in Exchanging,
         next \notin {"move", "unclaim", "release"} => moved = {},
         next = "move" => moved \in {{}, {"early"}, {"early", "modules"}},
         installer[i].alone =>
           /\ \A q \in Roles \ {r} : Remains(i, q)
           /\ Form(i, next, installer[i].snapshot[r], dir'[Root(r)], dir'[Stage(i, r)], dir'[Backup(i, r)],
                   TRUE, moved, TRUE)
  PROVE  Proceeds(i)
<1> DEFINE s == installer[i]
           t == installer'[i]
<1>1. /\ s.at[1] = step /\ s.at[2] = r /\ Running(s) /\ step \notin Undoing
      /\ step \notin {"preflight", "staging"}
  BY DEF Running, Activating, Undoing
<1>2. /\ t.at = <<next, r>> /\ t.found = s.found /\ t.snapshot = s.snapshot /\ t.committed = s.committed
      /\ t.claimed = s.claimed /\ t.moved = moved /\ t.whole = s.whole
  BY DEF Becomes
<1>3. Course(s) /\ (s.alone => \A q \in Roles : Shape(i, s, dir, q))
  BY <1>1, Knows
<1>4. t.at[1] = next /\ t.at[2] = r /\ next \notin Undoing /\ next \notin {"preflight", "staging"}
  BY <1>2 DEF Activating, Undoing
<1> HIDE DEF t
<1>5. Course(t)
  <2> HIDE DEF s
  <2> QED
    BY <1>1, <1>2, <1>3, <1>4 DEF Course, Captured, Activating, Replaced
<1>6. ASSUME s.alone, NEW q \in Roles PROVE Shape(i, t, dir', q)
  <2>1. CASE q = r
    <3>1. Phase(t, r) = next
      BY <1>4, PhaseIs
    <3>2. Form(i, next, t.snapshot[r], dir'[Root(r)], dir'[Stage(i, r)], dir'[Backup(i, r)],
               Staged(t, r), t.moved, Plain(t, r))
      <4>1. Form(i, next, t.snapshot[r], dir'[Root(r)], dir'[Stage(i, r)], dir'[Backup(i, r)],
                 TRUE, t.moved, TRUE)
        BY <1>2, <1>6
      <4> QED
        BY <4>1, FormWeakens
    <3> QED
      BY <2>1, <3>1, <3>2 DEF Shape
  <2>2. CASE q # r
    <3> HIDE DEF s
    <3>1. Phase(s, q) = Phase(t, q) /\ Phase(s, q) # "move"
      BY <1>1, <1>2, <1>4, <2>2, PhaseIs
    <3>2. t.at # <<"unmark", "author">>
      BY <1>4 DEF Activating
    <3>3. Shape(i, s, dir, q) /\ Remains(i, q)
      BY <1>3, <1>6, <2>2 DEF s
    <3> QED
      BY <1>1, <1>2, <3>1, <3>2, <3>3, OtherRole DEF s
  <2> QED
    BY <2>1, <2>2
<1> QED
  BY <1>5, <1>6 DEF Proceeds, t

LEMMA TurnProceeds ==
  ASSUME InstallInv, NEW i \in Installers, NEW r \in Roles, NEW step \in Activating, NEW next \in Activating,
         installer[i].at = <<step, r>>, Goes(i, <<next, r>>),
         step \in Exchanging <=> next \in Exchanging,
         step \in {"move", "unclaim", "release"} => next \in {"unclaim", "release"},
         \A q \in Roles \ {r} : Spares(i, q),
         installer[i].alone =>
           Form(i, next, installer[i].snapshot[r], dir'[Root(r)], dir'[Stage(i, r)], dir'[Backup(i, r)],
                TRUE, installer[i].moved, TRUE)
  PROVE  Proceeds(i)
<1>1. installer[i].at[1] = step /\ Running(installer[i]) /\ step \notin Undoing
  BY DEF Running, Activating, Undoing
<1>2. step \notin {"move", "unclaim", "release"} => installer[i].moved = {}
  <2>1. Course(installer[i])
    BY <1>1, Knows
  <2> QED
    BY <1>1, <2>1 DEF Course
<1>3. \A q \in Roles \ {r} : Remains(i, q)
  BY SparedRemains
<1>4. Becomes(i, <<next, r>>, installer[i].committed, installer[i].claimed, installer[i].moved,
              installer[i].whole)
  BY DEF Goes
<1>5. /\ next \notin {"move", "unclaim", "release"} => installer[i].moved = {}
      /\ next = "move" => installer[i].moved \in {{}, {"early"}, {"early", "modules"}}
  BY <1>2
<1> QED
  BY <1>3, <1>4, <1>5, Turning

(* An error: the committed roots are to be taken back, the others are what *)
(* they were.                                                              *)
LEMMA AbortProceeds ==
  ASSUME InstallInv, NEW i \in Installers, Aborts(i), Running(installer[i]),
         installer[i].at[1] \notin Undoing \cup {"preflight", "staging"},
         installer[i].alone => \A q \in Roles :
           IF q \in installer[i].committed THEN Spares(i, q)
           ELSE dir'[Root(q)] = installer[i].snapshot[q] \/ Strange(dir'[Root(q)])
  PROVE  Proceeds(i)
<1> DEFINE s == installer[i]
           t == installer'[i]
<1>1. /\ t.at = NextUndo(s.committed) /\ t.found = s.found /\ t.snapshot = s.snapshot
      /\ t.committed = s.committed /\ t.claimed = s.claimed /\ t.moved = s.moved /\ t.whole = FALSE
  BY DEF Aborts, Becomes
<1>2. Course(s) /\ (s.alone => \A q \in Roles : Shape(i, s, dir, q)) /\ s.committed \subseteq Roles
  BY Knows DEF StateTyped
<1> HIDE DEF s, t
<1>3. /\ t.at[1] \in {"undo", "sweep"} /\ t.at # <<"unmark", "author">>
      /\ Taken(t) = s.committed
  <2>1. CASE s.committed = {}
    BY <1>1, <2>1, NextUndoIs DEF Taken
  <2>2. CASE "author" \in s.committed
    <3>1. t.at = <<"undo", "author">>
      BY <1>1, <1>2, <2>2, NextUndoIs
    <3>2. t.at[1] = "undo" /\ t.at[2] = "author"
      BY <3>1
    <3> QED
      BY <1>1, <3>1, <3>2 DEF Taken
  <2>3. CASE s.committed = {"runner"}
    <3>1. t.at = <<"undo", "runner">>
      BY <1>1, <2>3 DEF NextUndo
    <3>2. t.at[1] = "undo" /\ t.at[2] = "runner"
      BY <3>1
    <3> QED
      BY <1>1, <2>3, <3>1, <3>2 DEF Taken
  <2> QED
    BY <1>2, <2>1, <2>2, <2>3 DEF Roles
<1>4. Course(t)
  BY <1>1, <1>2, <1>3 DEF Course, Captured, Activating, Undoing, s
<1>5. ASSUME s.alone, NEW q \in Roles PROVE Shape(i, t, dir', q)
  <2>1. CASE q \in s.committed
    <3>1. Phase(t, q) = "taken"
      BY <1>1, <1>3, <2>1, PhaseUndone
    <3>2. q \in Taken(s)
      BY <2>1 DEF Taken, Undoing, s
    <3>3. Phase(s, q) \in Activating \cup {"taken"}
      BY <3>2 DEF Phase, Captured, s
    <3>4. s.at[1] \in Activating => s.at[2] # q
      BY <2>1 DEF InstallInv, ProfileInv, InOrder, s
    <3>5. Phase(s, q) = "taken"
      BY <3>2, <3>4 DEF Phase, Captured, s
    <3> QED
      BY <1>1, <1>2, <1>3, <1>5, <2>1, <3>1, <3>5, OtherRole, SparedRemains DEF s
  <2>2. CASE q \notin s.committed
    <3>1. Phase(t, q) = "back"
      BY <1>1, <1>3, <2>2, PhaseUndone
    <3>2. Form(i, "back", t.snapshot[q], dir'[Root(q)], dir'[Stage(i, q)], dir'[Backup(i, q)],
               Staged(t, q), t.moved, Plain(t, q))
      BY <1>1, <1>5, <2>2 DEF Form, s
    <3> QED
      BY <3>1, <3>2 DEF Shape
  <2> QED
    BY <2>1, <2>2
<1> QED
  BY <1>4, <1>5 DEF Proceeds, s, t

(* A role is committed, and the next one is activated or all are verified. *)
LEMMA CommitProceeds ==
  ASSUME InstallInv, NEW i \in Installers, NEW r \in Roles, NEW step \in {"place", "move"},
         NEW claimed, installer[i].at = <<step, r>>,
         Becomes(i, NextActivation(i, r), installer[i].committed \cup {r}, claimed, {},
                 installer[i].whole),
         installer[i].claimed \subseteq claimed, claimed \subseteq installer[i].claimed \cup {r},
         \A q \in Roles \ {r} : Spares(i, q),
         installer[i].alone =>
           Form(i, "taken", installer[i].snapshot[r], dir'[Root(r)], dir'[Stage(i, r)],
                dir'[Backup(i, r)], TRUE, {}, r \notin claimed)
  PROVE  Proceeds(i)
<1> DEFINE s == installer[i]
           t == installer'[i]
<1>1. /\ s.at[1] = step /\ s.at[2] = r /\ Running(s) /\ step \in Activating /\ step \notin Undoing
      /\ step \notin {"preflight", "staging"}
  BY DEF Running, Activating, Undoing
<1>2. /\ t.at = NextActivation(i, r) /\ t.found = s.found /\ t.snapshot = s.snapshot
      /\ t.committed = s.committed \cup {r} /\ t.claimed = claimed /\ t.moved = {} /\ t.whole = s.whole
      /\ s.claimed \subseteq t.claimed
  BY DEF Becomes
<1>3. /\ Course(s) /\ (s.alone => \A q \in Roles : Shape(i, s, dir, q)) /\ s.committed \subseteq Roles
      /\ r \notin s.committed /\ (r = "runner" => s.committed = {})
  BY <1>1, Knows DEF StateTyped, InstallInv, ProfileInv, InOrder
<1>4. s.whole /\ r \in Replaced(s.found) /\ s.committed \subseteq Replaced(s.found)
      /\ (r = "author" => Replaced(s.found) \ {"author"} \subseteq s.committed)
      /\ claimed \subseteq t.committed /\ Replaced(s.found) \subseteq Roles
  BY <1>1, <1>2, <1>3 DEF Course, Replaced
<1>5. \A q \in Roles : /\ s.found[q] = Inspect(s.snapshot[q]) /\ s.found[q] # "invalid"
                       /\ Single(s.snapshot[q])
  BY <1>1, <1>3 DEF Course, Captured
<1>6. /\ s.alone => \A q \in Roles \ {r} : Shape(i, s, dir, q)
      /\ s.alone => \A q \in Roles \ {r} : Spares(i, q)
  BY <1>3 DEF s
<1>7. s.alone => Form(i, "taken", t.snapshot[r], dir'[Root(r)], dir'[Stage(i, r)],
                      dir'[Backup(i, r)], TRUE, {}, r \notin t.claimed)
  BY <1>2 DEF s
<1>8. \/ /\ r = "runner" /\ "author" \in Replaced(s.found)
         /\ t.at = IF s.snapshot["author"] = {} THEN <<"claim", "author">> ELSE <<"swap", "author">>
      \/ /\ t.at = <<"verify", "runner">>
         /\ r = "runner" => "author" \notin Replaced(s.found)
  BY <1>2 DEF NextActivation, Activate, s
<1> HIDE DEF s, t
<1>9. CASE /\ r = "runner" /\ "author" \in Replaced(s.found)
           /\ t.at = IF s.snapshot["author"] = {} THEN <<"claim", "author">> ELSE <<"swap", "author">>
  <2>1. PICK to \in {"claim", "swap"} : /\ t.at = <<to, "author">> /\ t.at[1] = to /\ t.at[2] = "author"
                                        /\ to = "claim" <=> t.snapshot["author"] = {}
    <3>1. CASE s.snapshot["author"] = {}
      <4>1. t.at = <<"claim", "author">>
        BY <1>9, <3>1
      <4>2. t.at[1] = "claim" /\ t.at[2] = "author" /\ t.snapshot["author"] = {}
        BY <1>2, <3>1, <4>1
      <4> QED
        BY <4>1, <4>2
    <3>2. CASE s.snapshot["author"] # {}
      <4>1. t.at = <<"swap", "author">>
        BY <1>9, <3>2
      <4>2. t.at[1] = "swap" /\ t.at[2] = "author" /\ t.snapshot["author"] # {}
        BY <1>2, <3>2, <4>1
      <4> QED
        BY <4>1, <4>2
    <3> QED
      BY <3>1, <3>2
  <2>2. to \in Activating /\ to \notin Undoing /\ (to \in Exchanging <=> to = "swap")
    BY <2>1 DEF Activating, Undoing, Exchanging
  <2>3. Course(t)
    BY <1>2, <1>3, <1>4, <1>5, <1>9, <2>1, <2>2 DEF Course, Captured, Roles, Activating
  <2>4. ASSUME s.alone, NEW q \in Roles PROVE Shape(i, t, dir', q)
    <3>1. CASE q = r
      <4>1. Phase(t, q) = "taken"
        BY <1>2, <1>9, <2>1, <2>2, <3>1, PhaseIs DEF Roles
      <4>2. Plain(t, q) <=> r \notin t.claimed
        BY <2>1, <3>1 DEF Plain
      <4>3. Form(i, "taken", t.snapshot[r], dir'[Root(r)], dir'[Stage(i, r)],
                 dir'[Backup(i, r)], Staged(t, r), t.moved, Plain(t, q))
        BY <1>7, <2>4, <4>2, FormWeakens
      <4> QED
        BY <3>1, <4>1, <4>3 DEF Shape
    <3>2. CASE q # r
      <4>1. q = "author"
        BY <1>9, <3>2 DEF Roles
      <4>2. Phase(t, q) = to
        BY <2>1, <2>2, <4>1, PhaseIs
      <4>3. Phase(s, q) = "waiting"
        BY <1>1, <1>3, <1>9, <3>2, PhaseIs
      <4>4. Staged(s, q)
        BY <1>1, <1>9, <4>1 DEF Staged
      <4>5. Form(i, "waiting", s.snapshot[q], dir[Root(q)], dir[Stage(i, q)], dir[Backup(i, q)],
                 Staged(s, q), s.moved, Plain(s, q)) /\ Spares(i, q)
        BY <1>6, <2>4, <3>2, <4>3 DEF Shape
      <4>6. Form(i, to, s.snapshot[q], dir[Root(q)], dir[Stage(i, q)], dir[Backup(i, q)],
                 Staged(t, q), t.moved, Plain(t, q))
        BY <2>1, <4>4, <4>5 DEF Form
      <4> QED
        BY <1>2, <4>2, <4>5, <4>6 DEF Shape, Spares
    <3> QED
      BY <3>1, <3>2
  <2> QED
    BY <2>3, <2>4 DEF Proceeds, s, t
<1>10. CASE /\ t.at = <<"verify", "runner">>
            /\ r = "runner" => "author" \notin Replaced(s.found)
  <2>1. t.at[1] = "verify" /\ t.at[2] = "runner"
    BY <1>10
  <2>2. t.committed = Replaced(t.found)
    BY <1>2, <1>4, <1>10 DEF Roles
  <2>3. Course(t)
    BY <1>2, <1>3, <1>4, <1>5, <2>1, <2>2 DEF Course, Captured, Activating, Undoing
  <2>4. ASSUME NEW q \in Roles
        PROVE  Phase(t, q) = IF q \in t.committed THEN "taken" ELSE "waiting"
    BY <2>1 DEF Phase, Captured, Activating, Undoing, Taken
  <2>5. ASSUME s.alone, NEW q \in Roles PROVE Shape(i, t, dir', q)
    <3>1. CASE q = r
      <4>1. Phase(t, q) = "taken"
        BY <1>2, <2>4, <3>1
      <4>2. Plain(t, q) <=> r \notin t.claimed
        BY <1>10, <3>1 DEF Plain
      <4>3. Form(i, "taken", t.snapshot[r], dir'[Root(r)], dir'[Stage(i, r)],
                 dir'[Backup(i, r)], Staged(t, r), t.moved, Plain(t, q))
        BY <1>7, <2>5, <4>2, FormWeakens
      <4> QED
        BY <3>1, <4>1, <4>3 DEF Shape
    <3>2. CASE q # r
      <4>1. Phase(s, q) = Phase(t, q) /\ Phase(s, q) # "move"
        BY <1>1, <1>2, <2>4, <3>2, PhaseIs
      <4>2. t.at # <<"unmark", "author">>
        BY <1>10
      <4> QED
        BY <1>1, <1>2, <1>3, <1>6, <2>5, <3>2, <4>1, <4>2, OtherRole, SparedRemains DEF s
    <3> QED
      BY <3>1, <3>2
  <2> QED
    BY <2>3, <2>5 DEF Proceeds, s, t
<1> QED
  BY <1>8, <1>9, <1>10 DEF s, t

(* A committed role has been taken back, or nothing could be: the next one *)
(* is to be taken back, or all have been.                                  *)
LEMMA UndoneProceeds ==
  ASSUME InstallInv, NEW i \in Installers, NEW r \in Roles, NEW step \in {"undo", "restore"},
         installer[i].at = <<step, r>>,
         Goes(i, NextUndo(installer[i].committed \ {r, "author"})),
         \A q \in Roles \ {r} : Spares(i, q),
         installer[i].alone =>
           dir'[Root(r)] = installer[i].snapshot[r] \/ Strange(dir'[Root(r)])
  PROVE  Proceeds(i)
<1> DEFINE s == installer[i]
           t == installer'[i]
           left == s.committed \ {r, "author"}
<1>1. s.at[1] = step /\ s.at[2] = r /\ Running(s) /\ step \in Undoing
  BY DEF Running, Undoing
<1>2. /\ t.at = NextUndo(left) /\ t.found = s.found /\ t.snapshot = s.snapshot
      /\ t.committed = s.committed /\ t.claimed = s.claimed /\ t.moved = s.moved /\ t.whole = s.whole
  BY DEF Goes, Becomes
<1>3. Course(s) /\ (s.alone => \A q \in Roles : Shape(i, s, dir, q)) /\ s.committed \subseteq Roles
  BY <1>1, Knows DEF StateTyped
<1>4. ~s.whole /\ left \subseteq {"runner"} /\ (left # {} => r = "author" /\ left = {"runner"})
  BY <1>1, <1>3 DEF Course, Roles
<1> HIDE DEF s, t, left
<1>5. /\ t.at[1] \in {"undo", "sweep"} /\ t.at # <<"unmark", "author">> /\ Taken(t) = left
  <2>1. CASE left = {}
    <3>1. t.at = <<"sweep", "runner">>
      BY <1>2, <2>1 DEF NextUndo
    <3>2. t.at[1] = "sweep"
      BY <3>1
    <3> QED
      BY <2>1, <3>1, <3>2 DEF Taken
  <2>2. CASE left = {"runner"}
    <3>1. t.at = <<"undo", "runner">>
      BY <1>2, <2>2 DEF NextUndo
    <3>2. t.at[1] = "undo" /\ t.at[2] = "runner"
      BY <3>1
    <3>3. "runner" \in t.committed
      BY <1>2, <2>2 DEF left
    <3> QED
      BY <2>2, <3>1, <3>2, <3>3 DEF Taken
  <2> QED
    BY <1>4, <2>1, <2>2
<1>6. Course(t)
  BY <1>1, <1>2, <1>3, <1>4, <1>5 DEF Course, Captured, Activating, Undoing
<1>7. ASSUME s.alone, NEW q \in Roles PROVE Shape(i, t, dir', q)
  <2>1. CASE q \in left
    <3>1. Phase(t, q) = "taken"
      BY <1>2, <1>4, <1>5, <2>1, PhaseUndone
    <3>2. q \in Taken(s) /\ r = "author" /\ q # r
      BY <1>1, <1>4, <2>1 DEF Taken, left
    <3>3. Phase(s, q) = "taken"
      BY <1>1, <3>2 DEF Phase, Captured, Activating
    <3> QED
      BY <1>1, <1>2, <1>3, <1>5, <1>7, <2>1, <3>1, <3>2, <3>3, OtherRole, SparedRemains DEF s
  <2>2. CASE q = r /\ q \notin left
    <3>1. Phase(t, q) = "back"
      BY <1>2, <1>4, <1>5, <2>2, PhaseUndone
    <3>2. Form(i, "back", t.snapshot[q], dir'[Root(q)], dir'[Stage(i, q)], dir'[Backup(i, q)],
               Staged(t, q), t.moved, Plain(t, q))
      BY <1>2, <1>7, <2>2 DEF Form, s
    <3> QED
      BY <3>1, <3>2 DEF Shape
  <2>3. CASE q # r /\ q \notin left
    <3>1. Phase(t, q) = "back"
      BY <1>2, <1>4, <1>5, <2>3, PhaseUndone
    <3>2. q \notin Taken(s)
      BY <1>1, <1>3, <2>3 DEF Taken, left, Roles
    <3>3. s.at # <<"restore", q>>
      BY <1>1, <2>3
    <3>4. Phase(s, q) = "back"
      BY <1>1, <3>2, <3>3 DEF Phase, Captured, Activating, Undoing
    <3> QED
      BY <1>1, <1>2, <1>3, <1>5, <1>7, <2>3, <3>1, <3>4, OtherRole, SparedRemains DEF s
  <2> QED
    BY <2>1, <2>2, <2>3 DEF left
<1> QED
  BY <1>6, <1>7 DEF Proceeds, s, t

(* Where an activation is and what it knows. *)
LEMMA AtStep ==
  ASSUME InstallInv, NEW i \in Installers, NEW r \in Roles, NEW step \in Activating,
         installer[i].at = <<step, r>>
  PROVE  /\ ProfileTypeOK /\ Running(installer[i]) /\ installer[i].at[1] = step
         /\ installer[i].at[1] \notin Undoing \cup {"preflight", "staging"}
         /\ r \notin installer[i].committed /\ r \in Replaced(installer[i].found)
         /\ installer[i].snapshot[r] = {} <=> step \notin Exchanging
         /\ step \notin {"move", "unclaim", "release"} => installer[i].moved = {}
         /\ installer[i].alone =>
              /\ Form(i, step, installer[i].snapshot[r], dir[Root(r)], dir[Stage(i, r)], dir[Backup(i, r)],
                      TRUE, installer[i].moved, TRUE)
              /\ \A q \in Roles \ {r} : q \notin installer[i].committed =>
                   dir[Root(q)] = installer[i].snapshot[q] \/ Strange(dir[Root(q)])
<1> DEFINE s == installer[i]
<1>1. s.at[1] = step /\ s.at[2] = r /\ Running(s) /\ s.at[1] \notin Undoing \cup {"preflight", "staging"}
  BY DEF Running, Activating, Undoing
<1>2. ProfileTypeOK /\ Course(s) /\ (s.alone => \A q \in Roles : Shape(i, s, dir, q))
  BY <1>1, Knows
<1>3. r \notin s.committed
  BY <1>1 DEF InstallInv, ProfileInv, InOrder
<1> HIDE DEF s
<1>4. ASSUME s.alone
      PROVE  Form(i, step, s.snapshot[r], dir[Root(r)], dir[Stage(i, r)], dir[Backup(i, r)],
                  TRUE, s.moved, TRUE)
  <2>1. Phase(s, r) = step
    BY <1>1, PhaseIs
  <2>2. Form(i, step, s.snapshot[r], dir[Root(r)], dir[Stage(i, r)], dir[Backup(i, r)],
             Staged(s, r), s.moved, Plain(s, r))
    BY <1>2, <1>4, <2>1 DEF Shape
  <2>3. step # "waiting" /\ step # "taken"
    BY DEF Activating
  <2> QED
    BY <2>2, <2>3, FormWeakens
<1>5. ASSUME s.alone, NEW q \in Roles \ {r}, q \notin s.committed
      PROVE  dir[Root(q)] = s.snapshot[q] \/ Strange(dir[Root(q)])
  <2>1. Phase(s, q) = "waiting"
    BY <1>1, <1>5, PhaseIs
  <2> QED
    BY <1>2, <1>5, <2>1 DEF Shape, Form
<1>6. /\ r \in Replaced(s.found) /\ (s.snapshot[r] = {} <=> step \notin Exchanging)
      /\ step \notin {"move", "unclaim", "release"} => s.moved = {}
  BY <1>1, <1>2 DEF Course
<1> QED
  BY <1>1, <1>2, <1>3, <1>4, <1>5, <1>6 DEF s

LEMMA AbortAtStep ==
  ASSUME InstallInv, NEW i \in Installers, NEW r \in Roles, NEW step \in Activating,
         installer[i].at = <<step, r>>, Abort(i), \A q \in Roles \ {r} : Spares(i, q),
         installer[i].alone => dir'[Root(r)] = installer[i].snapshot[r] \/ Strange(dir'[Root(r)])
  PROVE  Proceeds(i)
<1>1. /\ ProfileTypeOK /\ Running(installer[i])
      /\ installer[i].at[1] \notin Undoing \cup {"preflight", "staging"}
      /\ r \notin installer[i].committed
      /\ installer[i].alone =>
           \A q \in Roles \ {r} : q \notin installer[i].committed =>
             dir[Root(q)] = installer[i].snapshot[q] \/ Strange(dir[Root(q)])
  BY AtStep
<1>2. Aborts(i)
  BY <1>1, Aborting
<1> QED
  BY <1>1, <1>2, AbortProceeds DEF Spares

LEMMA PutBackTells ==
  ASSUME InstallInv, NEW i \in Installers, NEW r \in Roles, PutBack(i, r)
  PROVE  /\ Tidy(i) /\ \A q \in Roles \ {r} : Spares(i, q)
         /\ IF CanRename(Backup(i, r), Root(r)) THEN dir'[Root(r)] = dir[Backup(i, r)]
            ELSE dir' = dir
<1>1. CASE CanRename(Backup(i, r), Root(r))
  <2>1. dir' = Renamed(Backup(i, r), Root(r))
    BY <1>1 DEF PutBack, Do
  <2> QED
    BY <1>1, <2>1, TidyRename, PathsDiffer
<1>2. CASE ~CanRename(Backup(i, r), Root(r))
  <2>1. dir' = dir
    BY <1>2 DEF PutBack, Do
  <2> QED
    BY <1>2, <2>1, TidyStill
<1> QED
  BY <1>1, <1>2

(* Nothing can be renamed onto what is strange, and onto nothing anything. *)
LEMMA Renamable ==
  ASSUME NEW from, NEW to
  PROVE  /\ Strange(dir[to]) => ~CanRename(from, to)
         /\ dir[to] = {} => (CanRename(from, to) <=> dir[from] # {})
BY DEF CanRename, Strange, Empty

LEMMA SwapTells ==
  ASSUME InstallInv, NEW i \in Installers, NEW r \in Roles, Swap(i, r)
  PROVE  Tidy(i) /\ Proceeds(i)
<1>1. /\ installer[i].at = <<"swap", r>> /\ "swap" \in Activating /\ "compare" \in Activating
      /\ "swap" \in Exchanging /\ "compare" \in Exchanging
  BY DEF Swap, At, Activating, Exchanging
<1>2. /\ ProfileTypeOK /\ installer[i].snapshot[r] # {}
      /\ installer[i].alone =>
           Form(i, "swap", installer[i].snapshot[r], dir[Root(r)], dir[Stage(i, r)], dir[Backup(i, r)],
                TRUE, installer[i].moved, TRUE)
  BY <1>1, AtStep
<1>3. CASE CanRename(Root(r), Backup(i, r))
  <2>1. Goes(i, <<"compare", r>>) /\ dir' = Renamed(Root(r), Backup(i, r))
    BY <1>2, <1>3, Going DEF Swap, Do
  <2>2. /\ Tidy(i) /\ dir'[Backup(i, r)] = dir[Root(r)] /\ dir'[Root(r)] = {}
        /\ dir'[Stage(i, r)] = dir[Stage(i, r)] /\ \A q \in Roles \ {r} : Spares(i, q)
    BY <1>3, <2>1, TidyRename, PathsDiffer
  <2>3. installer[i].alone =>
          Form(i, "compare", installer[i].snapshot[r], dir'[Root(r)], dir'[Stage(i, r)],
               dir'[Backup(i, r)], TRUE, installer[i].moved, TRUE)
    BY <1>2, <2>2 DEF Form
  <2> QED
    BY <1>1, <2>1, <2>2, <2>3, TurnProceeds
<1>4. CASE ~CanRename(Root(r), Backup(i, r))
  <2>1. Abort(i) /\ dir' = dir
    BY <1>4 DEF Swap
  <2>2. installer[i].alone => dir'[Root(r)] = installer[i].snapshot[r] \/ Strange(dir'[Root(r)])
    BY <1>2, <2>1 DEF Form
  <2> QED
    BY <1>1, <2>1, <2>2, TidyStill, AbortAtStep
<1> QED
  BY <1>3, <1>4

LEMMA CompareTells ==
  ASSUME InstallInv, NEW i \in Installers, NEW r \in Roles, Compare(i, r)
  PROVE  Tidy(i) /\ Proceeds(i)
<1>1. /\ installer[i].at = <<"compare", r>> /\ "compare" \in Activating /\ "place" \in Activating
      /\ "compare" \in Exchanging /\ "place" \in Exchanging
  BY DEF Compare, At, Activating, Exchanging
<1>2. /\ ProfileTypeOK /\ installer[i].snapshot[r] # {}
      /\ installer[i].alone =>
           Form(i, "compare", installer[i].snapshot[r], dir[Root(r)], dir[Stage(i, r)], dir[Backup(i, r)],
                TRUE, installer[i].moved, TRUE)
  BY <1>1, AtStep
<1>3. CASE dir[Backup(i, r)] = installer[i].snapshot[r]
  <2>1. Goes(i, <<"place", r>>) /\ dir' = dir
    BY <1>2, <1>3, Going DEF Compare
  <2>2. installer[i].alone =>
          Form(i, "place", installer[i].snapshot[r], dir'[Root(r)], dir'[Stage(i, r)],
               dir'[Backup(i, r)], TRUE, installer[i].moved, TRUE)
    BY <1>2, <1>3, <2>1 DEF Form
  <2> QED
    BY <1>1, <2>1, <2>2, TidyStill, TurnProceeds
<1>4. CASE dir[Backup(i, r)] # installer[i].snapshot[r]
  <2>1. Abort(i) /\ PutBack(i, r)
    BY <1>4 DEF Compare
  <2>2. ASSUME installer[i].alone PROVE Strange(dir'[Root(r)])
    <3>1. /\ Strange(dir[Backup(i, r)]) /\ dir[Backup(i, r)] # {}
          /\ dir[Root(r)] = {} \/ Strange(dir[Root(r)])
      BY <1>2, <1>4, <2>2 DEF Form, Strange
    <3> QED
      BY <2>1, <3>1, PutBackTells, Renamable
  <2> QED
    BY <1>1, <2>1, <2>2, PutBackTells, AbortAtStep
<1> QED
  BY <1>3, <1>4

LEMMA PlaceTells ==
  ASSUME InstallInv, NEW i \in Installers, NEW r \in Roles, Place(i, r)
  PROVE  Tidy(i) /\ Proceeds(i)
<1>1. /\ installer[i].at = <<"place", r>> /\ "place" \in Activating /\ "place" \in Exchanging
  BY DEF Place, At, Activating, Exchanging
<1>2. /\ ProfileTypeOK /\ Running(installer[i]) /\ installer[i].snapshot[r] # {}
      /\ installer[i].moved = {} /\ r \notin installer[i].committed
      /\ installer[i].alone =>
           Form(i, "place", installer[i].snapshot[r], dir[Root(r)], dir[Stage(i, r)], dir[Backup(i, r)],
                TRUE, installer[i].moved, TRUE)
  <2>1. "place" \notin {"move", "unclaim", "release"}
    OBVIOUS
  <2>2. ProfileTypeOK /\ Running(installer[i]) /\ r \notin installer[i].committed
    BY <1>1, AtStep
  <2>3. installer[i].snapshot[r] # {} /\ installer[i].moved = {}
    BY <1>1, <2>1, AtStep
  <2>4. installer[i].alone =>
           Form(i, "place", installer[i].snapshot[r], dir[Root(r)], dir[Stage(i, r)], dir[Backup(i, r)],
                TRUE, installer[i].moved, TRUE)
    BY <1>1, AtStep
  <2> QED
    BY <2>2, <2>3, <2>4
<1>3. CASE CanRename(Stage(i, r), Root(r))
  <2>1. /\ dir' = Renamed(Stage(i, r), Root(r))
        /\ installer' = [installer EXCEPT ![i] =
             [installer[i] EXCEPT !.at = NextActivation(i, r),
                                  !.committed = installer[i].committed \cup {r}]]
    BY <1>3 DEF Place, Do
  <2>2. Becomes(i, NextActivation(i, r), installer[i].committed \cup {r}, installer[i].claimed,
                {}, installer[i].whole)
    <3> DEFINE s == [installer[i] EXCEPT !.at = NextActivation(i, r),
                                  !.committed = installer[i].committed \cup {r}]
    <3>1. installer'[i] = s /\ OthersStay(i)
      BY <1>2, <2>1 DEF ProfileTypeOK, OthersStay
    <3>2. DOMAIN installer[i] = StateFields
      BY <1>2 DEF ProfileTypeOK, StateTyped
    <3> QED
      BY <1>2, <3>1, <3>2 DEF Becomes, StateFields
  <2>3. /\ Tidy(i) /\ dir'[Root(r)] = dir[Stage(i, r)] /\ dir'[Stage(i, r)] = {}
        /\ dir'[Backup(i, r)] = dir[Backup(i, r)] /\ \A q \in Roles \ {r} : Spares(i, q)
    BY <1>3, <2>1, TidyRename, PathsDiffer
  <2>4. installer[i].alone =>
          Form(i, "taken", installer[i].snapshot[r], dir'[Root(r)], dir'[Stage(i, r)],
               dir'[Backup(i, r)], TRUE, {}, r \notin installer[i].claimed)
    BY <1>2, <2>3 DEF Form, Ours
  <2> QED
    BY <1>1, <2>2, <2>3, <2>4, CommitProceeds
<1>4. CASE ~CanRename(Stage(i, r), Root(r))
  <2>1. Abort(i) /\ PutBack(i, r)
    BY <1>4 DEF Place
  <2>2. ASSUME installer[i].alone PROVE Strange(dir'[Root(r)])
    <3>1. dir[Stage(i, r)] # {} /\ (dir[Root(r)] = {} \/ Strange(dir[Root(r)]))
      BY <1>2, <2>2 DEF Form, Ours
    <3>2. Strange(dir[Root(r)])
      BY <1>4, <3>1, Renamable
    <3> QED
      BY <2>1, <3>2, PutBackTells, Renamable
  <2> QED
    BY <1>1, <2>1, <2>2, PutBackTells, AbortAtStep
<1> QED
  BY <1>3, <1>4

LEMMA ClaimTells ==
  ASSUME InstallInv, NEW i \in Installers, NEW r \in Roles, Claim(i, r)
  PROVE  Tidy(i) /\ Proceeds(i)
<1>1. /\ installer[i].at = <<"claim", r>> /\ "claim" \in Activating /\ "mark" \in Activating
      /\ "claim" \notin Exchanging /\ "mark" \notin Exchanging
  BY DEF Claim, At, Activating, Exchanging
<1>2. /\ ProfileTypeOK /\ installer[i].snapshot[r] = {}
      /\ installer[i].alone =>
           Form(i, "claim", installer[i].snapshot[r], dir[Root(r)], dir[Stage(i, r)], dir[Backup(i, r)],
                TRUE, installer[i].moved, TRUE)
  BY <1>1, AtStep
<1>3. CASE dir[Root(r)] = {}
  <2>1. Go(i, <<"mark", r>>) /\ dir' = [dir EXCEPT ![Root(r)] = {Made(i)}]
    BY <1>3 DEF Claim, Do
  <2>2. /\ Tidy(i) /\ dir'[Root(r)] = {Made(i)} /\ dir'[Stage(i, r)] = dir[Stage(i, r)]
        /\ dir'[Backup(i, r)] = dir[Backup(i, r)] /\ \A q \in Roles \ {r} : Spares(i, q)
    <3>1. Single({Made(i)})
      BY DEF Single
    <3> QED
      BY <2>1, <3>1, TidyRoot
  <2>3. installer[i].alone =>
          Form(i, "mark", installer[i].snapshot[r], dir'[Root(r)], dir'[Stage(i, r)],
               dir'[Backup(i, r)], TRUE, installer[i].moved, TRUE)
    <3>1. Opened({Made(i)}, "none", {})
      BY DEF Opened, Made
    <3> QED
      BY <1>2, <2>2, <3>1 DEF Form
  <2> QED
    BY <1>1, <1>2, <2>1, <2>2, <2>3, Going, TurnProceeds
<1>4. CASE dir[Root(r)] # {}
  <2>1. Abort(i) /\ dir' = dir
    BY <1>4 DEF Claim
  <2>2. installer[i].alone => dir'[Root(r)] = installer[i].snapshot[r] \/ Strange(dir'[Root(r)])
    BY <1>2, <2>1 DEF Form
  <2> QED
    BY <1>1, <2>1, <2>2, TidyStill, AbortAtStep
<1> QED
  BY <1>3, <1>4

(* What every directory of a root may become: the shape of a directory. *)
LEMMA Fields ==
  ASSUME ProfileTypeOK, NEW p \in Paths, NEW d \in dir[p]
  PROVE  d \in Directory /\ DOMAIN d = {"made", "release", "has", "cordis", "marker", "strange"}
BY DEF ProfileTypeOK, Directory

(* The way out of a claim: only the owner can have made it. *)
LEMMA ToUnclaimTells ==
  ASSUME InstallInv, NEW i \in Installers, NEW r \in Roles, NEW from \in {"mark", "move"},
         installer[i].at = <<from, r>>, Go(i, <<"unclaim", r>>), dir' = dir,
         installer[i].alone => Strange(dir[Root(r)])
  PROVE  Tidy(i) /\ Proceeds(i)
<1>1. /\ from \in Activating /\ "unclaim" \in Activating
      /\ from \notin Exchanging /\ "unclaim" \notin Exchanging
  BY DEF Activating, Exchanging
<1>2. ProfileTypeOK
  BY <1>1, AtStep
<1>3. installer[i].alone =>
        Form(i, "unclaim", installer[i].snapshot[r], dir'[Root(r)], dir'[Stage(i, r)],
             dir'[Backup(i, r)], TRUE, installer[i].moved, TRUE)
  BY DEF Form
<1> QED
  BY <1>1, <1>2, <1>3, Going, TidyStill, TurnProceeds

LEMMA MarkTells ==
  ASSUME InstallInv, NEW i \in Installers, NEW r \in Roles, Mark(i, r)
  PROVE  Tidy(i) /\ Proceeds(i)
<1>1. /\ installer[i].at = <<"mark", r>> /\ "mark" \in Activating /\ "write" \in Activating
      /\ "mark" \notin Exchanging /\ "write" \notin Exchanging
  BY DEF Mark, At, Activating, Exchanging
<1>2. /\ ProfileTypeOK
      /\ installer[i].alone =>
           Form(i, "mark", installer[i].snapshot[r], dir[Root(r)], dir[Stage(i, r)], dir[Backup(i, r)],
                TRUE, installer[i].moved, TRUE)
  BY <1>1, AtStep
<1>3. CASE \E d \in dir[Root(r)] : d.marker = "none"
  <2> DEFINE ds == {[d EXCEPT !.marker = i] : d \in dir[Root(r)]}
  <2>1. Go(i, <<"write", r>>) /\ dir' = [dir EXCEPT ![Root(r)] = ds]
    BY <1>3 DEF Mark, Do
  <2>2. Single(ds)
    BY PathsDiffer DEF Single, InstallInv
  <2>3. ASSUME Strange(dir[Root(r)]) PROVE Strange(ds)
    <3>1. \A d \in dir[Root(r)] : [d EXCEPT !.marker = i].strange = d.strange
      BY <1>2, Fields, PathsDiffer
    <3> QED
      BY <2>3, <3>1 DEF Strange
  <2>4. ASSUME Opened(dir[Root(r)], "none", {}) PROVE Opened(ds, i, {})
    <3>1. PICK x \in dir[Root(r)] : /\ dir[Root(r)] = {x} /\ x.release = "target" /\ x.has = {}
                                    /\ ~x.strange
      BY <2>4 DEF Opened
    <3> DEFINE y == [x EXCEPT !.marker = i]
    <3>2. y.release = "target" /\ y.has = {} /\ y.marker = i /\ ~y.strange
      BY <1>2, <3>1, Fields, PathsDiffer
    <3>3. ds = {y}
      BY <3>1
    <3> HIDE DEF y
    <3> QED
      BY <3>2, <3>3 DEF Opened
  <2> HIDE DEF ds
  <2>5. /\ Tidy(i) /\ dir'[Root(r)] = ds /\ dir'[Stage(i, r)] = dir[Stage(i, r)]
        /\ dir'[Backup(i, r)] = dir[Backup(i, r)] /\ \A q \in Roles \ {r} : Spares(i, q)
    BY <2>1, <2>2, TidyRoot
  <2>6. installer[i].alone =>
          Form(i, "write", installer[i].snapshot[r], dir'[Root(r)], dir'[Stage(i, r)],
               dir'[Backup(i, r)], TRUE, installer[i].moved, TRUE)
    BY <1>2, <2>3, <2>4, <2>5 DEF Form
  <2> QED
    BY <1>1, <1>2, <2>1, <2>5, <2>6, Going, TurnProceeds
<1>4. CASE ~\E d \in dir[Root(r)] : d.marker = "none"
  <2>1. Go(i, <<"unclaim", r>>) /\ dir' = dir
    BY <1>4 DEF Mark
  <2>2. installer[i].alone => Strange(dir[Root(r)])
    <3>1. ~Opened(dir[Root(r)], "none", {})
      BY <1>4 DEF Opened
    <3> QED
      BY <1>2, <3>1 DEF Form
  <2> QED
    BY <1>1, <2>1, <2>2, ToUnclaimTells
<1> QED
  BY <1>3, <1>4

(* What was captured has no marker that is being written. *)
LEMMA CapturedMarkers ==
  ASSUME NEW ds, Single(ds), Inspect(ds) # "invalid", NEW d \in ds
  PROVE  d.marker \in {"none", "whole"}
<1> SUFFICES ASSUME d.marker \notin {"none", "whole"} PROVE FALSE
  OBVIOUS
<1>1. ds # {} /\ \A e \in ds : e = d
  BY DEF Single
<1>2. ~\E e \in ds : e.marker # "none" /\ Claimed(e)
  BY <1>1 DEF Claimed
<1>3. ~\E e \in ds : e.marker = "none" /\ Installed(e)
  BY <1>1
<1> QED
  BY <1>1, <1>2, <1>3 DEF Inspect

LEMMA WriteMarkerTells ==
  ASSUME InstallInv, NEW i \in Installers, NEW r \in Roles, WriteMarker(i, r)
  PROVE  Tidy(i) /\ Proceeds(i)
<1>1. /\ installer[i].at = <<"write", r>> /\ "write" \in Activating /\ "move" \in Activating
      /\ "write" \notin Exchanging /\ "move" \notin Exchanging /\ Go(i, <<"move", r>>)
  BY DEF WriteMarker, At, Activating, Exchanging
<1>2. ProfileTypeOK /\ Running(installer[i]) /\ installer[i].at[1] = "write" /\ installer[i].at[2] = r
  BY <1>1 DEF InstallInv, ProfileInv, Running
<1>3. installer[i].moved = {}
  <2>1. "write" \notin {"move", "unclaim", "release"}
    OBVIOUS
  <2> QED
    BY <1>1, <2>1, AtStep
<1>4. installer[i].alone =>
        Form(i, "write", installer[i].snapshot[r], dir[Root(r)], dir[Stage(i, r)], dir[Backup(i, r)],
             TRUE, installer[i].moved, TRUE)
  BY <1>1, AtStep
<1>5. Course(installer[i]) /\ (installer[i].alone => \A q \in Roles : Shape(i, installer[i], dir, q))
  BY <1>2, Knows
<1> DEFINE w(d) == IF d.marker = i THEN [d EXCEPT !.marker = "whole"] ELSE d
           wrote(ds) == {w(d) : d \in ds}
<1>6. \A p \in Paths : dir'[p] = wrote(dir[p])
  BY DEF WriteMarker, Do
<1>7. i # "none" /\ i # "whole"
  BY MarkersAssumption
<1>8. ASSUME NEW p \in Paths, NEW d \in dir[p]
      PROVE  /\ w(d).release = d.release /\ w(d).has = d.has /\ w(d).strange = d.strange
             /\ d.marker \in {"none", "whole"} => w(d) = d
  BY <1>2, <1>7, Fields
<1> HIDE DEF w
<1>9. ASSUME NEW p \in Paths
      PROVE  /\ Single(wrote(dir[p])) /\ (Strange(dir[p]) => Strange(wrote(dir[p])))
             /\ (\A d \in dir[p] : d.marker \in {"none", "whole"}) => wrote(dir[p]) = dir[p]
             /\ \A plain \in BOOLEAN : Ours(dir[p], plain) => Ours(wrote(dir[p]), plain)
  <2>1. Single(dir[p])
    BY DEF InstallInv
  <2>2. Single(wrote(dir[p]))
    BY <2>1 DEF Single
  <2>3. Strange(dir[p]) => Strange(wrote(dir[p]))
    BY <1>8 DEF Strange
  <2>4. (\A d \in dir[p] : d.marker \in {"none", "whole"}) => wrote(dir[p]) = dir[p]
    BY <1>8
  <2>5. ASSUME NEW plain \in BOOLEAN, Ours(dir[p], plain) PROVE Ours(wrote(dir[p]), plain)
    <3>1. PICK x \in dir[p] : /\ dir[p] = {x} /\ x.release = "target" /\ x.has = Parts /\ ~x.strange
                              /\ plain => x.marker = "none"
      BY <2>5 DEF Ours
    <3>2. wrote(dir[p]) = {w(x)}
      BY <3>1
    <3>3. /\ w(x).release = "target" /\ w(x).has = Parts /\ ~w(x).strange
          /\ plain => w(x) = x
      BY <1>8, <3>1
    <3> QED
      BY <3>1, <3>2, <3>3 DEF Ours
  <2> QED
    BY <2>2, <2>3, <2>4, <2>5
<1>10. wrote({}) = {}
  OBVIOUS
<1>11. ASSUME Opened(dir[Root(r)], i, {}) PROVE Opened(wrote(dir[Root(r)]), "whole", {})
  <2>1. PICK x \in dir[Root(r)] : /\ dir[Root(r)] = {x} /\ x.release = "target" /\ x.has = {}
                                  /\ x.marker = i /\ ~x.strange
    BY <1>11 DEF Opened
  <2>2. w(x).marker = "whole"
    BY <1>2, <2>1, Fields, PathsDiffer DEF w
  <2>3. w(x).release = "target" /\ w(x).has = {} /\ ~w(x).strange
    BY <1>8, <2>1, PathsDiffer
  <2>4. wrote(dir[Root(r)]) = {w(x)}
    BY <2>1
  <2> QED
    BY <2>2, <2>3, <2>4 DEF Opened
<1> HIDE DEF wrote
<1>12. Tidy(i)
  <2>1. ASSUME NEW p \in Paths PROVE Single(dir'[p])
    BY <1>6, <1>9
  <2>2. ASSUME NEW j \in Installers \ {i}, NEW q \in Roles, dir[Backup(j, q)] = {}
        PROVE  dir'[Backup(j, q)] = {}
    BY <1>6, <1>10, <2>2, PathsDiffer
  <2> QED
    BY <2>1, <2>2 DEF Tidy
<1>13. ASSUME installer[i].alone, NEW q \in Roles \ {r} PROVE Remains(i, q)
  <2> DEFINE s == installer[i]
             phase == Phase(s, q)
  <2>1. phase \in {"taken", "waiting"}
    BY <1>1, <1>2, PhaseIs
  <2>2. Captured(s, q)
    BY <1>2 DEF Captured
  <2>3. Single(s.snapshot[q]) /\ Inspect(s.snapshot[q]) # "invalid"
    BY <1>5, <2>2 DEF Course
  <2>4. \A d \in s.snapshot[q] : d.marker \in {"none", "whole"}
    BY <2>3, CapturedMarkers
  <2>5. /\ Root(q) \in Paths /\ Stage(i, q) \in Paths /\ Backup(i, q) \in Paths
    BY PathsDiffer
  <2>6. Plain(s, q) \in BOOLEAN /\ TRUE \in BOOLEAN
    BY DEF Plain
  <2>7. /\ dir[Root(q)] = s.snapshot[q] => dir'[Root(q)] = s.snapshot[q]
        /\ dir[Backup(i, q)] = s.snapshot[q] => dir'[Backup(i, q)] = s.snapshot[q]
        /\ dir[Backup(i, q)] = {} => dir'[Backup(i, q)] = {}
        /\ dir[Stage(i, q)] = {} => dir'[Stage(i, q)] = {}
        /\ Strange(dir[Root(q)]) => Strange(dir'[Root(q)])
        /\ Ours(dir[Stage(i, q)], TRUE) => Ours(dir'[Stage(i, q)], TRUE)
        /\ Ours(dir[Root(q)], Plain(s, q)) => Ours(dir'[Root(q)], Plain(s, q))
    BY <1>6, <1>9, <1>10, <2>4, <2>5, <2>6
  <2> HIDE DEF s, phase
  <2>8. Form(i, phase, s.snapshot[q], dir[Root(q)], dir[Stage(i, q)], dir[Backup(i, q)],
             Staged(s, q), s.moved, Plain(s, q))
        => Form(i, phase, s.snapshot[q], dir'[Root(q)], dir'[Stage(i, q)], dir'[Backup(i, q)],
             Staged(s, q), s.moved, Plain(s, q))
    BY <2>1, <2>7 DEF Form
  <2> QED
    BY <2>8 DEF Remains, Shape, s, phase
<1>14. installer[i].alone =>
         Form(i, "move", installer[i].snapshot[r], dir'[Root(r)], dir'[Stage(i, r)],
              dir'[Backup(i, r)], TRUE, {}, TRUE)
  <2>1. Root(r) \in Paths /\ Backup(i, r) \in Paths
    BY PathsDiffer
  <2> QED
    BY <1>4, <1>6, <1>9, <1>10, <1>11, <2>1 DEF Form
<1>15. Goes(i, <<"move", r>>)
  BY <1>1, <1>2, Going
<1>16. Becomes(i, <<"move", r>>, installer[i].committed, installer[i].claimed, {}, installer[i].whole)
  BY <1>3, <1>15 DEF Goes
<1>17. Proceeds(i)
  BY <1>1, <1>13, <1>14, <1>16, Turning
<1> QED
  BY <1>12, <1>17

LEMMA MoveTells ==
  ASSUME InstallInv, NEW i \in Installers, NEW r \in Roles, Move(i, r)
  PROVE  Tidy(i) /\ Proceeds(i)
<1> DEFINE moved == installer[i].moved
           part == NextPart(moved)
           into(d) == [d EXCEPT !.has = d.has \cup {part}, !.strange = d.strange \/ d.release # "target"]
           out(d) == [d EXCEPT !.has = d.has \ {part}]
           root == {into(d) : d \in dir[Root(r)]}
           stage == IF part = "package" THEN {} ELSE {out(d) : d \in dir[Stage(i, r)]}
           lands == \E d \in dir[Root(r)] : part \in d.has => part # "modules"
<1>0. installer[i].at = <<"move", r>>
  BY Zenon DEF Move, At
<1>1. installer[i].at = <<"move", r>> /\ "move" \in Activating /\ "move" \notin Exchanging
  BY <1>0 DEF Activating, Exchanging
<1>2. /\ ProfileTypeOK /\ Running(installer[i]) /\ installer[i].at[1] = "move"
      /\ installer[i].snapshot[r] = {}
  BY <1>1, AtStep
<1>3. installer[i].alone =>
        Form(i, "move", {}, dir[Root(r)], dir[Stage(i, r)], dir[Backup(i, r)], TRUE, moved, TRUE)
  <2>1. installer[i].alone =>
          Form(i, "move", installer[i].snapshot[r], dir[Root(r)], dir[Stage(i, r)], dir[Backup(i, r)],
               TRUE, moved, TRUE)
    BY <1>1, AtStep
  <2> QED
    BY <1>2, <2>1
<1>4. moved \in {{}, {"early"}, {"early", "modules"}}
  <2>1. Course(installer[i])
    BY <1>2, Knows
  <2> QED
    BY <1>2, <2>1 DEF Course
<1>5. /\ part \notin moved
      /\ part # "package" => moved \cup {part} \in {{"early"}, {"early", "modules"}}
      /\ part = "package" => moved \cup {part} = Parts
  BY <1>4 DEF NextPart, Parts
<1>6. CASE ~lands
  <2>1. Go(i, <<"unclaim", r>>) /\ dir' = dir
    BY <1>6 DEF Move
  <2>2. installer[i].alone => Strange(dir[Root(r)])
    <3>1. ~Opened(dir[Root(r)], "whole", moved)
      BY <1>5, <1>6 DEF Opened
    <3> QED
      BY <1>3, <3>1 DEF Form
  <2> QED
    BY <1>1, <2>1, <2>2, ToUnclaimTells
<1>7. CASE lands
  <2>1. dir' = [dir EXCEPT ![Root(r)] = root, ![Stage(i, r)] = stage]
    BY <1>7 DEF Move, Do
  <2>2. ASSUME NEW d \in dir[Root(r)]
        PROVE  /\ into(d).has = d.has \cup {part} /\ into(d).release = d.release
               /\ into(d).marker = d.marker
               /\ into(d).strange = (d.strange \/ d.release # "target")
    BY <1>2, Fields, PathsDiffer
  <2>3. Single(root) /\ Single(stage)
    <3>1. Single(dir[Root(r)]) /\ Single(dir[Stage(i, r)])
      BY PathsDiffer DEF InstallInv
    <3> HIDE DEF into, out
    <3> QED
      BY <3>1 DEF Single
  <2> HIDE DEF into, out
  <2>4. Strange(dir[Root(r)]) => Strange(root)
    BY <2>2 DEF Strange
  <2>5. ASSUME Opened(dir[Root(r)], "whole", moved)
        PROVE  Opened(root, "whole", moved \cup {part})
    <3>1. PICK x \in dir[Root(r)] : /\ dir[Root(r)] = {x} /\ x.release = "target" /\ x.has = moved
                                    /\ x.marker = "whole" /\ ~x.strange
      BY <2>5 DEF Opened
    <3>2. root = {into(x)}
      BY <3>1
    <3>3. /\ into(x).release = "target" /\ into(x).has = moved \cup {part}
          /\ into(x).marker = "whole" /\ ~into(x).strange
      BY <2>2, <3>1
    <3> QED
      BY <3>2, <3>3 DEF Opened
  <2>6. part = "package" => stage = {}
    OBVIOUS
  <2> HIDE DEF root, stage, lands
  <2>7. /\ dir'[Root(r)] = root /\ dir'[Stage(i, r)] = stage
        /\ \A p \in Paths \ {Root(r), Stage(i, r)} : dir'[p] = dir[p]
    BY <1>2, <2>1, PathsDiffer DEF ProfileTypeOK
  <2>8. Tidy(i)
    <3>1. ASSUME NEW p \in Paths PROVE Single(dir'[p])
      BY <2>3, <2>7 DEF InstallInv
    <3>2. ASSUME NEW j \in Installers \ {i}, NEW q \in Roles PROVE dir'[Backup(j, q)] = dir[Backup(j, q)]
      BY <2>7, PathsDiffer
    <3> QED
      BY <3>1, <3>2 DEF Tidy
  <2>9. dir'[Backup(i, r)] = dir[Backup(i, r)] /\ \A q \in Roles \ {r} : Spares(i, q)
    <3>1. ASSUME NEW q \in Roles \ {r} PROVE Spares(i, q)
      <4>1. \A p \in {Root(q), Stage(i, q), Backup(i, q)} : p \in Paths /\ p \notin {Root(r), Stage(i, r)}
        BY DEF Paths, Root, Stage, Backup
      <4> QED
        BY <2>7, <4>1 DEF Spares
    <3> QED
      BY <2>7, <3>1, PathsDiffer
  <2>10. Proceeds(i)
    <3>1. DOMAIN installer[i] = StateFields
      BY <1>2 DEF ProfileTypeOK, StateTyped
    <3>2. CASE part = "package"
      <4> DEFINE s == [installer[i] EXCEPT !.at = NextActivation(i, r), !.moved = {},
                         !.committed = installer[i].committed \cup {r},
                         !.claimed = installer[i].claimed \cup {r}]
      <4>1. installer' = [installer EXCEPT ![i] = s]
        BY <1>7, <3>2 DEF Move, lands
      <4>2. installer'[i] = s /\ OthersStay(i)
        BY <1>2, <4>1 DEF ProfileTypeOK, OthersStay
      <4>3. Becomes(i, NextActivation(i, r), installer[i].committed \cup {r},
                    installer[i].claimed \cup {r}, {}, installer[i].whole)
        BY <3>1, <4>2 DEF Becomes, StateFields
      <4> HIDE DEF s
      <4>4. installer[i].alone =>
              Form(i, "taken", installer[i].snapshot[r], dir'[Root(r)], dir'[Stage(i, r)],
                   dir'[Backup(i, r)], TRUE, {}, r \notin installer[i].claimed \cup {r})
        <5>1. ASSUME installer[i].alone
              PROVE  Ours(dir'[Root(r)], FALSE) \/ Strange(dir'[Root(r)])
          <6>1. Opened(dir[Root(r)], "whole", moved) \/ Strange(dir[Root(r)])
            BY <1>3, <5>1 DEF Form
          <6>2. Opened(root, "whole", Parts) \/ Strange(root)
            BY <1>5, <2>4, <2>5, <3>2, <6>1
          <6> QED
            BY <2>7, <6>2 DEF Opened, Ours
        <5>2. installer[i].alone => dir'[Backup(i, r)] = {} /\ dir'[Stage(i, r)] = {}
          BY <1>3, <2>6, <2>7, <2>9, <3>2 DEF Form
        <5> QED
          BY <1>2, <5>1, <5>2 DEF Form, Ours
      <4> HIDE DEF moved, part
      <4>5. "move" \in {"place", "move"} /\ installer[i].claimed \subseteq installer[i].claimed \cup {r}
        OBVIOUS
      <4> QED
        BY <1>1, <2>9, <4>3, <4>4, <4>5, CommitProceeds
    <3>3. CASE part # "package"
      <4> DEFINE s == [installer[i] EXCEPT !.moved = installer[i].moved \cup {part}]
      <4>1. installer' = [installer EXCEPT ![i] = s]
        BY <1>7, <3>3 DEF Move, lands
      <4>2. installer'[i] = s /\ OthersStay(i)
        BY <1>2, <4>1 DEF ProfileTypeOK, OthersStay
      <4>3. Becomes(i, <<"move", r>>, installer[i].committed, installer[i].claimed,
                    moved \cup {part}, installer[i].whole)
        BY <1>1, <3>1, <4>2 DEF Becomes, StateFields
      <4> HIDE DEF s
      <4>4. installer[i].alone =>
              Form(i, "move", installer[i].snapshot[r], dir'[Root(r)], dir'[Stage(i, r)],
                   dir'[Backup(i, r)], TRUE, moved \cup {part}, TRUE)
        BY <1>2, <1>3, <2>4, <2>5, <2>7, <2>9 DEF Form
      <4>5. moved \cup {part} \in {{}, {"early"}, {"early", "modules"}}
        BY <1>5, <3>3
      <4>6. \A q \in Roles \ {r} : Remains(i, q)
        BY <2>9, SparedRemains
      <4> HIDE DEF moved, part
      <4> QED
        BY <1>1, <4>3, <4>4, <4>5, <4>6, Turning
    <3> QED
      BY <3>2, <3>3
  <2> QED
    BY <2>8, <2>10
<1> QED
  BY <1>6, <1>7

LEMMA UnclaimTells ==
  ASSUME InstallInv, NEW i \in Installers, NEW r \in Roles, Unclaim(i, r)
  PROVE  Tidy(i) /\ Proceeds(i)
<1>1. /\ installer[i].at = <<"unclaim", r>> /\ "unclaim" \in Activating /\ "release" \in Activating
      /\ "unclaim" \notin Exchanging /\ "release" \notin Exchanging /\ Go(i, <<"release", r>>)
  BY DEF Unclaim, At, Activating, Exchanging
<1>2. /\ ProfileTypeOK
      /\ installer[i].alone =>
           Form(i, "unclaim", installer[i].snapshot[r], dir[Root(r)], dir[Stage(i, r)], dir[Backup(i, r)],
                TRUE, installer[i].moved, TRUE)
  BY <1>1, AtStep
<1> DEFINE out(d) == [d EXCEPT !.has = d.has \ installer[i].moved]
           ds == {out(d) : d \in dir[Root(r)]}
<1>3. dir' = [dir EXCEPT ![Root(r)] = ds]
  BY DEF Unclaim, Do
<1>4. \A d \in dir[Root(r)] : out(d).strange = d.strange
  BY <1>2, Fields, PathsDiffer
<1>5. Single(dir[Root(r)])
  BY PathsDiffer DEF InstallInv
<1> HIDE DEF out
<1>6. Single(ds) /\ (Strange(dir[Root(r)]) => Strange(ds))
  BY <1>4, <1>5 DEF Single, Strange
<1> HIDE DEF ds
<1>7. /\ Tidy(i) /\ dir'[Root(r)] = ds /\ \A q \in Roles \ {r} : Spares(i, q)
  BY <1>3, <1>6, TidyRoot
<1>8. installer[i].alone =>
        Form(i, "release", installer[i].snapshot[r], dir'[Root(r)], dir'[Stage(i, r)], dir'[Backup(i, r)],
             TRUE, installer[i].moved, TRUE)
  BY <1>2, <1>6, <1>7 DEF Form
<1>9. Goes(i, <<"release", r>>)
  BY <1>1, <1>2, Going
<1> QED
  BY <1>1, <1>7, <1>8, <1>9, TurnProceeds

LEMMA ReleaseTells ==
  ASSUME InstallInv, NEW i \in Installers, NEW r \in Roles, Release(i, r)
  PROVE  Tidy(i) /\ Proceeds(i)
<1>1. installer[i].at = <<"release", r>> /\ "release" \in Activating /\ Abort(i)
  BY Zenon DEF Release, At, Do, Activating
<1>2. /\ ProfileTypeOK
      /\ installer[i].alone =>
           Form(i, "release", installer[i].snapshot[r], dir[Root(r)], dir[Stage(i, r)], dir[Backup(i, r)],
                TRUE, installer[i].moved, TRUE)
  BY <1>1, AtStep
<1> DEFINE out(d) == [d EXCEPT !.marker = "none"]
           left == {out(d) : d \in dir[Root(r)]}
           ds == {d \in left : ~Empty(d)}
<1>3. dir' = [dir EXCEPT ![Root(r)] = ds]
  BY DEF Release, Do
<1>4. \A d \in dir[Root(r)] : out(d).strange = d.strange
  BY <1>2, Fields, PathsDiffer
<1>5. Single(dir[Root(r)])
  BY PathsDiffer DEF InstallInv
<1> HIDE DEF out
<1>6. Single(ds) /\ (Strange(dir[Root(r)]) => Strange(ds))
  BY <1>4, <1>5 DEF Single, Strange, Empty
<1> HIDE DEF ds
<1>7. /\ Tidy(i) /\ dir'[Root(r)] = ds /\ \A q \in Roles \ {r} : Spares(i, q)
  BY <1>3, <1>6, TidyRoot
<1>8. installer[i].alone => Strange(dir'[Root(r)])
  BY <1>2, <1>6, <1>7 DEF Form
<1> QED
  BY <1>1, <1>7, <1>8, AbortAtStep

(* Where an installation is that activates nothing and takes nothing back. *)
LEMMA Steady ==
  ASSUME NEW s, s.at[1] \in {"staging", "recheck", "verify", "unmark"}, NEW q \in Roles
  PROVE  /\ Captured(s, q)
         /\ Phase(s, q) = IF q \in s.committed THEN "taken" ELSE "waiting"
BY DEF Phase, Captured, Taken, Activating, Undoing

LEMMA AtSteady ==
  ASSUME InstallInv, NEW i \in Installers, installer[i].at[1] \in {"staging", "recheck", "verify", "unmark"}
  PROVE  /\ ProfileTypeOK /\ Running(installer[i]) /\ Course(installer[i])
         /\ installer[i].at[1] \in {"staging", "recheck"} => installer[i].committed = {}
         /\ installer[i].alone => \A q \in Roles :
              /\ Shape(i, installer[i], dir, q)
              /\ q \notin installer[i].committed =>
                   dir[Root(q)] = installer[i].snapshot[q] \/ Strange(dir[Root(q)])
<1>1. Running(installer[i])
  BY DEF Running
<1>2. ProfileTypeOK /\ Course(installer[i])
      /\ (installer[i].alone => \A q \in Roles : Shape(i, installer[i], dir, q))
  BY <1>1, Knows
<1>3. installer[i].at[1] \in {"staging", "recheck"} => installer[i].committed = {}
  BY DEF InstallInv, ProfileInv, InOrder
<1>4. ASSUME installer[i].alone, NEW q \in Roles, q \notin installer[i].committed
      PROVE  dir[Root(q)] = installer[i].snapshot[q] \/ Strange(dir[Root(q)])
  <2>1. Phase(installer[i], q) = "waiting"
    BY <1>4, Steady
  <2> QED
    BY <1>2, <1>4, <2>1 DEF Shape, Form
<1> QED
  BY <1>1, <1>2, <1>3, <1>4

(* An error before the first activation, or after the last one. *)
LEMMA AbortSteady ==
  ASSUME InstallInv, NEW i \in Installers, installer[i].at[1] \in {"recheck", "verify", "unmark"},
         Abort(i), dir' = dir
  PROVE  Tidy(i) /\ Proceeds(i)
<1>1. /\ ProfileTypeOK /\ Running(installer[i])
      /\ installer[i].alone => \A q \in Roles : q \notin installer[i].committed =>
           dir[Root(q)] = installer[i].snapshot[q] \/ Strange(dir[Root(q)])
  BY AtSteady
<1>2. Aborts(i) /\ installer[i].at[1] \notin Undoing \cup {"preflight", "staging"}
  BY <1>1, Aborting DEF Undoing
<1>3. Tidy(i) /\ \A q \in Roles : Spares(i, q)
  BY TidyStill
<1>4. installer[i].alone => \A q \in Roles :
        IF q \in installer[i].committed THEN Spares(i, q)
        ELSE dir'[Root(q)] = installer[i].snapshot[q] \/ Strange(dir'[Root(q)])
  BY <1>1, <1>3
<1> QED
  BY <1>1, <1>2, <1>3, <1>4, AbortProceeds

LEMMA SteadyProceeds ==
  ASSUME InstallInv, NEW i \in Installers, NEW step \in {"recheck", "verify"}, installer[i].at[1] = step,
         NEW to \in {<<"recheck", "author">>, <<"verify", "author">>, <<"unmark", "runner">>},
         step = "recheck" <=> to = <<"recheck", "author">>, Go(i, to), dir' = dir
  PROVE  Tidy(i) /\ Proceeds(i)
<1> DEFINE s == installer[i]
           t == installer'[i]
<1>1. /\ ProfileTypeOK /\ Course(s) /\ (s.alone => \A q \in Roles : Shape(i, s, dir, q))
  BY AtSteady
<1>2. /\ t.at = to /\ t.found = s.found /\ t.snapshot = s.snapshot
      /\ t.committed = s.committed /\ t.claimed = s.claimed /\ t.moved = s.moved /\ t.whole = s.whole
  BY <1>1, Going DEF Goes, Becomes
<1>3. t.at[1] \in {"recheck", "verify", "unmark"} /\ t.at # <<"unmark", "author">>
      /\ (t.at[1] = "recheck" <=> s.at[1] = "recheck")
  BY <1>2
<1>4. Tidy(i) /\ \A q \in Roles : Spares(i, q)
  BY TidyStill
<1> HIDE DEF s, t
<1>5. Course(t)
  BY <1>1, <1>2, <1>3 DEF Course, Captured, Activating, Undoing, s
<1>6. ASSUME s.alone, NEW q \in Roles PROVE Shape(i, t, dir', q)
  <2>1. Phase(t, q) = Phase(s, q) /\ Phase(s, q) # "move"
    BY <1>2, <1>3, Steady DEF s
  <2>2. s.at[1] \notin {"preflight", "staging"}
    BY DEF s
  <2> QED
    BY <1>1, <1>2, <1>3, <1>4, <1>6, <2>1, <2>2, OtherRole, SparedRemains DEF s
<1> QED
  BY <1>4, <1>5, <1>6 DEF Proceeds, s, t

LEMMA VerifyTells ==
  ASSUME InstallInv, NEW i \in Installers, NEW r \in Roles, Verify(i, r)
  PROVE  Tidy(i) /\ Proceeds(i)
<1>1. installer[i].at = <<"verify", r>> /\ dir' = dir
  BY DEF Verify, At
<1>2. installer[i].at[1] = "verify"
  BY <1>1
<1>3. CASE Abort(i)
  BY <1>1, <1>2, <1>3, AbortSteady
<1>4. ASSUME NEW to \in {<<"verify", "author">>, <<"unmark", "runner">>}, Go(i, to)
      PROVE  Tidy(i) /\ Proceeds(i)
  <2>1. "verify" = "recheck" <=> to = <<"recheck", "author">>
    OBVIOUS
  <2> QED
    BY <1>1, <1>2, <1>4, <2>1, SteadyProceeds
<1> QED
  BY <1>3, <1>4 DEF Verify

(* From the second look at the roots to the first activation. *)
LEMMA ActivationProceeds ==
  ASSUME InstallInv, NEW i \in Installers, installer[i].at[1] = "recheck",
         Go(i, FirstActivation(i)), dir' = dir
  PROVE  Tidy(i) /\ Proceeds(i)
<1> DEFINE s == installer[i]
           t == installer'[i]
           r == IF "runner" \in Replaced(s.found) THEN "runner" ELSE "author"
<1>1. /\ ProfileTypeOK /\ Course(s) /\ (s.alone => \A q \in Roles : Shape(i, s, dir, q))
      /\ s.committed = {}
  BY AtSteady
<1>2. /\ t.at = FirstActivation(i) /\ t.found = s.found /\ t.snapshot = s.snapshot
      /\ t.committed = s.committed /\ t.claimed = s.claimed /\ t.moved = s.moved /\ t.whole = s.whole
  BY <1>1, Going DEF Goes, Becomes
<1>3. r \in Replaced(s.found) /\ r \in Roles /\ (r = "author" => Replaced(s.found) = {"author"})
      /\ Replaced(s.found) \subseteq Roles
  <2>1. Replaced(s.found) # {}
    BY <1>1 DEF Course
  <2> QED
    BY <2>1 DEF Replaced, Roles
<1>4. FirstActivation(i) = IF s.snapshot[r] = {} THEN <<"claim", r>> ELSE <<"swap", r>>
  BY DEF FirstActivation, Activate
<1>5. Tidy(i) /\ \A q \in Roles : Spares(i, q)
  BY TidyStill
<1>6. s.at[1] = "recheck"
  OBVIOUS
<1> HIDE DEF s, t, r
<1>7. PICK to \in {"claim", "swap"} : /\ t.at = <<to, r>> /\ t.at[1] = to /\ t.at[2] = r
                                      /\ to = "claim" <=> t.snapshot[r] = {}
  <2>1. CASE s.snapshot[r] = {}
    <3>1. t.at = <<"claim", r>>
      BY <1>2, <1>4, <2>1
    <3>2. t.at[1] = "claim" /\ t.at[2] = r /\ t.snapshot[r] = {}
      BY <1>2, <2>1, <3>1
    <3> QED
      BY <3>1, <3>2
  <2>2. CASE s.snapshot[r] # {}
    <3>1. t.at = <<"swap", r>>
      BY <1>2, <1>4, <2>2
    <3>2. t.at[1] = "swap" /\ t.at[2] = r /\ t.snapshot[r] # {}
      BY <1>2, <2>2, <3>1
    <3> QED
      BY <3>1, <3>2
  <2> QED
    BY <2>1, <2>2
<1>8. to \in Activating /\ to \notin Undoing /\ (to \in Exchanging <=> to = "swap")
  BY <1>7 DEF Activating, Undoing, Exchanging
<1>9. \A q \in Roles : /\ s.found[q] = Inspect(s.snapshot[q]) /\ s.found[q] # "invalid"
                       /\ Single(s.snapshot[q])
  BY <1>1, <1>6 DEF Course, Captured
<1>10. s.whole /\ s.claimed = {} /\ s.moved = {}
  BY <1>1, <1>6 DEF Course, Undoing
<1>11. Course(t)
  BY <1>1, <1>2, <1>3, <1>7, <1>8, <1>9, <1>10 DEF Course
<1>12. ASSUME s.alone, NEW q \in Roles PROVE Shape(i, t, dir', q)
  <2>1. Phase(s, q) = "waiting"
    BY <1>1, <1>6, Steady
  <2>2. Phase(t, q) = IF q = r THEN to ELSE "waiting"
    BY <1>1, <1>2, <1>3, <1>7, <1>8, PhaseIs
  <2>3. Form(i, "waiting", s.snapshot[q], dir[Root(q)], dir[Stage(i, q)], dir[Backup(i, q)],
             Staged(s, q), s.moved, Plain(s, q)) /\ Spares(i, q)
    BY <1>1, <1>5, <1>12, <2>1 DEF Shape
  <2>4. q = r => Staged(s, q)
    BY <1>3, <1>6 DEF Staged
  <2>5. Staged(t, q) => Staged(s, q)
    BY <1>2, <1>6 DEF Staged
  <2>6. Form(i, Phase(t, q), s.snapshot[q], dir[Root(q)], dir[Stage(i, q)], dir[Backup(i, q)],
             Staged(t, q), t.moved, Plain(t, q))
    BY <1>7, <2>2, <2>3, <2>4, <2>5 DEF Form
  <2> QED
    BY <1>2, <2>3, <2>6 DEF Shape, Spares
<1> QED
  BY <1>5, <1>11, <1>12 DEF Proceeds, s, t

LEMMA RecheckTells ==
  ASSUME InstallInv, NEW i \in Installers, NEW r \in Roles, Recheck(i, r)
  PROVE  Tidy(i) /\ Proceeds(i)
<1>1. installer[i].at = <<"recheck", r>> /\ dir' = dir
  BY DEF Recheck, At
<1>2. installer[i].at[1] = "recheck"
  BY <1>1
<1>3. CASE Abort(i)
  BY <1>1, <1>2, <1>3, AbortSteady
<1>4. CASE Go(i, <<"recheck", "author">>)
  <2>1. <<"recheck", "author">> = <<"recheck", "author">>
    OBVIOUS
  <2> QED
    BY <1>1, <1>2, <1>4, <2>1, SteadyProceeds
<1>5. CASE Go(i, FirstActivation(i))
  BY <1>1, <1>2, <1>5, ActivationProceeds
<1> QED
  BY <1>3, <1>4, <1>5 DEF Recheck

(* An installation that ends is no longer bound to anything. *)
LEMMA EndTells ==
  ASSUME InstallInv, NEW i \in Installers, NEW how \in {"done", "failed", "dead"},
         installer' = [installer EXCEPT ![i] = Ended(how)]
  PROVE  Proceeds(i)
<1>1. installer'[i].at = <<how, "runner">>
  BY Ending DEF InstallInv, ProfileInv
<1> QED
  BY <1>1 DEF Proceeds, Running

LEMMA PreflightTells ==
  ASSUME InstallInv, NEW i \in Installers, NEW r \in Roles, Preflight(i, r)
  PROVE  Tidy(i) /\ Proceeds(i)
<1> DEFINE s == installer[i]
           to == IF r = "runner" THEN <<"preflight", "author">> ELSE <<"staging", "runner">>
           state == Inspect(dir[Root(r)])
           now == [s EXCEPT !.found[r] = state, !.snapshot[r] = dir[Root(r)], !.at = to]
<1>1. /\ s.at = <<"preflight", r>> /\ s.at[1] = "preflight" /\ s.at[2] = r /\ Running(s) /\ dir' = dir
      /\ s.committed = {}
  BY DEF Preflight, At, Running, InstallInv, ProfileInv, InOrder
<1>2. /\ ProfileTypeOK /\ StateTyped(s) /\ Course(s)
      /\ (s.alone => \A q \in Roles : Shape(i, s, dir, q))
  BY <1>1, Knows
<1>3. Tidy(i) /\ \A q \in Roles : Spares(i, q)
  BY <1>1, TidyStill
<1>4. CASE \E how \in {"done", "failed"} : installer' = [installer EXCEPT ![i] = Ended(how)]
  BY <1>3, <1>4, EndTells
<1>5. CASE /\ installer' = [installer EXCEPT ![i] = now] /\ state # "invalid"
           /\ r = "author" => Replaced(now.found) # {}
  <2> DEFINE t == installer'[i]
  <2>1. t = now
    BY <1>2, <1>5 DEF ProfileTypeOK
  <2>2. /\ t.at = to
        /\ t.found = [s.found EXCEPT ![r] = state]
        /\ t.snapshot = [s.snapshot EXCEPT ![r] = dir[Root(r)]]
        /\ t.committed = s.committed /\ t.claimed = s.claimed /\ t.moved = s.moved /\ t.whole = s.whole
    BY <1>2, <2>1 DEF StateTyped, StateFields
  <2>3. r = "author" => Replaced(t.found) # {}
    BY <1>5, <2>1
  <2>4. Single(dir[Root(r)])
    BY PathsDiffer DEF InstallInv
  <2> HIDE DEF s, t
  <2>5. /\ t.at[1] \in {"preflight", "staging"}
        /\ IF r = "runner" THEN t.at[1] = "preflight" /\ t.at[2] = "author" ELSE t.at[1] = "staging"
    BY <2>2
  <2> HIDE DEF to
  <2>6. \A q \in Roles : Captured(t, q) => q = r \/ Captured(s, q)
    BY <1>1, <2>5 DEF Captured, Roles
  <2>7. /\ t.found[r] = state /\ t.snapshot[r] = dir[Root(r)]
        /\ \A q \in Roles \ {r} : t.found[q] = s.found[q] /\ t.snapshot[q] = s.snapshot[q]
    BY <1>2, <2>2 DEF StateTyped
  <2>8. ASSUME NEW q \in Roles, Captured(t, q)
        PROVE  t.found[q] = Inspect(t.snapshot[q]) /\ t.found[q] # "invalid" /\ Single(t.snapshot[q])
    <3>1. CASE q = r
      BY <1>5, <2>4, <2>7, <3>1
    <3>2. CASE q # r
      <4>1. Captured(s, q)
        BY <2>6, <2>8, <3>2
      <4>2. s.found[q] = Inspect(s.snapshot[q]) /\ s.found[q] # "invalid" /\ Single(s.snapshot[q])
        BY <1>2, <4>1 DEF Course
      <4> QED
        BY <2>7, <3>2, <4>2
    <3> QED
      BY <3>1, <3>2
  <2>9. s.whole /\ s.claimed = {} /\ s.moved = {}
    BY <1>1, <1>2 DEF Course, Undoing
  <2>10. t.at[1] = "staging" => r = "author"
    BY <2>5 DEF Roles
  <2> HIDE DEF now, state
  <2>11. /\ t.committed = {} /\ t.claimed = {} /\ t.moved = {} /\ t.whole
    BY <1>1, <2>2, <2>9
  <2>12. Course(t)
    BY <2>3, <2>5, <2>8, <2>10, <2>11 DEF Course, Activating, Undoing
  <2>13. ASSUME s.alone, NEW q \in Roles PROVE Shape(i, t, dir', q)
    <3>1. Phase(t, q) \in {"open", "waiting"} /\ (Phase(t, q) = "waiting" <=> Captured(t, q))
      BY <2>5, <2>11 DEF Phase, Taken, Activating, Undoing
    <3>2. Phase(s, q) \in {"open", "waiting"} /\ (Phase(s, q) = "waiting" <=> Captured(s, q))
      BY <1>1 DEF Phase, Taken, Activating, Undoing
    <3>3. ~Staged(t, q)
      BY <2>5 DEF Staged
    <3>4. Form(i, Phase(s, q), s.snapshot[q], dir[Root(q)], dir[Stage(i, q)], dir[Backup(i, q)],
               Staged(s, q), s.moved, Plain(s, q))
      BY <1>2, <2>13 DEF Shape
    <3>5. dir[Backup(i, q)] = {}
      BY <3>2, <3>4 DEF Form
    <3>6. Captured(t, q) => dir[Root(q)] = t.snapshot[q] \/ Strange(dir[Root(q)])
      <4>1. CASE q = r
        BY <2>7, <4>1
      <4>2. CASE q # r
        BY <2>6, <2>7, <3>2, <3>4, <4>2 DEF Form
      <4> QED
        BY <4>1, <4>2
    <3>7. Form(i, Phase(t, q), t.snapshot[q], dir[Root(q)], dir[Stage(i, q)], dir[Backup(i, q)],
               Staged(t, q), t.moved, Plain(t, q))
      BY <3>1, <3>3, <3>5, <3>6 DEF Form
    <3> QED
      BY <1>1, <3>7 DEF Shape
  <2> QED
    BY <1>3, <2>12, <2>13 DEF Proceeds, s, t
<1> QED
  BY <1>4, <1>5 DEF Preflight

LEMMA PrepareTells ==
  ASSUME InstallInv, NEW i \in Installers, PrepareProfiles(i)
  PROVE  Tidy(i) /\ Proceeds(i)
<1> DEFINE s == installer[i]
           t == installer'[i]
           cordis(p) == \E d \in dir[Root(p[3])] : s.snapshot[p[3]] # {} /\ d.cordis
           new(p) == [Made(i) EXCEPT !.has = Parts, !.cordis = cordis(p)]
<1>1. s.at = <<"staging", "runner">>
  BY Zenon DEF PrepareProfiles, At
<1>2. /\ s.at[1] = "staging" /\ ProfileTypeOK /\ Course(s) /\ s.committed = {}
      /\ (s.alone => \A q \in Roles : Shape(i, s, dir, q))
  BY <1>1, AtSteady
<1>3. CASE installer' = [installer EXCEPT ![i] = Ended("failed")] /\ dir' = dir
  BY <1>3, TidyStill, EndTells
<1>4. CASE /\ Go(i, <<"recheck", "runner">>)
           /\ dir' = [p \in Paths |->
                IF \E r \in Replaced(s.found) : p = Stage(i, r) THEN {new(p)} ELSE dir[p]]
  <2>1. ASSUME NEW p PROVE Ours({new(p)}, TRUE) /\ Single({new(p)})
    <3>1. new(p).release = "target" /\ new(p).has = Parts /\ ~new(p).strange /\ new(p).marker = "none"
      BY DEF Made
    <3> HIDE DEF new
    <3> QED
      BY <3>1 DEF Ours, Single
  <2> HIDE DEF new
  <2>2. ASSUME NEW q \in Roles
        PROVE  /\ dir'[Root(q)] = dir[Root(q)]
               /\ \A j \in Installers : dir'[Backup(j, q)] = dir[Backup(j, q)]
               /\ q \in Replaced(s.found) => Ours(dir'[Stage(i, q)], TRUE)
    BY <1>4, <2>1, PathsDiffer DEF Replaced
  <2>3. ASSUME NEW p \in Paths PROVE Single(dir'[p])
    <3>1. dir'[p] = {new(p)} \/ dir'[p] = dir[p]
      BY <1>4
    <3> QED
      BY <2>1, <3>1 DEF InstallInv
  <2>4. Tidy(i)
    BY <2>2, <2>3 DEF Tidy
  <2>5. /\ t.at = <<"recheck", "runner">> /\ t.found = s.found /\ t.snapshot = s.snapshot
        /\ t.committed = s.committed /\ t.claimed = s.claimed /\ t.moved = s.moved /\ t.whole = s.whole
    BY <1>2, <1>4, Going DEF Goes, Becomes
  <2> HIDE DEF s, t
  <2>6. t.at[1] = "recheck"
    BY <2>5
  <2>7. Course(t)
    BY <1>2, <2>5, <2>6 DEF Course, Captured, Activating, Undoing
  <2>8. ASSUME s.alone, NEW q \in Roles PROVE Shape(i, t, dir', q)
    <3>1. Phase(s, q) = "waiting" /\ Phase(t, q) = "waiting"
      BY <1>2, <2>5, <2>6, Steady
    <3>2. Form(i, "waiting", s.snapshot[q], dir[Root(q)], dir[Stage(i, q)], dir[Backup(i, q)],
               Staged(s, q), s.moved, Plain(s, q))
      BY <1>2, <2>8, <3>1 DEF Shape
    <3>3. Staged(t, q) => q \in Replaced(s.found)
      BY <2>5 DEF Staged
    <3>4. Form(i, "waiting", t.snapshot[q], dir'[Root(q)], dir'[Stage(i, q)], dir'[Backup(i, q)],
               Staged(t, q), t.moved, Plain(t, q))
      BY <2>2, <2>5, <3>2, <3>3 DEF Form
    <3> QED
      BY <3>1, <3>4 DEF Shape
  <2> QED
    BY <2>4, <2>7, <2>8 DEF Proceeds, s, t
<1> QED
  BY <1>3, <1>4 DEF PrepareProfiles, Do

(* The new release, with its marker gone, is what a later run finds. *)
LEMMA OursIsFound ==
  ASSUME NEW ds, Ours(ds, TRUE)
  PROVE  Inspect(ds) = "target"
<1>1. PICK x \in ds : ds = {x} /\ x.release = "target" /\ x.has = Parts /\ ~x.strange /\ x.marker = "none"
  BY DEF Ours
<1>2. (CHOOSE d \in ds : TRUE) = x
  BY <1>1
<1> QED
  BY <1>1, <1>2 DEF Inspect, Installed

(* The marker of one role goes, and then that of the other. *)
LEMMA UnmarkProceeds ==
  ASSUME InstallInv, NEW i \in Installers, NEW r \in Roles, installer[i].at = <<"unmark", r>>,
         Go(i, IF r = "runner" THEN <<"unmark", "author">> ELSE <<"sweep", "runner">>),
         \A q \in Roles \ {r} : Spares(i, q),
         dir'[Stage(i, r)] = dir[Stage(i, r)], dir'[Backup(i, r)] = dir[Backup(i, r)],
         r \notin installer[i].claimed => dir'[Root(r)] = dir[Root(r)],
         Strange(dir[Root(r)]) => Strange(dir'[Root(r)]),
         r \in installer[i].claimed /\ Ours(dir[Root(r)], FALSE) => Ours(dir'[Root(r)], TRUE)
  PROVE  Proceeds(i)
<1> DEFINE s == installer[i]
           t == installer'[i]
<1>1. /\ s.at[1] = "unmark" /\ s.at[2] = r /\ ProfileTypeOK /\ Course(s)
      /\ (s.alone => \A q \in Roles : Shape(i, s, dir, q))
  BY AtSteady
<1>2. /\ t.at = IF r = "runner" THEN <<"unmark", "author">> ELSE <<"sweep", "runner">>
      /\ t.found = s.found /\ t.snapshot = s.snapshot
      /\ t.committed = s.committed /\ t.claimed = s.claimed /\ t.moved = s.moved /\ t.whole = s.whole
  BY <1>1, Going DEF Goes, Becomes
<1>3. s.whole /\ s.committed = Replaced(s.found) /\ s.claimed \subseteq s.committed /\ s.moved = {}
  BY <1>1 DEF Course, Undoing
<1>4. \A q \in Roles : s.found[q] = Inspect(s.snapshot[q])
  BY <1>1 DEF Course, Captured
<1> HIDE DEF s, t
(* What is there of a role that was committed, and of one that was not. *)
<1>5. ASSUME s.alone, NEW q \in Roles
      PROVE  /\ q \in s.committed => /\ dir'[Backup(i, q)] = t.snapshot[q] /\ dir'[Stage(i, q)] = {}
                                     /\ \/ Strange(dir'[Root(q)])
                                        \/ Ours(dir'[Root(q)], q \notin s.claimed \/ q = r \/ r = "author")
             /\ q \notin s.committed => /\ dir'[Backup(i, q)] = {}
                                        /\ dir'[Root(q)] = t.snapshot[q] \/ Strange(dir'[Root(q)])
  <2>1. Phase(s, q) = IF q \in s.committed THEN "taken" ELSE "waiting"
    BY <1>1, Steady
  <2>2. Form(i, Phase(s, q), s.snapshot[q], dir[Root(q)], dir[Stage(i, q)], dir[Backup(i, q)],
             Staged(s, q), s.moved, Plain(s, q))
    BY <1>1, <1>5 DEF Shape
  <2>3. dir'[Backup(i, q)] = dir[Backup(i, q)] /\ dir'[Stage(i, q)] = dir[Stage(i, q)]
    BY DEF Spares
  <2>4. ASSUME q \in s.committed
        PROVE  /\ dir'[Backup(i, q)] = t.snapshot[q] /\ dir'[Stage(i, q)] = {}
               /\ \/ Strange(dir'[Root(q)])
                  \/ Ours(dir'[Root(q)], q \notin s.claimed \/ q = r \/ r = "author")
    <3>1. /\ dir[Backup(i, q)] = s.snapshot[q] /\ dir[Stage(i, q)] = {}
          /\ Ours(dir[Root(q)], Plain(s, q)) \/ Strange(dir[Root(q)])
      BY <2>1, <2>2, <2>4 DEF Form
    <3>2. CASE q = r /\ r \in s.claimed
      <4>1. Ours(dir'[Root(q)], TRUE) \/ Strange(dir'[Root(q)])
        BY <3>1, <3>2 DEF Ours, s
      <4> QED
        BY <1>2, <2>3, <3>1, <4>1 DEF Ours
    <3>3. CASE q = r /\ r \notin s.claimed
      <4>1. dir'[Root(q)] = dir[Root(q)] /\ Plain(s, q)
        BY <3>3 DEF Plain, s
      <4> QED
        BY <1>2, <2>3, <3>1, <4>1 DEF Ours
    <3>4. CASE q # r
      <4>1. dir'[Root(q)] = dir[Root(q)]
        BY <3>4 DEF Spares
      <4>2. Plain(s, q) <=> q \notin s.claimed \/ r = "author"
        BY <1>1, <3>4 DEF Plain, Roles, s
      <4> QED
        BY <1>2, <2>3, <3>1, <3>4, <4>1, <4>2 DEF Ours
    <3> QED
      BY <3>2, <3>3, <3>4
  <2>5. ASSUME q \notin s.committed
        PROVE  /\ dir'[Backup(i, q)] = {}
               /\ dir'[Root(q)] = t.snapshot[q] \/ Strange(dir'[Root(q)])
    <3>1. q \notin s.claimed
      BY <1>3, <2>5
    <3>2. dir'[Root(q)] = dir[Root(q)]
      BY <3>1 DEF Spares, s
    <3> QED
      BY <1>2, <2>1, <2>2, <2>3, <2>5, <3>2 DEF Form
  <2> QED
    BY <2>4, <2>5
<1>6. CASE r = "runner"
  <2>1. t.at = <<"unmark", "author">>
    BY <1>2, <1>6
  <2>2. t.at[1] = "unmark"
    BY <2>1
  <2>3. Course(t)
    BY <1>1, <1>2, <2>2 DEF Course, Captured, Activating, Undoing
  <2>4. ASSUME s.alone, NEW q \in Roles PROVE Shape(i, t, dir', q)
    <3>1. Phase(t, q) = IF q \in s.committed THEN "taken" ELSE "waiting"
      BY <1>2, <2>2, Steady
    <3>2. Staged(t, q) => q \in s.committed
      BY <1>2, <1>3 DEF Staged
    <3>3. Plain(t, q) => q \notin s.claimed \/ q = r
      BY <1>2, <1>6 DEF Plain
    <3>4. Form(i, Phase(t, q), t.snapshot[q], dir'[Root(q)], dir'[Stage(i, q)], dir'[Backup(i, q)],
               Staged(t, q), t.moved, Plain(t, q))
      <4>1. CASE q \in s.committed
        BY <1>5, <2>4, <3>1, <3>3, <4>1 DEF Form, Ours
      <4>2. CASE q \notin s.committed
        BY <1>5, <2>4, <3>1, <3>2, <4>2 DEF Form
      <4> QED
        BY <4>1, <4>2
    <3> QED
      BY <3>4 DEF Shape
  <2> QED
    BY <2>3, <2>4 DEF Proceeds, s, t
<1>7. CASE r = "author"
  <2>1. t.at = <<"sweep", "runner">>
    BY <1>2, <1>7
  <2>2. t.at[1] = "sweep" /\ t.at[2] = "runner"
    BY <2>1
  <2>3. Course(t)
    BY <1>1, <1>2, <1>3, <2>2 DEF Course, Captured, Activating, Undoing
  <2>4. ASSUME s.alone, NEW q \in Roles PROVE Shape(i, t, dir', q)
    <3>1. Phase(t, q) = "through"
      BY <1>2, <1>3, <2>1, <2>2 DEF Phase, Captured, Taken, Activating, Undoing
    <3>2. Inspect(dir'[Root(q)]) = "target" \/ Strange(dir'[Root(q)])
      <4>1. CASE q \in s.committed
        <5>1. Ours(dir'[Root(q)], TRUE) \/ Strange(dir'[Root(q)])
          BY <1>5, <1>7, <2>4, <4>1
        <5> QED
          BY <5>1, OursIsFound
      <4>2. CASE q \notin s.committed
        <5>1. s.found[q] = "target" /\ Inspect(t.snapshot[q]) = "target"
          BY <1>2, <1>3, <1>4, <4>2 DEF Replaced
        <5> QED
          BY <1>5, <2>4, <4>2, <5>1
      <4> QED
        BY <4>1, <4>2
    <3>3. Form(i, Phase(t, q), t.snapshot[q], dir'[Root(q)], dir'[Stage(i, q)], dir'[Backup(i, q)],
               Staged(t, q), t.moved, Plain(t, q))
      BY <3>1, <3>2 DEF Form
    <3> QED
      BY <3>3 DEF Shape
  <2> QED
    BY <2>3, <2>4 DEF Proceeds, s, t
<1> QED
  BY <1>6, <1>7 DEF Roles

LEMMA UnmarkTells ==
  ASSUME InstallInv, NEW i \in Installers, NEW r \in Roles, Unmark(i, r)
  PROVE  Tidy(i) /\ Proceeds(i)
<1> DEFINE to == IF r = "runner" THEN <<"unmark", "author">> ELSE <<"sweep", "runner">>
           out(d) == [d EXCEPT !.marker = "none"]
           ds == {out(d) : d \in dir[Root(r)]}
<1>1. installer[i].at = <<"unmark", r>>
  BY Zenon DEF Unmark, At
<1>2. installer[i].at[1] = "unmark" /\ ProfileTypeOK
  BY <1>1 DEF InstallInv, ProfileInv
<1>3. CASE Abort(i) /\ dir' = dir
  BY <1>2, <1>3, AbortSteady
<1>4. CASE r \notin installer[i].claimed /\ Go(i, to) /\ dir' = dir
  <2>1. Tidy(i) /\ \A q \in Roles : Spares(i, q)
    BY <1>4, TidyStill
  <2> QED
    BY <1>1, <1>4, <2>1, UnmarkProceeds
<1>5. CASE r \in installer[i].claimed /\ Go(i, to) /\ dir' = [dir EXCEPT ![Root(r)] = ds]
  <2>1. ASSUME NEW d \in dir[Root(r)]
        PROVE  /\ out(d).release = d.release /\ out(d).has = d.has /\ out(d).strange = d.strange
               /\ out(d).marker = "none"
    BY <1>2, Fields, PathsDiffer
  <2>2. Single(dir[Root(r)])
    BY PathsDiffer DEF InstallInv
  <2> HIDE DEF out
  <2>3. Single(ds) /\ (Strange(dir[Root(r)]) => Strange(ds))
    BY <2>1, <2>2 DEF Single, Strange
  <2>4. ASSUME Ours(dir[Root(r)], FALSE) PROVE Ours(ds, TRUE)
    <3>1. PICK x \in dir[Root(r)] : dir[Root(r)] = {x} /\ x.release = "target" /\ x.has = Parts /\ ~x.strange
      BY <2>4 DEF Ours
    <3>2. ds = {out(x)}
      BY <3>1
    <3> QED
      BY <2>1, <3>1, <3>2 DEF Ours
  <2> HIDE DEF ds
  <2>5. /\ Tidy(i) /\ dir'[Root(r)] = ds /\ dir'[Stage(i, r)] = dir[Stage(i, r)]
        /\ dir'[Backup(i, r)] = dir[Backup(i, r)] /\ \A q \in Roles \ {r} : Spares(i, q)
    BY <1>5, <2>3, TidyRoot
  <2> QED
    BY <1>1, <1>5, <2>3, <2>4, <2>5, UnmarkProceeds
<1> QED
  BY <1>3, <1>4, <1>5 DEF Unmark, Do

LEMMA UndoTells ==
  ASSUME InstallInv, NEW i \in Installers, NEW r \in Roles, Undo(i, r)
  PROVE  Tidy(i) /\ Proceeds(i)
<1> DEFINE s == installer[i]
           t == installer'[i]
<1>1. s.at = <<"undo", r>> /\ s.at[1] = "undo" /\ s.at[2] = r /\ Running(s)
  BY DEF Undo, At, Running
<1>2. /\ ProfileTypeOK /\ Course(s) /\ (s.alone => \A q \in Roles : Shape(i, s, dir, q))
      /\ r \in Taken(s) /\ Taken(s) \subseteq s.committed
  BY <1>1, Knows DEF InstallInv, ProfileInv, InOrder, Taken
<1>3. s.alone => /\ dir[Backup(i, r)] = s.snapshot[r] /\ dir[Stage(i, r)] = {}
                 /\ dir[Root(r)] # {}
  <2>1. Phase(s, r) = "taken"
    BY <1>1, <1>2 DEF Phase, Captured, Activating
  <2> QED
    BY <1>2, <2>1 DEF Shape, Form, Ours, Strange
<1>4. CASE CanRename(Root(r), Stage(i, r))
  <2>1. /\ t.at = <<"restore", r>> /\ t.found = s.found /\ t.snapshot = s.snapshot
        /\ t.committed = s.committed /\ t.claimed = s.claimed /\ t.moved = s.moved /\ t.whole = s.whole
    BY <1>2, <1>4, Going DEF Undo, Goes, Becomes
  <2>2. t.at[1] = "restore" /\ t.at[2] = r
    BY <2>1
  <2>3. dir' = Renamed(Root(r), Stage(i, r))
    BY <1>4 DEF Undo, Do
  <2>4. /\ Tidy(i) /\ dir'[Root(r)] = {} /\ dir'[Backup(i, r)] = dir[Backup(i, r)]
        /\ \A q \in Roles \ {r} : Spares(i, q)
    BY <1>4, <2>3, TidyRename, PathsDiffer
  <2> HIDE DEF s, t
  <2>5. Course(t)
    BY <1>1, <1>2, <2>1, <2>2 DEF Course, Captured, Activating, Undoing
  <2>6. ASSUME s.alone, NEW q \in Roles PROVE Shape(i, t, dir', q)
    <3>1. CASE q = r
      <4>1. Phase(t, q) = "restore"
        BY <2>1, <2>2, <3>1 DEF Phase, Captured, Activating, Taken
      <4>2. Form(i, "restore", t.snapshot[q], dir'[Root(q)], dir'[Stage(i, q)], dir'[Backup(i, q)],
                 Staged(t, q), t.moved, Plain(t, q))
        BY <1>3, <2>1, <2>4, <2>6, <3>1 DEF Form
      <4> QED
        BY <4>1, <4>2 DEF Shape
    <3>2. CASE q # r
      <4>1. q \in Taken(s) <=> q \in Taken(t)
        BY <1>1, <2>1, <2>2, <3>2 DEF Taken
      <4>2. s.at # <<"restore", q>> /\ t.at # <<"restore", q>> /\ t.at # <<"unmark", "author">>
        BY <1>1, <2>1, <3>2
      <4>3. /\ Phase(s, q) = IF q \in Taken(s) THEN "taken" ELSE "back"
            /\ Phase(t, q) = IF q \in Taken(t) THEN "taken" ELSE "back"
        BY <1>1, <2>2, <4>2 DEF Phase, Captured, Activating, Undoing
      <4>4. Phase(t, q) = Phase(s, q) /\ Phase(s, q) # "move"
        BY <4>1, <4>3
      <4> QED
        BY <1>1, <1>2, <2>1, <2>4, <2>6, <3>2, <4>2, <4>4, OtherRole, SparedRemains DEF s
    <3> QED
      BY <3>1, <3>2
  <2> QED
    BY <2>4, <2>5, <2>6 DEF Proceeds, s, t
<1>5. CASE ~CanRename(Root(r), Stage(i, r))
  <2>1. Go(i, NextUndo(s.committed \ {r, "author"})) /\ dir' = dir
    BY <1>5 DEF Undo
  <2>2. Goes(i, NextUndo(s.committed \ {r, "author"}))
    BY <1>2, <2>1, Going
  <2>3. ~s.alone
    BY <1>3, <1>5, Renamable DEF CanRename
  <2>4. Tidy(i) /\ \A q \in Roles \ {r} : Spares(i, q)
    BY <2>1, TidyStill
  <2> QED
    BY <1>1, <2>2, <2>3, <2>4, UndoneProceeds
<1> QED
  BY <1>4, <1>5

LEMMA RestoreTells ==
  ASSUME InstallInv, NEW i \in Installers, NEW r \in Roles, Restore(i, r)
  PROVE  Tidy(i) /\ Proceeds(i)
<1> DEFINE s == installer[i]
<1>1. /\ s.at = <<"restore", r>> /\ s.at[1] = "restore" /\ s.at[2] = r /\ Running(s)
      /\ Go(i, NextUndo(s.committed \ {r, "author"})) /\ PutBack(i, r)
  BY DEF Restore, At, Running
<1>2. ProfileTypeOK /\ (s.alone => \A q \in Roles : Shape(i, s, dir, q))
  BY <1>1, Knows
<1>3. ASSUME s.alone
      PROVE  /\ dir[Root(r)] = {} \/ Strange(dir[Root(r)])
             /\ dir[Backup(i, r)] = s.snapshot[r]
  <2>1. Phase(s, r) = "restore"
    BY <1>1 DEF Phase, Captured, Activating, Taken
  <2> QED
    BY <1>2, <1>3, <2>1 DEF Shape, Form
<1>4. /\ Tidy(i) /\ \A q \in Roles \ {r} : Spares(i, q)
      /\ IF CanRename(Backup(i, r), Root(r)) THEN dir'[Root(r)] = dir[Backup(i, r)] ELSE dir' = dir
  BY <1>1, PutBackTells
<1>5. ASSUME s.alone PROVE dir'[Root(r)] = s.snapshot[r] \/ Strange(dir'[Root(r)])
  BY <1>3, <1>4, <1>5, Renamable
<1>6. Goes(i, NextUndo(s.committed \ {r, "author"}))
  BY <1>1, <1>2, Going
<1> QED
  BY <1>1, <1>4, <1>5, <1>6, UndoneProceeds

LEMMA SweepTells ==
  ASSUME InstallInv, NEW i \in Installers, Sweep(i)
  PROVE  /\ Tidy(i) /\ Proceeds(i)
         /\ installer'[i].at[1] = IF installer[i].whole THEN "done" ELSE "failed"
         /\ \A r \in Roles : dir'[Root(r)] = dir[Root(r)]
<1> DEFINE how == IF installer[i].whole THEN "done" ELSE "failed"
           gone(p) == p[2] = i /\ (p[1] = "stage" \/ (p[1] = "backup" /\ installer[i].whole))
<1>1. installer' = [installer EXCEPT ![i] = Ended(how)] /\ how \in {"done", "failed", "dead"}
  BY DEF Sweep
<1>2. dir' = [p \in Paths |-> IF gone(p) THEN {} ELSE dir[p]]
  BY DEF Sweep, Do
<1>3. installer'[i].at[1] = how
  <2>1. ProfileTypeOK
    BY DEF InstallInv, ProfileInv
  <2> HIDE DEF how
  <2>2. installer'[i].at = <<how, "runner">>
    BY <1>1, <2>1, Ending
  <2> QED
    BY <2>2
<1>4. ASSUME NEW r \in Roles PROVE Root(r) \in Paths /\ ~gone(Root(r))
  BY DEF Root, Paths
<1> HIDE DEF gone
<1>5. \A p \in Paths : dir'[p] \in {{}, dir[p]}
  BY <1>2
<1>6. Tidy(i)
  <2>1. ASSUME NEW p \in Paths PROVE Single(dir'[p])
    BY <1>5 DEF InstallInv, Single
  <2>2. ASSUME NEW j \in Installers \ {i}, NEW q \in Roles, dir[Backup(j, q)] = {}
        PROVE  dir'[Backup(j, q)] = {}
    BY <1>5, <2>2, PathsDiffer
  <2> QED
    BY <2>1, <2>2 DEF Tidy
<1>7. Proceeds(i)
  BY <1>1, EndTells
<1> QED
  BY <1>2, <1>3, <1>4, <1>6, <1>7

(* Every step of an installation that is under way. *)
LEMMA InstallTells ==
  ASSUME InstallInv, NEW i \in Installers, Install(i), ~Start(i)
  PROVE  Tidy(i) /\ Proceeds(i)
<1>1. CASE PrepareProfiles(i) \/ Sweep(i)
  BY <1>1, PrepareTells, SweepTells
<1>2. CASE Die(i)
  BY <1>2, TidyStill, EndTells DEF Die
<1>3. ASSUME NEW r \in Roles,
             Preflight(i, r) \/ Recheck(i, r) \/ Verify(i, r) \/ Unmark(i, r) \/ Undo(i, r) \/ Restore(i, r)
      PROVE  Tidy(i) /\ Proceeds(i)
  BY <1>3, PreflightTells, RecheckTells, VerifyTells, UnmarkTells, UndoTells, RestoreTells
<1>4. ASSUME NEW r \in Roles, Activation(i, r)
      PROVE  Tidy(i) /\ Proceeds(i)
  BY <1>4, SwapTells, CompareTells, PlaceTells, ClaimTells, MarkTells, WriteMarkerTells, MoveTells,
     UnclaimTells, ReleaseTells DEF Activation
<1> QED
  BY <1>1, <1>2, <1>3, <1>4 DEF Install

LEMMA StartKeepsInstall ==
  ASSUME InstallInv, NEW i \in Installers, Start(i)
  PROVE  InstallInv'
<1>1. ProfileInv' /\ UNCHANGED <<dir, touched>> /\ installer[i].at = <<"off", "runner">> /\ ProfileTypeOK
  BY StartGoesOn DEF InstallInv, ProfileInv, Start, At
<1> DEFINE alone == \A k \in Installers \ {i} : ~Live(k)
           s == [Fresh EXCEPT !.at = <<"preflight", "runner">>, !.alone = alone]
           t(j) == [installer[j] EXCEPT !.alone = installer[j].alone /\ ~Live(j)]
<1>2. installer' = [j \in Installers |-> IF j = i THEN s ELSE t(j)]
  BY DEF Start
<1>3. /\ s.at = <<"preflight", "runner">> /\ s.committed = {} /\ s.claimed = {} /\ s.moved = {} /\ s.whole
  BY DEF Fresh
<1>4. ASSUME NEW j \in Installers
      PROVE  /\ t(j).at = installer[j].at /\ t(j).found = installer[j].found
             /\ t(j).snapshot = installer[j].snapshot /\ t(j).committed = installer[j].committed
             /\ t(j).claimed = installer[j].claimed /\ t(j).moved = installer[j].moved
             /\ t(j).whole = installer[j].whole /\ t(j).alone = (installer[j].alone /\ ~Live(j))
  BY <1>1 DEF ProfileTypeOK, StateTyped, StateFields
<1> HIDE DEF s, t
<1>5. installer'[i] = s /\ \A j \in Installers \ {i} : installer'[j] = t(j)
  BY <1>2
<1>6. s.at[1] = "preflight" /\ s.at[2] = "runner"
  BY <1>3
<1>7. \A r \in Roles : ~Captured(s, r)
  BY <1>6 DEF Captured
<1>8. Course(s)
  BY <1>3, <1>6, <1>7 DEF Course, Activating, Undoing
<1>9. ASSUME NEW r \in Roles PROVE Shape(i, s, dir', r)
  <2>1. Phase(s, r) = "open"
    BY <1>7 DEF Phase
  <2>2. dir'[Backup(i, r)] = {}
    BY <1>1 DEF InstallInv
  <2> QED
    BY <2>1, <2>2 DEF Shape, Form
<1>10. ASSUME NEW j \in Installers, j # i
       PROVE  /\ installer'[j].at[1] = "off" => \A r \in Roles : dir'[Backup(j, r)] = {}
              /\ Running(installer'[j]) => Course(installer'[j]) /\ ~installer'[j].alone
  <2>1. installer'[j] = t(j)
    BY <1>5, <1>10
  <2>2. installer[j].at[1] = "off" => \A r \in Roles : dir[Backup(j, r)] = {}
    BY DEF InstallInv
  <2>3. Running(installer[j]) => Course(installer[j]) /\ Live(j)
    BY DEF InstallInv, Running, Live
  <2>4. Course(installer[j]) => Course(t(j))
    BY <1>4 DEF Course, Captured
  <2>5. Running(t(j)) => Running(installer[j])
    BY <1>4 DEF Running
  <2> QED
    BY <1>1, <1>4, <2>1, <2>2, <2>3, <2>4, <2>5
<1>11. installer'[i].at[1] # "off"
  BY <1>5, <1>6
<1>12. \A p \in Paths : Single(dir'[p])
  BY <1>1 DEF InstallInv
<1> QED
  BY <1>1, <1>5, <1>8, <1>9, <1>10, <1>11, <1>12 DEF InstallInv

LEMMA OwnerKeepsInstall ==
  ASSUME InstallInv, NEW r \in Roles, OwnerTouches(r)
  PROVE  InstallInv'
<1>1. ProfileInv' /\ installer' = installer /\ ProfileTypeOK
  BY OwnerGoesOn DEF InstallInv, ProfileInv, OwnerTouches
<1> DEFINE fresh == [Made(Nobody) EXCEPT !.strange = TRUE]
           odd(d) == [d EXCEPT !.strange = TRUE]
           now == IF dir[Root(r)] = {} THEN {fresh} ELSE {odd(d) : d \in dir[Root(r)]}
<1>2. dir' = [dir EXCEPT ![Root(r)] = now]
  BY DEF OwnerTouches
<1>3. fresh.strange
  BY DEF Made
<1>4. \A d \in dir[Root(r)] : odd(d).strange
  BY <1>1, Fields, PathsDiffer
<1>5. Single(dir[Root(r)]) /\ Root(r) \in Paths
  BY DEF InstallInv, Root, Paths
<1> HIDE DEF fresh, odd
<1>6. Single(now) /\ Strange(now)
  BY <1>3, <1>4, <1>5 DEF Single, Strange
<1> HIDE DEF now
<1>7. dir'[Root(r)] = now /\ \A p \in Paths \ {Root(r)} : dir'[p] = dir[p]
  BY <1>1, <1>2, <1>5 DEF ProfileTypeOK
<1>8. \A p \in Paths : Single(dir'[p])
  BY <1>6, <1>7 DEF InstallInv
<1>9. ASSUME NEW j \in Installers, NEW q \in Roles
      PROVE  /\ dir'[Backup(j, q)] = dir[Backup(j, q)] /\ dir'[Stage(j, q)] = dir[Stage(j, q)]
             /\ dir'[Root(q)] = dir[Root(q)] \/ Strange(dir'[Root(q)])
  BY <1>6, <1>7, PathsDiffer
<1>10. ASSUME NEW j \in Installers, NEW q \in Roles, Shape(j, installer[j], dir, q)
       PROVE  Shape(j, installer[j], dir', q)
  BY <1>9, <1>10 DEF Shape, Form
<1> QED
  BY <1>1, <1>8, <1>9, <1>10 DEF InstallInv

LEMMA InstallInvInit == ProfileInit => InstallInv
<1> SUFFICES ASSUME ProfileInit PROVE InstallInv
  OBVIOUS
<1>1. PICK was \in [Roles -> {"missing", "legacy", "accepted", "target"}], cordis \in BOOLEAN :
        dir = [p \in Paths |-> {Whole(was[r], cordis /\ r = "runner") :
                                  r \in {q \in Roles : p = Root(q) /\ was[q] # "missing"}}]
  BY DEF ProfileInit
<1>2. ASSUME NEW p \in Paths PROVE Single(dir[p])
  <2>1. \A q, r \in Roles : p = Root(q) /\ p = Root(r) => q = r
    BY DEF Root
  <2> QED
    BY <1>1, <2>1 DEF Single
<1>3. ASSUME NEW i \in Installers PROVE ~Running(installer[i]) /\ \A r \in Roles : dir[Backup(i, r)] = {}
  <2>1. installer[i].at = <<"off", "runner">>
    BY DEF ProfileInit, Fresh
  <2> QED
    BY <1>1, <2>1, PathsDiffer DEF Running
<1> QED
  BY <1>2, <1>3, ProfileInvInit DEF InstallInv

LEMMA InstallInvNext == InstallInv /\ [ProfileNext]_pvars => InstallInv'
<1> SUFFICES ASSUME InstallInv, [ProfileNext]_pvars PROVE InstallInv'
  OBVIOUS
<1>1. ASSUME NEW i \in Installers, Install(i), ~Start(i) PROVE InstallInv'
  <2>1. StepIsGood(i)
    BY <1>1, InstallGood DEF InstallInv
  <2>2. Tidy(i) /\ Proceeds(i)
    BY <1>1, InstallTells
  <2> QED
    BY <2>1, <2>2, InstallGoesOn
<1>2. ASSUME NEW i \in Installers, Start(i) PROVE InstallInv'
  BY <1>2, StartKeepsInstall
<1>3. ASSUME NEW r \in Roles, OwnerTouches(r) PROVE InstallInv'
  BY <1>3, OwnerKeepsInstall
<1>4. CASE UNCHANGED pvars
  <2>1. ProfileInv'
    BY <1>4, ProfileInvNext DEF InstallInv
  <2> QED
    BY <1>4, <2>1 DEF pvars, InstallInv, Shape
<1> QED
  BY <1>1, <1>2, <1>3, <1>4 DEF ProfileNext

(* At the end of an installation that is alone the roots are what was      *)
(* captured, or this release.                                              *)
LEMMA AtTheEnd ==
  ASSUME InstallInv, NEW i \in Installers, installer[i].at[1] = "sweep", installer[i].alone,
         NEW r \in Roles
  PROVE  \/ Strange(dir[Root(r)])
         \/ IF installer[i].whole THEN Inspect(dir[Root(r)]) = "target"
            ELSE dir[Root(r)] = installer[i].snapshot[r]
<1> DEFINE s == installer[i]
<1>1. Shape(i, s, dir, r)
  BY Knows DEF Running
<1>2. Phase(s, r) = IF s.whole THEN "through" ELSE "back"
  BY DEF Phase, Captured, Activating, Taken, Undoing
<1> QED
  BY <1>1, <1>2 DEF Shape, Form

(***************************************************************************)
(* An installation that had the profiles for itself leaves both roots as   *)
(* they were before it, or both of the new release, wherever it has failed *)
(* and whatever it had committed by then, unless the owner has put         *)
(* something there (installPhase3ProfilesAtomically,                       *)
(* rollbackCommittedProfiles).                                             *)
(***************************************************************************)
THEOREM InstallsAreWhole == ProfileSpec => AllOrNothing
<1>1. InstallInv /\ [ProfileNext]_pvars =>
        [\A i \in Installers : installer[i].at[1] = "sweep" /\ installer[i].alone =>
           \A r \in Roles :
             \/ \E d \in dir'[Root(r)] : d.strange
             \/ installer'[i].at[1] = "failed" /\ dir'[Root(r)] = installer[i].snapshot[r]
             \/ installer'[i].at[1] = "done" /\ Inspect(dir'[Root(r)]) = "target"
             \/ installer'[i].at[1] \in {"dead", "sweep"}]_pvars
  <2> SUFFICES ASSUME InstallInv, ProfileNext, NEW i \in Installers, installer[i].at[1] = "sweep",
                      installer[i].alone, NEW r \in Roles, installer'[i].at[1] \notin {"dead", "sweep"}
               PROVE  \/ \E d \in dir'[Root(r)] : d.strange
                      \/ installer'[i].at[1] = "failed" /\ dir'[Root(r)] = installer[i].snapshot[r]
                      \/ installer'[i].at[1] = "done" /\ Inspect(dir'[Root(r)]) = "target"
    OBVIOUS
  <2>1. CASE Sweep(i)
    <3>1. /\ installer'[i].at[1] = IF installer[i].whole THEN "done" ELSE "failed"
          /\ dir'[Root(r)] = dir[Root(r)]
      BY <2>1, SweepTells
    <3> QED
      BY <3>1, AtTheEnd DEF Strange
  <2>2. CASE Die(i)
    <3>1. installer'[i].at = <<"dead", "runner">>
      BY <2>2, Ending DEF Die, InstallInv, ProfileInv
    <3> QED
      BY <3>1
  <2>3. CASE Install(i) /\ ~Sweep(i) /\ ~Die(i)
    <3>1. \A step \in ProfileSteps \ {"sweep"}, q \in Roles : installer[i].at # <<step, q>>
      OBVIOUS
    <3> QED
      BY <2>3, <3>1 DEF Install, Activation, At, Start, PrepareProfiles, Preflight, Recheck, Verify, Unmark,
         Undo, Restore, Swap, Compare, Place, Claim, Mark, WriteMarker, Move, Unclaim, Release,
         ProfileSteps, Activating, Roles
  <2>4. ASSUME NEW j \in Installers, j # i, Install(j) PROVE FALSE
    <3>1. CASE Start(j)
      <4>1. installer'[i].at = installer[i].at
        <5>1. installer'[i] = [installer[i] EXCEPT !.alone = installer[i].alone /\ ~Live(i)]
          BY <2>4, <3>1 DEF Start
        <5> QED
          BY <5>1
      <4> QED
        BY <4>1
    <3>2. CASE ~Start(j)
      <4>1. installer'[i] = installer[i]
        BY <2>4, <3>2, InstallGood DEF InstallInv, StepIsGood, StateGoesOn, OthersStay
      <4> QED
        BY <4>1
    <3> QED
      BY <3>1, <3>2
  <2>5. ASSUME NEW q \in Roles, OwnerTouches(q) PROVE FALSE
    BY <2>5 DEF OwnerTouches
  <2> QED
    BY <2>1, <2>2, <2>3, <2>4, <2>5 DEF ProfileNext
<1> QED
  BY <1>1, InstallInvInit, InstallInvNext, PTL DEF ProfileSpec, AllOrNothing

-----------------------------------------------------------------------------
(***************************************************************************)
(* The author's pack.  Whatever file is in the pack or about to be placed  *)
(* rests on files that are there (Grounded), at a path that tells what it  *)
(* is, and what an owner said is in the ledger before its file is there    *)
(* (Filed).  A whole file never changes and the ledger only grows, so that *)
(* this stays so.                                                          *)
(***************************************************************************)
Kinds == {"card", "question", "interview", "contract", "requirement"}
ArtifactFields == {"kind", "n", "status", "sources", "rests", "before", "blocking",
                   "vouched", "marked"}

Shaped(v) ==
  /\ DOMAIN v = ArtifactFields
  /\ v.kind \in Kinds /\ v.n \in Nat \ {0} /\ (v.n = 1 <=> v.before = {})
  /\ \A s \in v.sources : s.ref = SourcePath /\ s.value # Torn
  /\ \A p \in v.rests \cup v.before : p.value # Torn
  /\ v.kind = "card" => v.rests = {}
  /\ v.kind = "question" => v.rests = {}
  /\ v.kind = "contract" => \A p \in v.rests : p.value.kind \in {"interview", "card"}

SourcesThere(v) == \A s \in v.sources : Holds(s)
BackedIfSaid(p) == IsCanonical(p) /\ p.value.status \in Conferred => Backed(p.value)

Grounded(v) ==
  /\ SourcesThere(v)
  /\ \A p \in v.rests : /\ Holds(p) /\ IsCanonical(p) /\ BackedIfSaid(p)
                        /\ p.value.kind \in {"card", "interview"} => SourcesThere(p.value)
  /\ \A p \in v.before : /\ Holds(p) /\ BackedIfSaid(p)
                         /\ p.value.kind = v.kind /\ p.value.n = v.n - 1
                         /\ v.kind = "contract" => IsCanonical(p) /\ p.value.status = "issued"
  /\ v.kind = "contract" =>
       /\ \A p \in About(v, "interview") : p.value.status = "completed" /\ p.value.sources = v.sources
       /\ \A p \in About(v, "card") : p.value.status = "confirmed"
  /\ v.kind = "requirement" => \A p \in About(v, "contract") : p.value.status = "issued"

(* What a snapshot may hold. *)
Snapshots == {SourcePath, DocumentPath}
Snapped(r, v) ==
  \/ r = SourcePath /\ v.kind = "source"
  \/ r = DocumentPath /\ v.kind \in Kinds

(* Where a file may be. *)
Placed(r, v) ==
  /\ r \notin Snapshots
  /\ r \in CandidatePaths => Confirmable(v)
  /\ r \notin CandidatePaths => r = Path(v)

Filed(r, v) ==
  /\ Shaped(v) /\ Grounded(v) /\ Placed(r, v)
  /\ r \notin CandidatePaths /\ v.status \in Conferred => Backed(v)

PackSound ==
  \A r \in DOMAIN pack :
    \/ pack[r] # Torn /\ Snapped(r, pack[r])
    \/ pack[r] = Torn /\ r \notin Snapshots /\ r \notin CandidatePaths
    \/ pack[r] # Torn /\ Filed(r, pack[r])

ToolSound ==
  /\ DOMAIN tool = ToolCalls
  /\ \A c \in ToolCalls :
       /\ DOMAIN tool[c] = {"at", "file"}
       /\ \A p \in tool[c].file :
            /\ p.value # Torn
            /\ Snapped(p.ref, p.value) \/ Filed(p.ref, p.value)

ConfirmSound ==
  /\ DOMAIN confirm = {"at", "file"} /\ \A p, q \in confirm.file : p = q
  /\ \A p \in confirm.file :
       /\ p.value # Torn
       /\ Shaped(p.value) /\ Grounded(p.value) /\ p.ref = Path(p.value)
       /\ p.value.status \in Conferred /\ p.value.marked
       /\ confirm.at \in {"recorded", "created"} => Target(p.value) \in ledger
       /\ confirm.at = "created" => p.ref \in DOMAIN pack /\ pack[p.ref] = Torn

PackInv == PackSound /\ ToolSound /\ ConfirmSound

-----------------------------------------------------------------------------
(* What is written is never taken away, and what is said is never taken    *)
(* back.                                                                   *)
Extends ==
  /\ \A r \in DOMAIN pack : r \in DOMAIN pack' /\ (pack[r] # Torn => pack'[r] = pack[r])
  /\ ledger \subseteq ledger'

LEMMA HoldsOn == ASSUME Extends, NEW p, p.value # Torn, Holds(p) PROVE Holds(p)'
BY DEF Extends, Holds

LEMMA BackedOn == ASSUME Extends, NEW v, Backed(v) PROVE Backed(v)'
BY DEF Extends, Backed

(* The sources of what is in the pack have the one path that sources have. *)
LEMMA SourcesOn ==
  ASSUME Extends, NEW v, SourcesThere(v), \A s \in v.sources : s.value # Torn
  PROVE  SourcesThere(v)'
BY HoldsOn DEF SourcesThere

(* A whole file that is there and is no snapshot. *)
LEMMA HeldIsFiled ==
  ASSUME PackSound, NEW p, Holds(p), p.value # Torn, p.ref \notin Snapshots
  PROVE  Filed(p.ref, p.value)
BY DEF PackSound, Holds, Snapped, Snapshots

(* The path of an artifact is no snapshot's. *)
LEMMA CanonicalIsFiled ==
  ASSUME PackSound, NEW p, Holds(p), p.value # Torn, IsCanonical(p)
  PROVE  Filed(p.ref, p.value)
<1>1. p.ref = <<p.value.kind, p.value.n>>
  BY DEF IsCanonical, Path
<1>2. CASE p.ref = SourcePath
  <2>1. p.value.kind = "sources"
    BY <1>1, <1>2 DEF SourcePath
  <2> QED
    BY <1>2, <2>1 DEF PackSound, Holds, Snapped, SourcePath, DocumentPath, Filed, Placed, Snapshots
<1>3. CASE p.ref = DocumentPath
  <2>1. p.value.kind = "sources"
    BY <1>1, <1>3 DEF DocumentPath
  <2>2. p.value.kind \notin Kinds
    BY <2>1 DEF Kinds
  <2> QED
    BY <1>3, <2>2 DEF PackSound, Holds, Snapped, SourcePath, DocumentPath, Filed, Placed, Snapshots
<1> QED
  BY <1>2, <1>3, HeldIsFiled DEF Snapshots

LEMMA GroundedOn ==
  ASSUME Extends, PackSound, NEW v, Shaped(v), Grounded(v)
  PROVE  Grounded(v)'
<1>1. SourcesThere(v)'
  BY SourcesOn DEF Grounded, Shaped
<1>2. ASSUME NEW p \in v.rests \cup v.before PROVE Holds(p)' /\ BackedIfSaid(p)'
  <2>1. p.value # Torn /\ Holds(p) /\ BackedIfSaid(p)
    BY DEF Shaped, Grounded
  <2> QED
    BY <2>1, HoldsOn, BackedOn DEF BackedIfSaid
<1>3. ASSUME NEW p \in v.rests, p.value.kind \in {"card", "interview"} PROVE SourcesThere(p.value)'
  <2>1. p.value # Torn /\ Holds(p) /\ SourcesThere(p.value)
    BY <1>3 DEF Shaped, Grounded
  <2>2. Shaped(p.value)
    BY <1>3, <2>1, CanonicalIsFiled DEF Filed, Grounded
  <2> QED
    BY <2>1, <2>2, SourcesOn DEF Shaped
<1> QED
  BY <1>1, <1>2, <1>3 DEF Grounded

LEMMA FiledOn ==
  ASSUME Extends, PackSound, NEW r, NEW v, Filed(r, v)
  PROVE  Filed(r, v)'
BY GroundedOn, BackedOn DEF Filed, Placed

(* A canonical path is no candidate's, and no snapshot's. *)
LEMMA CanonicalPaths ==
  ASSUME NEW v, v.kind \in Kinds
  PROVE  Path(v) \notin CandidatePaths /\ Path(v) \notin Snapshots
BY DEF Kinds, Path, CandidatePaths, Snapshots, SourcePath, DocumentPath

(* Files that are about to be placed keep what they have, in any step that *)
(* adds to the pack.                                                       *)
LEMMA ToolOn ==
  ASSUME Extends, PackSound, ToolSound, DOMAIN tool' = ToolCalls,
         \A c \in ToolCalls : DOMAIN tool'[c] = {"at", "file"} /\ tool'[c].file \subseteq tool[c].file
  PROVE  ToolSound'
BY FiledOn DEF ToolSound

LEMMA PackOn ==
  ASSUME Extends, PackSound,
         \A r \in DOMAIN pack' :
           \/ r \in DOMAIN pack /\ pack'[r] = pack[r]
           \/ pack'[r] # Torn /\ Snapped(r, pack'[r])
           \/ pack'[r] = Torn /\ r \notin Snapshots /\ r \notin CandidatePaths
           \/ pack'[r] # Torn /\ Filed(r, pack'[r])
  PROVE  PackSound'
<1> SUFFICES ASSUME NEW r \in DOMAIN pack', NEW v, v = pack'[r]
             PROVE  \/ v # Torn /\ Snapped(r, v)
                    \/ v = Torn /\ r \notin Snapshots /\ r \notin CandidatePaths
                    \/ v # Torn /\ Filed(r, v)'
  BY DEF PackSound, Snapped
<1>1. Filed(r, v) => Filed(r, v)'
  BY FiledOn
<1>2. CASE r \in DOMAIN pack /\ v = pack[r]
  BY <1>1, <1>2 DEF PackSound
<1> QED
  BY <1>1, <1>2

LEMMA ConfirmOn ==
  ASSUME Extends, PackSound, ConfirmSound, confirm' = confirm,
         \A r \in DOMAIN pack : pack'[r] = pack[r]
  PROVE  ConfirmSound'
<1> SUFFICES ASSUME NEW p \in confirm.file
             PROVE  /\ Grounded(p.value)'
                    /\ confirm.at \in {"recorded", "created"} => Target(p.value) \in ledger'
                    /\ confirm.at = "created" => p.ref \in DOMAIN pack' /\ pack'[p.ref] = Torn
  BY DEF ConfirmSound
<1>1. Grounded(p.value)'
  BY GroundedOn DEF ConfirmSound
<1> QED
  BY <1>1 DEF ConfirmSound, Extends

LEMMA NotTorn == ASSUME NEW v, v.kind \in Kinds \cup {"source"} PROVE v # Torn
BY DEF Kinds, Torn

-----------------------------------------------------------------------------
(* A call of the tool that was let through has a file to place. *)
LEMMA Placing ==
  ASSUME PackInv, NEW c \in ToolCalls, NEW r, NEW v, PlaceFile(c, r, v),
         Snapped(r, v) \/ Filed(r, v)
  PROVE  PackInv'
<1>1. /\ UNCHANGED <<pack, ledger, confirm>>
      /\ tool' = [tool EXCEPT ![c] = [at |-> "writing", file |-> {Pointer(r, v)}]]
  BY DEF PlaceFile
<1>2. Extends
  BY <1>1 DEF Extends
<1>3. v # Torn
  BY NotTorn DEF Filed, Shaped, Snapped
<1>4. Filed(r, v) => Filed(r, v)'
  BY <1>2, FiledOn DEF PackInv
<1>5. PackSound' /\ ConfirmSound'
  BY <1>1, <1>2, PackOn, ConfirmOn DEF PackInv, PackSound
<1>6. ToolSound'
  <2>1. DOMAIN tool' = ToolCalls
    BY <1>1 DEF PackInv, ToolSound
  <2>2. ASSUME NEW d \in ToolCalls
        PROVE  /\ DOMAIN tool'[d] = {"at", "file"}
               /\ \A p \in tool'[d].file :
                    p.value # Torn /\ (Snapped(p.ref, p.value) \/ Filed(p.ref, p.value)')
    <3>1. CASE d = c
      <4>1. tool'[d] = [at |-> "writing", file |-> {Pointer(r, v)}]
        BY <1>1, <3>1 DEF PackInv, ToolSound
      <4>2. Pointer(r, v).ref = r /\ Pointer(r, v).value = v
        BY DEF Pointer
      <4> QED
        BY <1>3, <1>4, <4>1, <4>2
    <3>2. CASE d # c
      <4>1. tool'[d] = tool[d]
        BY <1>1, <3>2 DEF PackInv, ToolSound
      <4>2. ASSUME NEW p, Filed(p.ref, p.value) PROVE Filed(p.ref, p.value)'
        BY <1>2, <4>2, FiledOn DEF PackInv
      <4> QED
        BY <4>1, <4>2 DEF PackInv, ToolSound
    <3> QED
      BY <3>1, <3>2
  <2> QED
    BY <2>1, <2>2 DEF ToolSound
<1> QED
  BY <1>5, <1>6 DEF PackInv

LEMMA SnapshotKeeps ==
  ASSUME PackInv, NEW c \in ToolCalls, SnapshotSource(c)
  PROVE  PackInv'
<1>1. CASE \E t \in Texts : PlaceFile(c, SourcePath, Source(t).value)
  <2>1. PICK t \in Texts : PlaceFile(c, SourcePath, Source(t).value)
    BY <1>1
  <2>2. Snapped(SourcePath, Source(t).value)
    BY DEF Source, Pointer, Snapped
  <2> QED
    BY <2>1, <2>2, Placing
<1>2. CASE \E v \in Documents : PlaceFile(c, DocumentPath, v)
  <2>1. PICK v \in Documents : PlaceFile(c, DocumentPath, v)
    BY <1>2
  <2>2. v.kind \in Kinds
    <3>1. CASE v = Forged.value
      BY <3>1 DEF Forged, Pointer, Artifact, Kinds
    <3>2. ASSUME NEW r \in DOMAIN pack, r # SourcePath, v = pack[r], v # Torn PROVE v.kind \in Kinds
      BY <3>2 DEF PackInv, PackSound, Snapped, Filed, Shaped
    <3> QED
      BY <2>1, <3>1, <3>2 DEF Documents
  <2>3. Snapped(DocumentPath, v)
    BY <2>2 DEF Snapped
  <2> QED
    BY <2>1, <2>3, Placing
<1> QED
  BY <1>1, <1>2 DEF SnapshotSource

(* What the checks of a write find of the files that an artifact rests on. *)
LEMMA HeldIsBacked ==
  ASSUME PackSound, NEW p, Holds(p), p.value # Torn
  PROVE  BackedIfSaid(p)
<1> SUFFICES ASSUME IsCanonical(p), p.value.status \in Conferred PROVE Backed(p.value)
  BY DEF BackedIfSaid
<1>2. Filed(p.ref, p.value)
  BY CanonicalIsFiled
<1>3. p.ref \notin CandidatePaths
  BY <1>2, CanonicalPaths DEF Filed, Shaped, IsCanonical
<1> QED
  BY <1>2, <1>3 DEF Filed

LEMMA SourcesHoldThere == ASSUME NEW v, SourcesHold(v) PROVE SourcesThere(v)
BY DEF SourcesHold, SourcesThere

LEMMA PointersAre ==
  ASSUME NEW k \in Kinds, NEW p \in Pointers(k)
  PROVE  p.value # Torn /\ p.value.kind = k
<1>1. CASE p \in {q \in {Pointer(r, pack[r]) : r \in DOMAIN pack} : q.value # Torn /\ q.value.kind = k}
  BY <1>1
<1>2. CASE k = "card" /\ p = Forged
  <2>1. p.value.kind = "card"
    BY <1>2 DEF Forged, Pointer, Artifact
  <2> QED
    BY <1>2, <2>1, NotTorn
<1> QED
  BY <1>1, <1>2 DEF Pointers

(* An artifact as it is asked for, and as it is written. *)
LEMMA Writing ==
  ASSUME NEW value, DOMAIN value = ArtifactFields, NEW c, WriteArtifact(c, value)
  PROVE  \E a, r :
           /\ DOMAIN a = ArtifactFields
           /\ a.kind = value.kind /\ a.n = value.n /\ a.status = value.status
           /\ a.sources = value.sources /\ a.rests = value.rests /\ a.before = value.before
           /\ ArtifactHolds(a) /\ PlaceFile(c, r, a) /\ (a.n = 1 <=> a.before = {})
           /\ IF a.kind \in {"contract", "requirement"} THEN IsCandidate(r) ELSE r = Path(a)
           /\ r \in CandidatePaths \cup {Path(a)}
<1> DEFINE a == [value EXCEPT !.marked = value.status \in Conferred]
<1>1. /\ DOMAIN a = ArtifactFields
      /\ a.kind = value.kind /\ a.n = value.n /\ a.status = value.status
      /\ a.sources = value.sources /\ a.rests = value.rests /\ a.before = value.before
  BY DEF ArtifactFields
<1>2. PICK r \in CandidatePaths \cup {Path(a)} : WrittenAt(a, r) /\ PlaceFile(c, r, a)
  BY DEF WriteArtifact
<1>3. ArtifactHolds(a) /\ (a.n = 1 <=> a.before = {})
  BY DEF WriteArtifact, Parses
<1>4. IF a.kind \in {"contract", "requirement"} THEN IsCandidate(r) ELSE r = Path(a)
  BY <1>2 DEF WrittenAt
<1> HIDE DEF a
<1> QED
  BY <1>1, <1>2, <1>3, <1>4

LEMMA AnArtifact ==
  ASSUME NEW k, NEW n, NEW status, NEW sources, NEW rests, NEW before
  PROVE  LET v == Artifact(k, n, status, sources, rests, before)
         IN  /\ DOMAIN v = ArtifactFields
             /\ v.kind = k /\ v.n = n /\ v.status = status
             /\ v.sources = sources /\ v.rests = rests /\ v.before = before
BY DEF Artifact, ArtifactFields

LEMMA OneSource ==
  ASSUME NEW t
  PROVE  Source(t).ref = SourcePath /\ Source(t).value # Torn
BY NotTorn DEF Source, Pointer

(* A file that has a predecessor of its kind, which is there. *)
LEMMA PredecessorsHold ==
  ASSUME PackSound, NEW a, a.kind \in Kinds, a.before \in AtMostOne(Pointers(a.kind)),
         Follows(a) \/ \A p \in a.before : Holds(p) /\ p.value.n = a.n - 1
  PROVE  \A p \in a.before : /\ p.value # Torn /\ Holds(p) /\ BackedIfSaid(p)
                             /\ p.value.kind = a.kind /\ p.value.n = a.n - 1
<1> SUFFICES ASSUME NEW p \in a.before
             PROVE  /\ p.value # Torn /\ Holds(p) /\ BackedIfSaid(p)
                    /\ p.value.kind = a.kind /\ p.value.n = a.n - 1
  OBVIOUS
<1>1. p \in Pointers(a.kind)
  BY DEF AtMostOne
<1>2. p.value # Torn /\ p.value.kind = a.kind
  BY <1>1, PointersAre
<1>3. Holds(p) /\ p.value.n = a.n - 1
  BY DEF Follows
<1> QED
  BY <1>2, <1>3, HeldIsBacked

LEMMA CardKeeps ==
  ASSUME PackInv, NEW c \in ToolCalls, WriteCard(c)
  PROVE  PackInv'
<1>1. PICK n \in 1..MaxRevision, status \in {"proposed", "conflicted", "confirmed"},
           vouched \in BOOLEAN, t \in Texts, before \in AtMostOne(Pointers("card")) :
        WriteArtifact(c, [Artifact("card", n, status, {Source(t)}, {}, before)
                            EXCEPT !.vouched = vouched])
  BY Zenon DEF WriteCard
<1> DEFINE value == [Artifact("card", n, status, {Source(t)}, {}, before) EXCEPT !.vouched = vouched]
<1>0. /\ DOMAIN value = ArtifactFields
      /\ value.kind = "card" /\ value.n = n /\ value.status = status
      /\ value.sources = {Source(t)} /\ value.rests = {} /\ value.before = before
  BY AnArtifact DEF ArtifactFields
<1>10. WriteArtifact(c, value)
  BY <1>1
<1> HIDE DEF value
<1>2. PICK a, r :
        /\ DOMAIN a = ArtifactFields
        /\ a.kind = "card" /\ a.n = n /\ a.status = status
        /\ a.sources = {Source(t)} /\ a.rests = {} /\ a.before = before
        /\ ArtifactHolds(a) /\ PlaceFile(c, r, a) /\ r = Path(a)
        /\ (a.n = 1 <=> a.before = {})
  BY <1>0, <1>10, Writing
<1>3. CardHolds(a)
  BY <1>2 DEF ArtifactHolds
<1>4. PackSound /\ a.kind \in Kinds
  BY <1>2 DEF PackInv, Kinds
<1>5. \A p \in a.before : /\ p.value # Torn /\ Holds(p) /\ BackedIfSaid(p)
                          /\ p.value.kind = a.kind /\ p.value.n = a.n - 1
  BY <1>2, <1>3, <1>4, PredecessorsHold DEF CardHolds
<1>6. Shaped(a)
  BY <1>2, <1>4, <1>5, OneSource DEF Shaped
<1>7. Grounded(a)
  BY <1>2, <1>3, <1>5, SourcesHoldThere DEF Grounded, CardHolds
<1>8. a.status \notin Conferred
  BY <1>2, <1>3 DEF CardHolds, Conferred
<1>9. Filed(r, a)
  BY <1>2, <1>4, <1>6, <1>7, <1>8, CanonicalPaths DEF Filed, Placed
<1> QED
  BY <1>2, <1>9, Placing

LEMMA QuestionKeeps ==
  ASSUME PackInv, NEW c \in ToolCalls, WriteQuestion(c)
  PROVE  PackInv'
<1>1. PICK n \in 1..MaxRevision, status \in {"open", "resolved"}, blocking \in BOOLEAN,
           before \in AtMostOne(Pointers("question")) :
        WriteArtifact(c, [Artifact("question", n, status, {}, {}, before) EXCEPT !.blocking = blocking])
  BY DEF WriteQuestion
<1> DEFINE value == [Artifact("question", n, status, {}, {}, before) EXCEPT !.blocking = blocking]
<1>2. /\ DOMAIN value = ArtifactFields
      /\ value.kind = "question" /\ value.n = n /\ value.status = status
      /\ value.sources = {} /\ value.rests = {} /\ value.before = before
  BY AnArtifact DEF ArtifactFields
<1> HIDE DEF value
<1>3. PICK a, r :
        /\ DOMAIN a = ArtifactFields
        /\ a.kind = "question" /\ a.n = n /\ a.status = status
        /\ a.sources = {} /\ a.rests = {} /\ a.before = before
        /\ ArtifactHolds(a) /\ PlaceFile(c, r, a) /\ r = Path(a)
        /\ (a.n = 1 <=> a.before = {})
  <2>1. WriteArtifact(c, value)
    BY <1>1 DEF value
  <2> QED
    BY <1>2, <2>1, Writing
<1>4. QuestionHolds(a)
  BY <1>3 DEF ArtifactHolds
<1>5. PackSound /\ a.kind \in Kinds
  BY <1>3 DEF PackInv, Kinds
<1>6. \A p \in a.before : /\ p.value # Torn /\ Holds(p) /\ BackedIfSaid(p)
                          /\ p.value.kind = a.kind /\ p.value.n = a.n - 1
  BY <1>3, <1>4, <1>5, PredecessorsHold DEF QuestionHolds
<1>7. Shaped(a) /\ Grounded(a)
  BY <1>3, <1>5, <1>6 DEF Shaped, Grounded, SourcesThere
<1>8. a.status \notin Conferred
  BY <1>3, <1>4 DEF QuestionHolds, Conferred
<1>9. Filed(r, a)
  BY <1>3, <1>5, <1>7, <1>8, CanonicalPaths DEF Filed, Placed
<1> QED
  BY <1>3, <1>9, Placing

LEMMA RestsHold ==
  ASSUME PackSound, NEW p, p.value # Torn, Holds(p), IsCanonical(p)
  PROVE  /\ BackedIfSaid(p)
         /\ p.value.kind \in {"card", "interview"} => SourcesThere(p.value)
<1>1. BackedIfSaid(p)
  BY HeldIsBacked
<1>2. p.value.kind \in {"card", "interview"} => SourcesThere(p.value)
  BY CanonicalIsFiled DEF Filed, Grounded
<1> QED
  BY <1>1, <1>2

LEMMA InterviewKeeps ==
  ASSUME PackInv, NEW c \in ToolCalls, WriteInterview(c)
  PROVE  PackInv'
<1>1. PICK n \in 1..MaxRevision, status \in {"draft", "completed"}, t \in Texts,
           cards \in AtMostOne(Pointers("card")), questions \in AtMostOne(Pointers("question")),
           base \in AtMostOne(Pointers("contract")), before \in AtMostOne(Pointers("interview")) :
        WriteArtifact(c, Artifact("interview", n, status, {Source(t)},
                                  cards \cup questions \cup base, before))
  BY Zenon DEF WriteInterview
<1>2. PICK a, r :
        /\ DOMAIN a = ArtifactFields
        /\ a.kind = "interview" /\ a.n = n /\ a.status = status
        /\ a.sources = {Source(t)} /\ a.rests = cards \cup questions \cup base /\ a.before = before
        /\ ArtifactHolds(a) /\ PlaceFile(c, r, a) /\ r = Path(a)
        /\ (a.n = 1 <=> a.before = {})
  BY <1>1, Writing, AnArtifact
<1>3. InterviewHolds(a)
  BY <1>2 DEF ArtifactHolds
<1>4. PackSound /\ a.kind \in Kinds
  BY <1>2 DEF PackInv, Kinds
<1>5. \A p \in a.before : /\ p.value # Torn /\ Holds(p) /\ BackedIfSaid(p)
                          /\ p.value.kind = a.kind /\ p.value.n = a.n - 1
  BY <1>2, <1>3, <1>4, PredecessorsHold DEF InterviewHolds
<1>6. ASSUME NEW p \in a.rests
      PROVE  /\ p.value # Torn /\ Holds(p) /\ IsCanonical(p) /\ BackedIfSaid(p)
             /\ p.value.kind \in {"card", "interview"} => SourcesThere(p.value)
  <2>1. \E k \in {"card", "question", "contract"} : p \in Pointers(k)
    BY <1>2 DEF AtMostOne
  <2>2. p.value # Torn
    BY <2>1, PointersAre DEF Kinds
  <2>3. Holds(p) /\ IsCanonical(p)
    BY <1>3 DEF InterviewHolds
  <2> QED
    BY <1>4, <2>2, <2>3, RestsHold
<1>7. Shaped(a)
  BY <1>2, <1>4, <1>5, <1>6, OneSource DEF Shaped
<1>8. Grounded(a)
  BY <1>2, <1>3, <1>5, <1>6, SourcesHoldThere DEF Grounded, InterviewHolds
<1>9. a.status \notin Conferred
  BY <1>2 DEF Conferred
<1>10. Filed(r, a)
  BY <1>2, <1>4, <1>7, <1>8, <1>9, CanonicalPaths DEF Filed, Placed
<1> QED
  BY <1>2, <1>10, Placing

(* A draft of a contract or of a requirement is at a candidate's path.     *)
LEMMA DraftPlaced ==
  ASSUME NEW a, a.kind \in {"contract", "requirement"}, a.status \in {"candidate", "draft"},
         NEW r, IsCandidate(r), r \in CandidatePaths \cup {Path(a)}
  PROVE  r \in CandidatePaths /\ Placed(r, a)
<1>1. a.kind \in Kinds
  BY DEF Kinds
<1>2. r \in CandidatePaths
  BY <1>1 DEF IsCandidate, Path, Kinds
<1>3. r \notin Snapshots
  BY <1>2 DEF CandidatePaths, Snapshots, SourcePath, DocumentPath
<1> QED
  BY <1>2, <1>3 DEF Placed, Confirmable

LEMMA ContractKeeps ==
  ASSUME PackInv, NEW c \in ToolCalls, WriteContract(c)
  PROVE  PackInv'
<1>1. PICK n \in 1..MaxRevision, i \in Pointers("interview"), card \in Pointers("card"),
           before \in AtMostOne(Pointers("contract")) :
        WriteArtifact(c, Artifact("contract", n, "candidate", i.value.sources, {i, card}, before))
  BY Zenon DEF WriteContract
<1>2. PICK a, r :
        /\ DOMAIN a = ArtifactFields
        /\ a.kind = "contract" /\ a.n = n /\ a.status = "candidate"
        /\ a.sources = i.value.sources /\ a.rests = {i, card} /\ a.before = before
        /\ ArtifactHolds(a) /\ PlaceFile(c, r, a) /\ IsCandidate(r)
        /\ (a.n = 1 <=> a.before = {})
        /\ r \in CandidatePaths \cup {Path(a)}
  BY <1>1, Writing, AnArtifact
<1>3. ContractHolds(a)
  BY <1>2 DEF ArtifactHolds
<1>4. PackSound /\ a.kind \in Kinds
  BY <1>2 DEF PackInv, Kinds
<1>5. /\ i.value # Torn /\ i.value.kind = "interview"
      /\ card.value # Torn /\ card.value.kind = "card"
  BY PointersAre DEF Kinds
<1>6. i \in About(a, "interview") /\ card \in About(a, "card")
  BY <1>2, <1>5 DEF About
<1>7. /\ Holds(i) /\ IsCanonical(i) /\ Holds(card) /\ IsCanonical(card)
  BY <1>3, <1>6 DEF ContractHolds
<1>8. /\ BackedIfSaid(i) /\ SourcesThere(i.value)
      /\ BackedIfSaid(card) /\ SourcesThere(card.value)
  BY <1>4, <1>5, <1>7, RestsHold
<1>9. \A p \in a.before : /\ Holds(p) /\ IsCanonical(p)
                          /\ p.value.status = "issued" /\ p.value.n = a.n - 1
  BY <1>3 DEF ContractHolds
<1>10. \A p \in a.before : /\ p.value # Torn /\ Holds(p) /\ BackedIfSaid(p)
                           /\ p.value.kind = a.kind /\ p.value.n = a.n - 1
  BY <1>2, <1>4, <1>9, PredecessorsHold
<1>11. \A s \in a.sources : s.ref = SourcePath /\ s.value # Torn
  <2>1. Shaped(i.value)
    BY <1>4, <1>5, <1>7, CanonicalIsFiled DEF Filed
  <2> QED
    BY <1>2, <2>1 DEF Shaped
<1>12. Shaped(a)
  BY <1>2, <1>4, <1>5, <1>10, <1>11 DEF Shaped
<1>13. Grounded(a)
  <2>1. SourcesThere(a)
    BY <1>2, <1>8 DEF SourcesThere
  <2>2. \A p \in a.rests : /\ Holds(p) /\ IsCanonical(p) /\ BackedIfSaid(p)
                           /\ p.value.kind \in {"card", "interview"} => SourcesThere(p.value)
    BY <1>2, <1>7, <1>8
  <2>3. /\ \A p \in About(a, "interview") : p.value.status = "completed" /\ p.value.sources = a.sources
        /\ \A p \in About(a, "card") : p.value.status = "confirmed"
    BY <1>3 DEF ContractHolds
  <2> QED
    BY <1>2, <1>9, <1>10, <2>1, <2>2, <2>3 DEF Grounded
<1>14. r \in CandidatePaths /\ Placed(r, a)
  BY <1>2, DraftPlaced
<1> QED
  BY <1>2, <1>12, <1>13, <1>14, Placing DEF Filed

LEMMA RequirementKeeps ==
  ASSUME PackInv, NEW c \in ToolCalls, WriteRequirement(c)
  PROVE  PackInv'
<1>1. PICK n \in 1..MaxRevision, status \in {"draft", "owner_confirmed"}, t \in Texts,
           base \in Pointers("contract"), questions \in AtMostOne(Pointers("question")),
           before \in AtMostOne(Pointers("requirement")) :
        WriteArtifact(c, Artifact("requirement", n, status, {Source(t)}, {base} \cup questions, before))
  BY Zenon DEF WriteRequirement
<1>2. PICK a, r :
        /\ DOMAIN a = ArtifactFields
        /\ a.kind = "requirement" /\ a.n = n /\ a.status = status
        /\ a.sources = {Source(t)} /\ a.rests = {base} \cup questions /\ a.before = before
        /\ ArtifactHolds(a) /\ PlaceFile(c, r, a) /\ IsCandidate(r)
        /\ (a.n = 1 <=> a.before = {})
        /\ r \in CandidatePaths \cup {Path(a)}
  BY <1>1, Writing, AnArtifact
<1>3. RequirementHolds(a)
  BY <1>2 DEF ArtifactHolds
<1>4. PackSound /\ a.kind \in Kinds
  BY <1>2 DEF PackInv, Kinds
<1>5. \A p \in a.before : /\ p.value # Torn /\ Holds(p) /\ BackedIfSaid(p)
                          /\ p.value.kind = a.kind /\ p.value.n = a.n - 1
  BY <1>2, <1>3, <1>4, PredecessorsHold DEF RequirementHolds
<1>6. ASSUME NEW p \in a.rests
      PROVE  /\ p.value # Torn /\ Holds(p) /\ IsCanonical(p) /\ BackedIfSaid(p)
             /\ p.value.kind \in {"card", "interview"} => SourcesThere(p.value)
  <2>1. \E k \in {"question", "contract"} : p \in Pointers(k)
    BY <1>2 DEF AtMostOne
  <2>2. p.value # Torn
    BY <2>1, PointersAre DEF Kinds
  <2>3. Holds(p) /\ IsCanonical(p)
    BY <1>3 DEF RequirementHolds
  <2> QED
    BY <1>4, <2>2, <2>3, RestsHold
<1>7. Shaped(a)
  BY <1>2, <1>4, <1>5, <1>6, OneSource DEF Shaped
<1>8. Grounded(a)
  BY <1>2, <1>3, <1>5, <1>6, SourcesHoldThere DEF Grounded, RequirementHolds
<1>9. r \in CandidatePaths /\ Placed(r, a)
  BY <1>2, <1>3, DraftPlaced DEF RequirementHolds
<1> QED
  BY <1>2, <1>7, <1>8, <1>9, Placing DEF Filed

LEMMA StageKeeps ==
  ASSUME PackInv, NEW c \in ToolCalls, StageCandidate(c)
  PROVE  PackInv'
<1>1. PICK p \in Pointers("card") \cup Pointers("question"), r \in CandidatePaths :
        /\ Holds(p) /\ IsCanonical(p) /\ p.value.status \in {"proposed", "unresolved", "open"}
        /\ PlaceFile(c, r, p.value)
  BY DEF StageCandidate
<1>2. p.value # Torn /\ p.value.kind \in {"card", "question"}
  BY PointersAre DEF Kinds
<1>3. Filed(p.ref, p.value)
  BY <1>1, <1>2, CanonicalIsFiled DEF PackInv
<1>4. r \notin Snapshots
  BY DEF CandidatePaths, Snapshots, SourcePath, DocumentPath
<1>5. Filed(r, p.value)
  BY <1>1, <1>2, <1>3, <1>4 DEF Filed, Placed, Confirmable
<1> QED
  BY <1>1, <1>5, Placing

-----------------------------------------------------------------------------
(* A new file in the pack. *)
LEMMA Adding ==
  ASSUME NEW r, r \notin DOMAIN pack, NEW v, pack' = With(r, v)
  PROVE  /\ DOMAIN pack' = DOMAIN pack \cup {r}
         /\ pack'[r] = v
         /\ \A q \in DOMAIN pack : pack'[q] = pack[q]
BY DEF With

LEMMA LinkKeeps ==
  ASSUME PackInv, NEW c \in ToolCalls, Link(c)
  PROVE  PackInv'
<1>1. PICK p \in tool[c].file :
        /\ UNCHANGED <<ledger, confirm>>
        /\ \/ tool' = [tool EXCEPT ![c] = Rest] /\ pack' = pack
           \/ /\ p.ref \notin DOMAIN pack /\ pack' = With(p.ref, p.value)
              /\ tool' = [tool EXCEPT ![c].at = "linked"]
  BY DEF Link
<1>2. /\ p.value # Torn
      /\ Snapped(p.ref, p.value) \/ Filed(p.ref, p.value)
  BY DEF PackInv, ToolSound
<1>3. /\ \A q \in DOMAIN pack : q \in DOMAIN pack' /\ pack'[q] = pack[q]
      /\ \A q \in DOMAIN pack' : q \in DOMAIN pack \/ (q = p.ref /\ pack'[q] = p.value)
  <2>1. CASE pack' = pack
    BY <2>1
  <2>2. CASE p.ref \notin DOMAIN pack /\ pack' = With(p.ref, p.value)
    BY <2>2 DEF With
  <2> QED
    BY <1>1, <2>1, <2>2
<1>4. Extends
  BY <1>1, <1>3 DEF Extends
<1>5. /\ DOMAIN tool' = ToolCalls
      /\ \A d \in ToolCalls : DOMAIN tool'[d] = {"at", "file"} /\ tool'[d].file \subseteq tool[d].file
  BY <1>1 DEF PackInv, ToolSound, Rest
<1>6. PackSound'
  BY <1>2, <1>3, <1>4, PackOn DEF PackInv
<1>7. ToolSound' /\ ConfirmSound'
  BY <1>1, <1>3, <1>4, <1>5, ToolOn, ConfirmOn DEF PackInv
<1> QED
  BY <1>6, <1>7 DEF PackInv

(* Nothing is placed, and nothing is opened. *)
LEMMA Closing ==
  ASSUME PackInv, UNCHANGED <<pack, ledger>>, DOMAIN tool' = ToolCalls,
         \A c \in ToolCalls : DOMAIN tool'[c] = {"at", "file"} /\ tool'[c].file \subseteq tool[c].file,
         confirm' = confirm \/ confirm' = Rest
  PROVE  PackInv'
<1>1. Extends
  BY DEF Extends
<1>2. PackSound' /\ ToolSound'
  BY <1>1, PackOn, ToolOn DEF PackInv
<1>3. ConfirmSound'
  BY <1>1, ConfirmOn DEF PackInv, ConfirmSound, Rest
<1> QED
  BY <1>2, <1>3 DEF PackInv

LEMMA UnlinkKeeps ==
  ASSUME PackInv, NEW c \in ToolCalls, Unlink(c)
  PROVE  PackInv'
<1>1. UNCHANGED <<pack, ledger, confirm>> /\ tool' = [tool EXCEPT ![c] = Rest]
  BY DEF Unlink
<1>2. /\ DOMAIN tool' = ToolCalls
      /\ \A d \in ToolCalls : DOMAIN tool'[d] = {"at", "file"} /\ tool'[d].file \subseteq tool[d].file
  BY <1>1 DEF PackInv, ToolSound, Rest
<1> QED
  BY <1>1, <1>2, Closing

LEMMA DeathsKeep ==
  ASSUME PackInv, SessionDies \/ CommandDies
  PROVE  PackInv'
<1>1. CASE SessionDies
  <2>1. UNCHANGED <<pack, ledger, confirm>> /\ tool' = [c \in ToolCalls |-> Rest]
    BY <1>1 DEF SessionDies
  <2>2. /\ DOMAIN tool' = ToolCalls
        /\ \A d \in ToolCalls : DOMAIN tool'[d] = {"at", "file"} /\ tool'[d].file \subseteq tool[d].file
    BY <2>1 DEF Rest
  <2> QED
    BY <2>1, <2>2, Closing
<1>2. CASE CommandDies
  <2>1. UNCHANGED <<pack, ledger, tool>> /\ confirm' = Rest
    BY <1>2 DEF CommandDies
  <2> QED
    BY <2>1, Closing DEF PackInv, ToolSound
<1> QED
  BY <1>1, <1>2

-----------------------------------------------------------------------------
(* What an owner's confirmation makes of a candidate. *)
LEMMA Confirming ==
  ASSUME PackSound, NEW r \in DOMAIN pack, r \in CandidatePaths, Confirmable(pack[r])
  PROVE  LET b == Transition(Pointer(r, pack[r]))
         IN  Shaped(b) /\ Grounded(b) /\ b.status \in Conferred /\ b.marked
<1> DEFINE a == pack[r]
           p == Pointer(r, a)
           b == Transition(p)
           said == [a EXCEPT !.status = Confirms[a.kind], !.marked = TRUE]
<1>1. a # Torn /\ Filed(r, a)
  BY DEF PackSound, Snapped, CandidatePaths, SourcePath, DocumentPath
<1>2. DOMAIN a = ArtifactFields /\ a.kind \in {"card", "question", "contract", "requirement"}
  BY <1>1 DEF Filed, Shaped, Confirmable
<1>3. p.ref = r /\ p.value = a
  BY DEF Pointer
<1>4. /\ DOMAIN said = ArtifactFields
      /\ said.kind = a.kind /\ said.n = a.n /\ said.sources = a.sources
      /\ said.rests = a.rests /\ said.before = a.before /\ said.marked = TRUE
      /\ said.status = Confirms[a.kind]
  BY <1>2 DEF ArtifactFields
<1>5. said.status \in Conferred
  BY <1>2, <1>4 DEF Confirms, Conferred
<1>6. b = IF a.kind \in {"card", "question"} THEN [said EXCEPT !.n = a.n + 1, !.before = {p}] ELSE said
  BY <1>3 DEF Transition
<1> HIDE DEF a, p, said, b
<1>7. CASE a.kind \in {"contract", "requirement"}
  <2>1. b = said
    BY <1>6, <1>7
  <2>2. Shaped(said)
    BY <1>1, <1>4 DEF Shaped, Filed
  <2>3. Grounded(said)
    <3>1. SourcesThere(said) /\ \A k : About(said, k) = About(a, k)
      BY <1>1, <1>4 DEF Filed, Grounded, SourcesThere, About
    <3> QED
      BY <1>1, <1>4, <3>1 DEF Grounded, Filed
  <2> QED
    BY <1>4, <1>5, <2>1, <2>2, <2>3 DEF a, b, p
<1>8. CASE a.kind \in {"card", "question"}
  <2>1. /\ DOMAIN b = ArtifactFields
        /\ b.kind = a.kind /\ b.n = a.n + 1 /\ b.sources = a.sources
        /\ b.rests = a.rests /\ b.before = {p} /\ b.marked /\ b.status \in Conferred
    BY <1>4, <1>5, <1>6, <1>8 DEF ArtifactFields
  <2>2. Shaped(b)
    BY <1>1, <1>3, <1>8, <2>1 DEF Shaped, Filed
  <2>3. Holds(p) /\ BackedIfSaid(p)
    <3>1. Holds(p)
      BY <1>3 DEF Holds, a
    <3> QED
      BY <1>1, <1>3, <3>1, HeldIsBacked
  <2>4. b.n - 1 = a.n
    BY <1>1, <2>1 DEF Filed, Shaped
  <2>5. Grounded(b)
    BY <1>1, <1>3, <1>8, <2>1, <2>3, <2>4 DEF Grounded, Filed, SourcesThere
  <2> QED
    BY <2>1, <2>2, <2>5 DEF a, b, p
<1> QED
  BY <1>2, <1>7, <1>8

LEMMA PlanKeeps == ASSUME PackInv, PlanConfirm PROVE PackInv'
<1>1. PICK r \in DOMAIN pack \cap CandidatePaths :
        /\ Confirmable(pack[r])
        /\ confirm' = [at |-> "planned",
                       file |-> {Pointer(Path(Transition(Pointer(r, pack[r]))), Transition(Pointer(r, pack[r])))}]
  BY DEF PlanConfirm
<1>2. UNCHANGED <<pack, ledger, tool>>
  BY DEF PlanConfirm
<1>3. Extends
  BY <1>2 DEF Extends
<1>4. PICK b : /\ b = Transition(Pointer(r, pack[r]))
               /\ Shaped(b) /\ Grounded(b) /\ b.status \in Conferred /\ b.marked
  BY <1>1, Confirming DEF PackInv
<1>5. Grounded(b)'
  BY <1>3, <1>4, GroundedOn DEF PackInv
<1>6. b # Torn
  BY <1>4, NotTorn DEF Shaped
<1>7. confirm' = [at |-> "planned", file |-> {[ref |-> Path(b), value |-> b]}]
  BY <1>1, <1>4 DEF Pointer
<1>8. ConfirmSound'
  BY <1>4, <1>5, <1>6, <1>7 DEF ConfirmSound
<1>9. PackSound' /\ ToolSound'
  BY <1>2, <1>3, PackOn, ToolOn DEF PackInv, ToolSound
<1> QED
  BY <1>8, <1>9 DEF PackInv

LEMMA RecordKeeps == ASSUME PackInv, RecordEvent PROVE PackInv'
<1>1. PICK p \in confirm.file :
        /\ ledger' = ledger \cup {Target(p.value)}
        /\ confirm' = [confirm EXCEPT !.at = "recorded"]
        /\ UNCHANGED <<pack, tool>> /\ confirm.at = "planned"
  BY DEF RecordEvent
<1>2. Extends
  BY <1>1 DEF Extends
<1>3. PackSound' /\ ToolSound'
  BY <1>1, <1>2, PackOn, ToolOn DEF PackInv, ToolSound
<1>4. DOMAIN confirm' = {"at", "file"} /\ confirm'.file = confirm.file /\ confirm'.at = "recorded"
  BY <1>1 DEF PackInv, ConfirmSound
<1>5. confirm.file = {p}
  BY DEF PackInv, ConfirmSound
<1>6. ConfirmSound'
  <2>1. Grounded(p.value)'
    BY <1>2, GroundedOn DEF PackInv, ConfirmSound
  <2> QED
    BY <1>1, <1>4, <1>5, <2>1 DEF PackInv, ConfirmSound
<1> QED
  BY <1>3, <1>6 DEF PackInv

LEMMA CreateKeeps == ASSUME PackInv, CreateConfirmed PROVE PackInv'
<1>1. PICK p \in confirm.file :
        /\ UNCHANGED <<ledger, tool>> /\ confirm.at = "recorded"
        /\ \/ confirm' = Rest /\ pack' = pack
           \/ /\ p.ref \notin DOMAIN pack /\ pack' = With(p.ref, Torn)
              /\ confirm' = [confirm EXCEPT !.at = "created"]
  BY DEF CreateConfirmed
<1>2. CASE confirm' = Rest /\ pack' = pack
  BY <1>1, <1>2, Closing DEF PackInv, ToolSound
<1>3. CASE /\ p.ref \notin DOMAIN pack /\ pack' = With(p.ref, Torn)
           /\ confirm' = [confirm EXCEPT !.at = "created"]
  <2>1. /\ \A q \in DOMAIN pack : q \in DOMAIN pack' /\ pack'[q] = pack[q]
        /\ \A q \in DOMAIN pack' : q \in DOMAIN pack \/ (q = p.ref /\ pack'[q] = Torn)
        /\ p.ref \in DOMAIN pack' /\ pack'[p.ref] = Torn
    BY <1>3 DEF With
  <2>2. Extends
    BY <1>1, <2>1 DEF Extends
  <2>3. p.ref \notin Snapshots /\ p.ref \notin CandidatePaths
    BY CanonicalPaths DEF PackInv, ConfirmSound, Shaped
  <2>4. PackSound'
    BY <2>1, <2>2, <2>3, PackOn DEF PackInv
  <2>5. ToolSound'
    BY <1>1, <2>2, ToolOn DEF PackInv, ToolSound
  <2>6. DOMAIN confirm' = {"at", "file"} /\ confirm'.file = confirm.file /\ confirm.file = {p}
        /\ confirm'.at = "created"
    BY <1>3 DEF PackInv, ConfirmSound
  <2>7. Grounded(p.value)'
    BY <2>2, GroundedOn DEF PackInv, ConfirmSound
  <2>8. ConfirmSound'
    BY <1>1, <2>1, <2>6, <2>7 DEF PackInv, ConfirmSound
  <2> QED
    BY <2>4, <2>5, <2>8 DEF PackInv
<1> QED
  BY <1>1, <1>2, <1>3

LEMMA WriteKeeps == ASSUME PackInv, WriteConfirmed PROVE PackInv'
<1>1. PICK p \in confirm.file :
        /\ UNCHANGED <<ledger, tool>> /\ confirm.at = "created"
        /\ pack' = [pack EXCEPT ![p.ref] = p.value] /\ confirm' = Rest
  BY DEF WriteConfirmed
<1>2. p.ref \in DOMAIN pack /\ pack[p.ref] = Torn
  BY <1>1 DEF PackInv, ConfirmSound
<1>3. /\ DOMAIN pack' = DOMAIN pack /\ pack'[p.ref] = p.value
      /\ \A q \in DOMAIN pack \ {p.ref} : pack'[q] = pack[q]
  BY <1>1, <1>2
<1>4. Extends
  BY <1>1, <1>2, <1>3 DEF Extends
<1>5. /\ p.value # Torn /\ p.ref \notin CandidatePaths /\ Filed(p.ref, p.value)
  BY <1>1, CanonicalPaths DEF PackInv, ConfirmSound, Filed, Placed, Backed, Shaped
<1>6. PackSound'
  BY <1>3, <1>4, <1>5, PackOn DEF PackInv
<1>7. ToolSound' /\ ConfirmSound'
  BY <1>1, <1>4, ToolOn DEF PackInv, ToolSound, ConfirmSound, Rest
<1> QED
  BY <1>6, <1>7 DEF PackInv

LEMMA PackInvInit == PackInit => PackInv
<1> SUFFICES ASSUME PackInit PROVE PackInv
  OBVIOUS
<1>1. DOMAIN pack = {} /\ tool = [c \in ToolCalls |-> Rest] /\ confirm = Rest
  BY DEF PackInit, PackWith
<1> QED
  BY <1>1 DEF PackInv, PackSound, ToolSound, ConfirmSound, Rest

LEMMA PackInvNext == PackInv /\ [PackNext]_avars => PackInv'
<1> SUFFICES ASSUME PackInv, [PackNext]_avars PROVE PackInv'
  OBVIOUS
<1>1. ASSUME NEW c \in ToolCalls,
             \/ SnapshotSource(c) \/ WriteCard(c) \/ WriteQuestion(c) \/ WriteInterview(c)
             \/ WriteContract(c) \/ WriteRequirement(c) \/ StageCandidate(c) \/ Link(c) \/ Unlink(c)
      PROVE  PackInv'
  BY <1>1, SnapshotKeeps, CardKeeps, QuestionKeeps, InterviewKeeps, ContractKeeps,
     RequirementKeeps, StageKeeps, LinkKeeps, UnlinkKeeps
<1>2. CASE SessionDies \/ CommandDies
  BY <1>2, DeathsKeep
<1>3. CASE PlanConfirm \/ RecordEvent \/ CreateConfirmed \/ WriteConfirmed
  BY <1>3, PlanKeeps, RecordKeeps, CreateKeeps, WriteKeeps
<1>4. CASE UNCHANGED avars
  BY <1>4, Closing DEF avars, PackInv, ToolSound
<1> QED
  BY <1>1, <1>2, <1>3, <1>4 DEF PackNext

(***************************************************************************)
(* Whatever files the pack has or will have, they rest on files that are   *)
(* there, and an owner's word is recorded before it is written down.       *)
(***************************************************************************)
THEOREM PackStaysSound == PackSpec => []PackInv
BY PackInvInit, PackInvNext, PTL DEF PackSpec

LEMMA SourcesHoldAlone ==
  ASSUME SourcePath \notin twice, NEW v, Shaped(v), SourcesThere(v)
  PROVE  SourcesHold(v)
BY DEF Shaped, SourcesThere, SourcesHold

LEMMA StagedCloses ==
  ASSUME PackInv, SourcePath \notin twice, NEW r \in DOMAIN pack \cap CandidatePaths
  PROVE  Confirmable(pack[r]) /\ ClosureHolds(pack[r])
<1>1. PICK v : v = pack[r]
  OBVIOUS
<1>2. PackSound /\ Shaped(v) /\ Grounded(v) /\ Confirmable(v)
  BY <1>1 DEF PackInv, PackSound, Snapped, Filed, Placed, CandidatePaths, SourcePath, DocumentPath
<1>3. SourcesHold(v)
  BY <1>2, SourcesHoldAlone DEF Grounded
<1>4. ASSUME NEW p \in v.rests
      PROVE  /\ Holds(p) /\ (p.value.status \in Conferred => Backed(p.value))
             /\ p.value.kind \in {"card", "interview"} => SourcesHold(p.value)
  <2>1. p.value # Torn /\ Holds(p) /\ IsCanonical(p) /\ BackedIfSaid(p)
    BY <1>2 DEF Shaped, Grounded
  <2>2. ASSUME p.value.kind \in {"card", "interview"} PROVE SourcesHold(p.value)
    <3>1. Shaped(p.value) /\ Grounded(p.value)
      BY <1>2, <2>1, <2>2, CanonicalIsFiled DEF Filed
    <3> QED
      BY <3>1, SourcesHoldAlone DEF Grounded
  <2> QED
    BY <2>1, <2>2 DEF BackedIfSaid
<1>5. CASE v.kind = "contract"
  <2>1. \A p \in About(v, "interview") :
          /\ Holds(p) /\ p.value.status = "completed"
          /\ p.value.sources = v.sources /\ SourcesHold(p.value)
    BY <1>2, <1>4, <1>5 DEF Grounded, About
  <2>2. \A p \in v.before : Holds(p) /\ Backed(p.value) /\ p.value.n = v.n - 1
    BY <1>2, <1>5 DEF Grounded, BackedIfSaid, Conferred
  <2>3. \A p \in About(v, "card") :
          Holds(p) /\ p.value.status = "confirmed" /\ SourcesHold(p.value) /\ Backed(p.value)
    BY <1>2, <1>4, <1>5 DEF Grounded, About, Conferred
  <2> QED
    BY <1>1, <1>2, <1>5, <2>1, <2>2, <2>3 DEF ClosureHolds
<1>6. CASE v.kind = "requirement"
  <2>1. \A p \in About(v, "contract") : p.value.status = "issued"
    BY <1>2, <1>6 DEF Grounded
  <2> QED
    BY <1>1, <1>2, <1>3, <1>4, <1>6, <2>1 DEF ClosureHolds
<1>7. CASE v.kind \in {"card", "question"}
  BY <1>1, <1>2, <1>3, <1>7 DEF ClosureHolds
<1> QED
  BY <1>2, <1>5, <1>6, <1>7 DEF Confirmable

LEMMA StagedParses ==
  ASSUME PackInv, NEW r \in DOMAIN pack \cap CandidatePaths, pack[r].kind # "card" \/ pack[r].vouched
  PROVE  Parses(Transition(Pointer(r, pack[r])))
<1> DEFINE a == pack[r]
           p == Pointer(r, a)
           b == Transition(p)
           said == [a EXCEPT !.status = Confirms[a.kind], !.marked = TRUE]
<1>1. Shaped(a) /\ Confirmable(a)
  BY DEF PackInv, PackSound, Snapped, Filed, Placed, CandidatePaths, SourcePath, DocumentPath
<1>2. p.value = a
  BY DEF Pointer
<1>3. /\ DOMAIN said = ArtifactFields
      /\ said.kind = a.kind /\ said.n = a.n /\ said.before = a.before
      /\ said.vouched = a.vouched /\ said.marked = TRUE /\ said.status = Confirms[a.kind]
  BY <1>1 DEF Shaped, ArtifactFields
<1>4. said.status \in Conferred
  BY <1>1, <1>3 DEF Confirmable, Confirms, Conferred
<1>5. b = IF a.kind \in {"card", "question"} THEN [said EXCEPT !.n = a.n + 1, !.before = {p}] ELSE said
  BY <1>2 DEF Transition
<1>6. pack[r].kind # "card" \/ a.vouched
  OBVIOUS
<1>7. a.kind = pack[r].kind
  OBVIOUS
<1> HIDE DEF a, p, said, b
<1>8. CASE a.kind \in {"card", "question"}
  <2>1. /\ b.kind = a.kind /\ b.n = a.n + 1 /\ b.before = {p} /\ b.vouched = a.vouched
        /\ b.marked = TRUE /\ b.status \in Conferred
    BY <1>3, <1>4, <1>5, <1>8 DEF ArtifactFields
  <2>2. b.n # 1 /\ b.before # {}
    BY <1>1, <2>1 DEF Shaped
  <2> QED
    BY <1>6, <1>7, <2>1, <2>2 DEF Parses, b, p, a
<1>9. CASE a.kind \notin {"card", "question"}
  <2>1. b = said
    BY <1>5, <1>9
  <2>2. said.n = 1 <=> said.before = {}
    BY <1>1, <1>3 DEF Shaped
  <2>3. Parses(said)
    BY <1>3, <1>4, <1>9, <2>2 DEF Parses
  <2> QED
    BY <2>1, <2>3 DEF b, p, a
<1> QED
  BY <1>8, <1>9

(***************************************************************************)
(* Whatever is staged, the operator's confirm command can take (the        *)
(* checks of domain-artifact.ts are at least those of                      *)
(* preflightAuthorityClosure), for any number of calls and revisions, when *)
(* the source has one link; and what comes of it parses, unless it is a    *)
(* card that only domain knowledge vouches for.                            *)
(***************************************************************************)
THEOREM StagedStaysConfirmable == PackSpec => []StagedIsConfirmable
<1>1. PackInv => StagedIsConfirmable
  BY StagedCloses, StagedParses DEF StagedIsConfirmable
<1> QED
  BY <1>1, PackStaysSound, PTL


-----------------------------------------------------------------------------
(* The predecessors of a file, as far back as one asks for. *)
Before(S) == UNION {q.value.before : q \in S}

LEMMA PastExists ==
  ASSUME NEW p, NEW k \in Nat
  PROVE  \E f : f = [n \in 0..k |-> IF n = 0 THEN {p} ELSE Before(f[n - 1])]
<1> DEFINE T == {m \in Nat : \E f : f = [n \in 0..m |-> IF n = 0 THEN {p} ELSE Before(f[n - 1])]}
<1>1. 0 \in T
  <2> DEFINE f == [n \in 0..0 |-> {p}]
  <2>1. f = [n \in 0..0 |-> IF n = 0 THEN {p} ELSE Before(f[n - 1])]
    OBVIOUS
  <2> HIDE DEF f
  <2> QED
    BY <2>1
<1>2. ASSUME NEW m \in Nat, m \in T PROVE m + 1 \in T
  <2>1. PICK f : f = [n \in 0..m |-> IF n = 0 THEN {p} ELSE Before(f[n - 1])]
    BY <1>2
  <2> DEFINE g == [n \in 0..m + 1 |-> IF n = m + 1 THEN Before(f[m]) ELSE f[n]]
  <2>2. ASSUME NEW n \in 0..m + 1
        PROVE  g[n] = IF n = 0 THEN {p} ELSE Before(g[n - 1])
    <3>1. CASE n = m + 1
      <4>1. n # 0 /\ n - 1 = m /\ n - 1 \in 0..m + 1 /\ n - 1 # m + 1
        BY <3>1
      <4> QED
        BY <3>1, <4>1
    <3>2. CASE n = 0
      <4>1. n \in 0..m /\ n # m + 1
        BY <3>2
      <4>2. g[n] = f[n]
        BY <4>1
      <4>3. f[n] = {p}
        BY <2>1, <3>2, <4>1
      <4> HIDE DEF g
      <4> QED
        BY <3>2, <4>2, <4>3
    <3>3. CASE n \in 1..m
      <4>1. n \in 0..m /\ n # m + 1 /\ n # 0 /\ n - 1 \in 0..m /\ n - 1 # m + 1 /\ n - 1 \in 0..m + 1
        BY <3>3
      <4>2. g[n] = f[n] /\ g[n - 1] = f[n - 1]
        BY <4>1
      <4>3. f[n] = Before(f[n - 1])
        BY <2>1, <4>1
      <4> HIDE DEF g
      <4> QED
        BY <4>1, <4>2, <4>3
    <3> QED
      BY <3>1, <3>2, <3>3
  <2>3. g = [n \in 0..m + 1 |-> g[n]]
    OBVIOUS
  <2> HIDE DEF g
  <2>4. g = [n \in 0..m + 1 |-> IF n = 0 THEN {p} ELSE Before(g[n - 1])]
    BY <2>2, <2>3
  <2> QED
    BY <2>4
<1> HIDE DEF T
<1>3. Nat \subseteq T
  BY <1>1, <1>2, SetInduction
<1> QED
  BY <1>3 DEF T

LevelsOf(f, p) ==
  /\ f = [n \in 0..MaxRevision |-> IF n = 0 THEN {p} ELSE Before(f[n - 1])]
  /\ Past(p) = UNION {f[n] : n \in 0..MaxRevision}

LEMMA PastIs ==
  ASSUME NEW p
  PROVE  \E f : LevelsOf(f, p)
<1> DEFINE g == CHOOSE f : f = [n \in 0..MaxRevision |->
                             IF n = 0 THEN {p} ELSE UNION {q.value.before : q \in f[n - 1]}]
<1>1. \E f : f = [n \in 0..MaxRevision |->
                   IF n = 0 THEN {p} ELSE UNION {q.value.before : q \in f[n - 1]}]
  <2>1. \E f : f = [n \in 0..MaxRevision |-> IF n = 0 THEN {p} ELSE Before(f[n - 1])]
    BY PastExists, RevisionsAssumption
  <2> QED
    BY <2>1, Zenon DEF Before
<1>2. g = [n \in 0..MaxRevision |-> IF n = 0 THEN {p} ELSE UNION {q.value.before : q \in g[n - 1]}]
  BY <1>1, Zenon
<1>3. Past(p) = UNION {g[n] : n \in 0..MaxRevision}
  BY Zenon DEF Past
<1> HIDE DEF g
<1>4. g = [n \in 0..MaxRevision |-> IF n = 0 THEN {p} ELSE Before(g[n - 1])]
  BY <1>2, Zenon DEF Before
<1>5. LevelsOf(g, p)
  BY <1>3, <1>4, Zenon DEF LevelsOf
<1> QED
  BY <1>5

(* A whole file that is there is what the validator asks of one, and so    *)
(* are its predecessors.                                                   *)
Accepted(q) ==
  /\ Holds(q) /\ Contiguous(q) /\ Authorized(q) /\ Founded(q)
  /\ \A s \in q.value.sources : Holds(s)

There(q) == Holds(q) /\ q.value # Torn /\ q.ref \notin Snapshots

LEMMA FiledAuthorized ==
  ASSUME PackSound, NEW q, There(q)
  PROVE  Authorized(q)
<1> SUFFICES ASSUME q.value.status \in Conferred PROVE IsCanonical(q) /\ Backed(q.value)
  BY DEF Authorized
<1>1. Filed(q.ref, q.value)
  BY HeldIsFiled DEF There
<1>2. q.ref \notin CandidatePaths
  BY <1>1 DEF Filed, Placed, Confirmable, Conferred
<1> QED
  BY <1>1, <1>2 DEF Filed, Placed, IsCanonical

LEMMA HeldPasses ==
  ASSUME PackSound, NEW q, There(q), \A b \in q.value.before : b.ref # DocumentPath
  PROVE  Accepted(q) /\ \A b \in q.value.before : There(b)
<1> DEFINE v == q.value
<1>1. Filed(q.ref, v)
  BY HeldIsFiled DEF There
<1>2. Shaped(v) /\ Grounded(v) /\ v.kind \in Kinds /\ "source" \notin Kinds
  BY <1>1 DEF Filed, Shaped, Kinds
<1>0. \A b \in v.before : b.ref # DocumentPath
  OBVIOUS
<1> HIDE DEF v
<1>3. ASSUME NEW b \in v.before
      PROVE  /\ There(b)
             /\ b.value.kind = v.kind /\ b.value.n = v.n - 1
             /\ \/ IsCanonical(b)
                \/ v.kind \in {"card", "question", "requirement"} /\ IsCandidate(b.ref)
  <2>1. /\ Holds(b) /\ b.value # Torn /\ b.value.kind = v.kind /\ b.value.n = v.n - 1
        /\ v.kind = "contract" => IsCanonical(b)
    BY <1>2 DEF Shaped, Grounded
  <2>2. b.ref \notin Snapshots
    <3>1. b.value.kind # "source"
      BY <1>2, <2>1
    <3>2. ASSUME b.ref = SourcePath PROVE FALSE
      <4>1. b.ref \in DOMAIN pack /\ pack[b.ref] = b.value
        BY <2>1 DEF Holds
      <4>2. Snapped(b.ref, b.value) \/ Filed(b.ref, b.value)
        BY <2>1, <4>1 DEF PackSound
      <4>3. ~Filed(b.ref, b.value)
        BY <3>2 DEF Filed, Placed, Snapshots
      <4>4. SourcePath # DocumentPath
        BY DEF SourcePath, DocumentPath
      <4> QED
        BY <3>1, <3>2, <4>2, <4>3, <4>4 DEF Snapped
    <3> QED
      BY <1>0, <3>2 DEF Snapshots
  <2>3. Placed(b.ref, b.value)
    BY <2>1, <2>2, HeldIsFiled DEF Filed
  <2>4. CASE b.ref \in CandidatePaths
    <3>1. b.value.kind # "interview" /\ IsCandidate(b.ref)
      BY <2>3, <2>4 DEF Placed, Confirmable, CandidatePaths, IsCandidate
    <3> QED
      BY <1>2, <2>1, <2>2, <3>1 DEF Kinds, There
  <2>5. CASE b.ref \notin CandidatePaths
    BY <2>1, <2>2, <2>3, <2>5 DEF Placed, IsCanonical, There
  <2> QED
    BY <2>4, <2>5
<1>4. Contiguous(q)
  BY <1>3 DEF Contiguous, v
<1>5. ASSUME NEW p \in v.rests
      PROVE  Holds(p) /\ IsCanonical(p) /\ Authorized(p) /\ p.value # Torn
  <2>1. Holds(p) /\ IsCanonical(p) /\ p.value # Torn
    BY <1>2 DEF Grounded, Shaped
  <2>2. p.ref \notin Snapshots
    BY <2>1, CanonicalIsFiled DEF Filed, Placed
  <2> QED
    BY <2>1, <2>2, FiledAuthorized DEF There
<1>7. Founded(q)
  <2>1. \A p \in v.rests : Holds(p) /\ Authorized(p)
    BY <1>5
  <2>2. v.kind = "contract" =>
          /\ \A p \in About(v, "interview") :
               IsCanonical(p) /\ p.value.status = "completed" /\ p.value.sources = v.sources
          /\ \A p \in About(v, "card") : p.value.status = "confirmed"
    BY <1>2 DEF Grounded, About
  <2>3. v.kind = "requirement" => \A p \in About(v, "contract") : Backed(p.value)
    BY <1>2 DEF Grounded, About, BackedIfSaid, Conferred
  <2> QED
    BY <2>1, <2>2, <2>3 DEF Founded, v
<1>8. \A s \in q.value.sources : Holds(s)
  BY <1>2 DEF Grounded, SourcesThere, v
<1>9. Accepted(q)
  <2>1. Holds(q)
    BY DEF There
  <2>2. Authorized(q)
    BY FiledAuthorized
  <2> QED
    BY ONLY <1>4, <1>7, <1>8, <2>1, <2>2 DEF Accepted
<1>10. \A b \in v.before : There(b)
  BY <1>3
<1>11. \A b \in q.value.before : There(b)
  BY ONLY <1>10 DEF v
<1> QED
  BY ONLY <1>9, <1>11

LEMMA SoundPackValidates ==
  ASSUME PackInv, NEW r \in DOMAIN pack \ (Snapshots \cup CandidatePaths), pack[r] # Torn
  PROVE  LET p == Pointer(r, pack[r]) IN IsCanonical(p) /\ (FromDocument(p) \/ Validates(p))
<1>1. PICK p : p = Pointer(r, pack[r])
  OBVIOUS
<1>2. p.ref = r /\ p.value = pack[r]
  BY <1>1 DEF Pointer
<1>3. PackSound /\ Filed(p.ref, p.value) /\ There(p)
  BY <1>2, HeldIsFiled DEF PackInv, Holds, There
<1>4. IsCanonical(p)
  BY <1>2, <1>3 DEF Filed, Placed, IsCanonical
<1>5. PICK f : LevelsOf(f, p)
  BY PastIs
<1>6. ASSUME ~FromDocument(p) PROVE Validates(p)
  <2>1. \A n \in 0..MaxRevision : \A q \in f[n] : \A b \in q.value.before : b.ref # DocumentPath
    BY <1>5, <1>6 DEF FromDocument, LevelsOf
  <2> DEFINE T == {n \in Nat : n \in 0..MaxRevision => \A q \in f[n] : There(q)}
  <2>2. 0 \in T
    BY <1>3, <1>5 DEF LevelsOf
  <2>3. ASSUME NEW n \in Nat, n \in T PROVE n + 1 \in T
    <3> SUFFICES ASSUME n + 1 \in 0..MaxRevision PROVE \A q \in f[n + 1] : There(q)
      OBVIOUS
    <3>1. n \in 0..MaxRevision /\ n + 1 # 0 /\ (n + 1) - 1 = n
      BY RevisionsAssumption
    <3>2. \A q \in f[n] : There(q)
      BY <2>3, <3>1
    <3>3. f[n + 1] = Before(f[n])
      BY <1>5, <3>1 DEF LevelsOf
    <3> QED
      BY <1>3, <2>1, <3>1, <3>2, <3>3, HeldPasses DEF Before
  <2> HIDE DEF T
  <2>4. Nat \subseteq T
    BY <2>2, <2>3, SetInduction
  <2>5. \A n \in 0..MaxRevision : \A q \in f[n] : There(q)
    BY <2>4 DEF T
  <2>6. ASSUME NEW n \in 0..MaxRevision, NEW q \in f[n] PROVE Accepted(q)
    <3>1. There(q) /\ \A b \in q.value.before : b.ref # DocumentPath
      BY <2>1, <2>5
    <3>2. PackSound
      BY <1>3
    <3> QED
      BY ONLY <3>1, <3>2, HeldPasses
  <2>7. \A q \in Past(p) : Accepted(q)
    BY <1>5, <2>6 DEF LevelsOf
  <2> QED
    BY <2>7 DEF Validates, Accepted
<1> QED
  BY <1>1, <1>4, <1>6

(***************************************************************************)
(* Every artifact at its canonical path passes what validateDomainPack     *)
(* asks of it, of its predecessors and of what it rests on, whoever has    *)
(* placed it and whoever died, unless it goes back to a snapshot.          *)
(***************************************************************************)
THEOREM WrittenStaysValid == PackSpec => []WrittenPackValidates
<1>1. PackInv => WrittenPackValidates
  BY SoundPackValidates DEF WrittenPackValidates, Snapshots
<1> QED
  BY <1>1, PackStaysSound, PTL
=============================================================================
