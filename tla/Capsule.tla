------------------------------- MODULE Capsule -------------------------------
(***************************************************************************)
(* A Capsule of @domaineval/weave: a directory that its author edits, and  *)
(* the commands confirm, release, run, calibrate, doctor and replay that   *)
(* read it file by file and leave content-addressed records under .eval/   *)
(* (packages/weave/src/capsule, evaluator and cli).  Nothing locks the     *)
(* directory: the author saves files, and other commands run, at any time. *)
(*                                                                         *)
(* One Requirement with an edge to every claim of Claims, one Evaluator    *)
(* whose id and version the author keeps, and calibration cases of three   *)
(* Candidates: a Gold one, which the author edits and run evaluates too,   *)
(* an equivalent that satisfies every claim and a mutant that satisfies    *)
(* none.  A file is described by what the commands read in it: the domain  *)
(* by the claims it confirms, the Evaluator by the claims it checks and    *)
(* the Candidate by the claims it satisfies.                               *)
(***************************************************************************)
EXTENDS Naturals, Sequences

CONSTANTS
  Claims,   (* The claims that the Requirement needs.                      *)
  Commands, (* Processes, each of which is given one command.              *)
  MaxEdits  (* Bound on the saves of the author.                           *)

ASSUME CapsuleAssumption == "torn" \notin Claims /\ Claims # {} /\ MaxEdits \in Nat

(***************************************************************************)
(* domain.yaml while confirm has truncated it and not yet written it.      *)
(***************************************************************************)
Torn == {"torn"}

File == {"domain", "evaluator", "candidate"}

Contents == (SUBSET Claims) \cup {Torn}

(* What a command has read: into the loaded Capsule or into a release. *)
Buffer == {"loaded", "frozen"}

Nothing == [b \in Buffer |-> [f \in File |-> {}]]

(***************************************************************************)
(* Records under .eval/, which are named by the digest of what they say: a *)
(* release says which contents it binds, a run and a calibration say what  *)
(* they found of the release they name.                                    *)
(***************************************************************************)
Record ==
  [kind : {"release", "run", "calibration"}, of : [File -> Contents],
   result : {"none", "accept", "reject", "inconclusive", "qualified", "unqualified"}]

Release(contents) == [kind |-> "release", of |-> contents, result |-> "none"]

(***************************************************************************)
(* evaluateExecution: what is said of a claim.  observed is FALSE when the *)
(* Candidate did not run, timed out or did not print one document.         *)
(***************************************************************************)
Status(c, contents, observed) ==
  IF c \notin contents["domain"] \cap contents["evaluator"] THEN "inconclusive"
  ELSE IF ~observed THEN "measurement_error"
  ELSE IF c \in contents["candidate"] THEN "pass" ELSE "fail"

(* An Evaluator without a check for the claim says nothing of it. *)
BadVerdict(contents, observed) ==
  LET statuses == {Status(c, contents, observed) : c \in Claims \cap contents["evaluator"]}
  IN IF statuses \cap {"inconclusive", "measurement_error"} # {} THEN "inconclusive"
     ELSE IF "fail" \in statuses THEN "reject" ELSE "accept"

(* rebuildRun. *)
Verdict(contents, observed) ==
  LET statuses == {Status(c, contents, observed) : c \in Claims}
  IN IF statuses \cap {"inconclusive", "measurement_error"} # {} THEN "inconclusive"
     ELSE IF "fail" \in statuses THEN "reject" ELSE "accept"

(***************************************************************************)
(* What a record of this kind says.  calibrateEvaluator qualifies when the *)
(* Gold case passes every claim; the other two then match as well.         *)
(***************************************************************************)
Found(kind, contents, observed) ==
  IF kind = "run" THEN Verdict(contents, observed)
  ELSE IF Verdict(contents, observed) = "accept" THEN "qualified" ELSE "unqualified"

-----------------------------------------------------------------------------
(***************************************************************************)
(* The steps of the commands.  A load checks what it reads; a release is   *)
(* built from the bytes of every file as they are.                         *)
(***************************************************************************)
Load(f, b) == [do |-> "load", file |-> f, in |-> b]
Read(f) == [do |-> "read", file |-> f]
Do(what) == [do |-> what]
Persist(what, kind) == [do |-> what, kind |-> kind]

Confirmation ==
  <<Load("domain", "loaded"), Load("evaluator", "loaded"), Do("truncate"), Do("write")>>

Releasing ==
  <<Load("domain", "frozen"), Load("evaluator", "frozen"),
    Read("candidate"), Read("domain"), Read("evaluator"),
    Persist("create", "release"), Persist("fill", "release")>>

(* The release is previewed and not persisted. *)
BadEvaluation(kind) ==
  <<Load("domain", "loaded"), Load("evaluator", "loaded"),
    Read("candidate"), Read("domain"), Read("evaluator"),
    Persist("execute", kind), Persist("create", kind), Persist("fill", kind)>>

Evaluation(kind) ==
  <<Load("domain", "loaded"), Load("evaluator", "loaded"),
    Load("domain", "frozen"), Load("evaluator", "frozen"),
    Read("candidate"), Read("domain"), Read("evaluator"),
    Persist("create", "release"), Persist("fill", "release"),
    Persist("execute", kind), Persist("create", kind), Persist("fill", kind)>>

Readiness ==
  <<Load("domain", "loaded"), Load("evaluator", "loaded"),
    Read("candidate"), Read("domain"), Read("evaluator"), Do("look")>>

(* The release is rebuilt once by replayEvaluationRun, once by the CLI. *)
Replaying ==
  <<Do("open"),
    Load("domain", "frozen"), Load("evaluator", "frozen"),
    Read("candidate"), Read("domain"), Read("evaluator"), Do("compare"),
    Load("domain", "frozen"), Load("evaluator", "frozen"),
    Read("candidate"), Read("domain"), Read("evaluator"), Do("compare")>>

Script ==
  [confirm |-> Confirmation, release |-> Releasing, run |-> Evaluation("run"),
   calibrate |-> Evaluation("calibration"), doctor |-> Readiness, replay |-> Replaying]

VARIABLES
  edits,     (* How often the author has saved a file.                     *)
  tree,      (* The directory.                                             *)
  process,   (* What each process is at and what it has read.              *)
  partial,   (* Records that exist and are not all there.                  *)
  whole,     (* Records that are all there.                                *)
  printed,   (* History: the records whose ref a command has printed.      *)
  touched,   (* History: commands under which the directory has changed.   *)
  tainted    (* History: records that such a command has computed.         *)

vars == <<edits, tree, process, partial, whole, printed, touched, tainted>>

-----------------------------------------------------------------------------
Idle == [mode |-> "idle"]
Over == [mode |-> "over"]
Failed == [mode |-> "failed"]
Crashed == [mode |-> "crashed"]
Said(stage) == [mode |-> "over", stage |-> stage]

(* A command, what it has read, and the record it persists or replays. *)
Given(c, r) ==
  [mode |-> "running", command |-> c, step |-> 1, seen |-> Nothing, record |-> r]

Running(p) == process[p].mode = "running"

This(p) == Script[process[p].command][process[p].step]

At(p, what) == Running(p) /\ This(p).do = what

Seen(p, b) == process[p].seen[b]

Becomes(p, state) == process' = [process EXCEPT ![p] = state]

BadSkip(p, n, state) ==
  Becomes(p, IF state.step + n > Len(Script[state.command]) + 1
               THEN Over ELSE [state EXCEPT !.step = @ + n])

Skip(p, n, state) ==
  Becomes(p, IF state.step + n > Len(Script[state.command])
               THEN Over ELSE [state EXCEPT !.step = @ + n])

Proceed(p, state) == Skip(p, 1, state)

Fail(p) == Becomes(p, Failed)

(***************************************************************************)
(* The file f changes under every other command that is under way.         *)
(***************************************************************************)
Change(f, contents, by) ==
  /\ tree' = [tree EXCEPT ![f] = contents]
  /\ touched' = touched \cup {q \in Commands \ by : Running(q)}

-----------------------------------------------------------------------------
Init ==
  /\ edits = 0
  /\ tree \in [File -> SUBSET Claims]
  /\ process = [p \in Commands |-> Idle]
  /\ partial = {} /\ whole = {} /\ printed = {}
  /\ touched = {} /\ tainted = {}

(***************************************************************************)
(* The author saves a file: hand edits, a checkout, also of a torn domain. *)
(***************************************************************************)
Edit(f) ==
  /\ edits < MaxEdits
  /\ edits' = edits + 1
  /\ \E contents \in (SUBSET Claims) \ {tree[f]} : Change(f, contents, {})
  /\ UNCHANGED <<process, partial, whole, printed, tainted>>

Begin(p) ==
  /\ process[p] = Idle
  /\ \/ \E c \in DOMAIN Script \ {"replay"} : Becomes(p, Given(c, Release(Nothing["frozen"])))
     \/ \E r \in whole \cup partial :
          r.kind = "run" /\ Becomes(p, Given("replay", r))
  /\ UNCHANGED <<edits, tree, partial, whole, printed, touched, tainted>>

(***************************************************************************)
(* readStructured and, on the last file, validateSemantics: no check of an *)
(* Evaluator may be for a claim that is not confirmed.                     *)
(***************************************************************************)
LoadFile(p) ==
  /\ At(p, "load")
  /\ LET f == This(p).file
         s == [process[p] EXCEPT !.seen[This(p).in][f] = tree[f]]
     IN IF \/ tree[f] = Torn
           \/ f = "evaluator" /\ ~(tree[f] \subseteq Seen(p, This(p).in)["domain"])
          THEN Fail(p) ELSE Proceed(p, s)
  /\ UNCHANGED <<edits, tree, partial, whole, printed, touched, tainted>>

(***************************************************************************)
(* buildRelease.                                                           *)
(***************************************************************************)
ReadFile(p) ==
  /\ At(p, "read")
  /\ LET f == This(p).file
     IN Proceed(p, [process[p] EXCEPT !.seen["frozen"][f] = tree[f]])
  /\ UNCHANGED <<edits, tree, partial, whole, printed, touched, tainted>>

(***************************************************************************)
(* confirmCapsuleClaim: writeFile truncates the file and then writes it.   *)
(***************************************************************************)
Truncate(p) ==
  /\ At(p, "truncate")
  /\ \E c \in Claims \ Seen(p, "loaded")["domain"] :
       Proceed(p, [process[p] EXCEPT
                     !.seen["frozen"]["domain"] = Seen(p, "loaded")["domain"] \cup {c}])
  /\ Change("domain", Torn, {p})
  /\ UNCHANGED <<edits, partial, whole, printed, tainted>>

(* Only proposed claims can be confirmed. *)
RefuseConfirmation(p) ==
  /\ At(p, "truncate")
  /\ Seen(p, "loaded")["domain"] # {}
  /\ Fail(p)
  /\ UNCHANGED <<edits, tree, partial, whole, printed, touched, tainted>>

WriteDomain(p) ==
  /\ At(p, "write")
  /\ Change("domain", Seen(p, "frozen")["domain"], {p})
  /\ Proceed(p, process[p])
  /\ UNCHANGED <<edits, partial, whole, printed, tainted>>

(***************************************************************************)
(* writeExclusiveOrVerify: open(path, "wx"), and the bytes; of a record    *)
(* that exists the bytes are compared.                                     *)
(***************************************************************************)
ToPersist(p) ==
  IF This(p).kind = "release" THEN Release(Seen(p, "frozen")) ELSE process[p].record

PrintRef(p, r) ==
  printed' = IF process[p].step + 1 >= Len(Script[process[p].command])
               THEN printed \cup {r} ELSE printed

Create(p) ==
  /\ At(p, "create")
  /\ ToPersist(p) \notin partial \cup whole
  /\ partial' = partial \cup {ToPersist(p)}
  /\ Proceed(p, process[p])
  /\ UNCHANGED <<edits, tree, whole, printed, touched, tainted>>

Fill(p) ==
  /\ At(p, "fill")
  /\ partial' = partial \ {ToPersist(p)}
  /\ whole' = whole \cup {ToPersist(p)}
  /\ PrintRef(p, ToPersist(p))
  /\ Proceed(p, process[p])
  /\ UNCHANGED <<edits, tree, touched, tainted>>

Verify(p) ==
  /\ At(p, "create")
  /\ ToPersist(p) \in partial \cup whole
  /\ IF ToPersist(p) \in whole
       THEN PrintRef(p, ToPersist(p)) /\ Skip(p, 2, process[p])
       ELSE UNCHANGED printed /\ Fail(p)
  /\ UNCHANGED <<edits, tree, partial, whole, touched, tainted>>

(***************************************************************************)
(* The Candidate is run from the directory, or cannot be observed: there   *)
(* is no sandbox, it times out or its output is not one document.          *)
(***************************************************************************)
Execute(p) ==
  /\ At(p, "execute")
  /\ \E observed \in BOOLEAN :
       LET basis == [Seen(p, "loaded") EXCEPT !["candidate"] = tree["candidate"]]
           r == [kind |-> This(p).kind, of |-> Seen(p, "frozen"),
                 result |-> Found(This(p).kind, basis, observed)]
       IN /\ Proceed(p, [process[p] EXCEPT !.record = r])
          /\ tainted' = IF p \in touched THEN tainted \cup {r} ELSE tainted
  /\ UNCHANGED <<edits, tree, partial, whole, printed, touched>>

(***************************************************************************)
(* inspectCapsuleReadiness, which fails on a calibration it cannot parse.  *)
(***************************************************************************)
Runnable(p) == Claims \subseteq Seen(p, "loaded")["domain"] \cap Seen(p, "loaded")["evaluator"]

(* A calibration of any release qualifies the Evaluator. *)
BadStage(p) ==
  IF ~Runnable(p) THEN "draft"
  ELSE IF \E r \in whole : r.kind = "calibration" /\ r.result = "qualified"
    THEN "qualified" ELSE "runnable"

Stage(p) ==
  IF ~Runnable(p) THEN "draft"
  ELSE IF \E r \in whole : /\ r.kind = "calibration" /\ r.result = "qualified"
                           /\ r.of = Seen(p, "frozen")
    THEN "qualified" ELSE "runnable"

Look(p) ==
  /\ At(p, "look")
  /\ IF \E r \in partial : r.kind = "calibration"
       THEN Fail(p) ELSE Becomes(p, Said(Stage(p)))
  /\ UNCHANGED <<edits, tree, partial, whole, printed, touched, tainted>>

(***************************************************************************)
(* replayEvaluationRun and readCapsuleRelease.                             *)
(***************************************************************************)
Open(p) ==
  /\ At(p, "open")
  /\ IF process[p].record \in whole /\ Release(process[p].record.of) \in whole
       THEN Proceed(p, process[p]) ELSE Fail(p)
  /\ UNCHANGED <<edits, tree, partial, whole, printed, touched, tainted>>

(* What the directory lacks is compared, what it has and how is not. *)
BadCompare(p) ==
  /\ At(p, "compare")
  /\ IF \A f \in File : process[p].record.of[f] \subseteq Seen(p, "frozen")[f]
       THEN Proceed(p, process[p]) ELSE Fail(p)
  /\ UNCHANGED <<edits, tree, partial, whole, printed, touched, tainted>>

Compare(p) ==
  /\ At(p, "compare")
  /\ IF Seen(p, "frozen") = process[p].record.of
       THEN Proceed(p, process[p]) ELSE Fail(p)
  /\ UNCHANGED <<edits, tree, partial, whole, printed, touched, tainted>>

Crash(p) ==
  /\ Running(p)
  /\ Becomes(p, Crashed)
  /\ UNCHANGED <<edits, tree, partial, whole, printed, touched, tainted>>

-----------------------------------------------------------------------------
Step(p) ==
  \/ LoadFile(p) \/ ReadFile(p)
  \/ Truncate(p) \/ RefuseConfirmation(p) \/ WriteDomain(p)
  \/ Create(p) \/ Fill(p) \/ Verify(p) \/ Execute(p)
  \/ Look(p) \/ Open(p) \/ Compare(p)

Next ==
  \/ \E f \in File : Edit(f)
  \/ \E p \in Commands : Begin(p) \/ Step(p) \/ Crash(p)

Spec == Init /\ [][Next]_vars

-----------------------------------------------------------------------------
Running_(s) ==
  /\ s.command \in DOMAIN Script
  /\ s.step \in 1..Len(Script[s.command])
  /\ s.seen \in [Buffer -> [File -> Contents]]
  /\ s.record \in Record

(* Type invariant: a command that runs is at a step of its script. *)
TypeOK ==
  /\ edits \in 0..MaxEdits
  /\ tree \in [File -> Contents]
  /\ \A p \in Commands : process[p].mode = "running" => Running_(process[p])
  /\ partial \cup whole \cup printed \cup tainted \subseteq Record
  /\ touched \subseteq Commands

(* Every claim of these contents is confirmed and checked. *)
Judged(contents) == Claims \subseteq contents["domain"] \cap contents["evaluator"]

(***************************************************************************)
(* What a record says is so of the release it names.                       *)
(***************************************************************************)
Holds(r) ==
  CASE r.result \in {"accept", "qualified"} ->
         Judged(r.of) /\ Claims \subseteq r.of["candidate"]
    [] r.result = "reject" -> Judged(r.of) /\ ~(Claims \subseteq r.of["candidate"])
    [] OTHER -> TRUE

(***************************************************************************)
(* A run or a calibration says what is so of the release it names if the   *)
(* directory did not change while its command ran.  The command reads the  *)
(* directory three times (loadCapsule, releaseCapsule and the execution of *)
(* the Candidate) and names the second reading for all of them.            *)
(***************************************************************************)
UntouchedRecordsHold == \A r \in (whole \cup partial) \ tainted : Holds(r)

(***************************************************************************)
(* The calibrate command binds "the exact release" (README of the package):*)
(* a report that qualifies the Evaluator qualifies what its release binds. *)
(***************************************************************************)
QualifiedHolds == \A r \in whole : r.result = "qualified" => Holds(r)

(***************************************************************************)
(* A ref is printed only when the record is all there, and with it the     *)
(* release that replay will look for, whatever commands died half way.     *)
(***************************************************************************)
PrintedRunsReplay ==
  printed \subseteq whole /\ \A r \in printed : Release(r.of) \in whole

(***************************************************************************)
(* A replay during which nothing changed succeeds only if the directory is *)
(* the one the run was evaluated from, also when it changed in between     *)
(* and whatever it then shares with what was released.                     *)
(***************************************************************************)
ReplayMeansCurrent ==
  [][\A p \in Commands \ touched :
       At(p, "compare") /\ process'[p] = Over => tree = process[p].record.of]_vars

(***************************************************************************)
(* doctor says "qualified" of a directory that lies still only if its Gold *)
(* Candidate passes, unless a calibration was computed while the directory *)
(* changed: a calibration does not survive an edit of what it judged.      *)
(***************************************************************************)
QualifiedStageEarned ==
  [][\A p \in Commands \ touched :
       Look(p) /\ process'[p] = Said("qualified")
         /\ {r \in tainted : r.kind = "calibration"} = {}
         => Judged(tree) /\ Claims \subseteq tree["candidate"]]_vars
=============================================================================
