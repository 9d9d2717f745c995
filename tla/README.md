# DomainEval Weave / DSH Eval Lab: specifications and proofs

This directory holds the TLA+ specifications of the program in this repository, the TLC
configurations that model-check them on small instances, and proofs, checked by TLAPS, of the
properties that matter most. Paths below are relative to the repository root.

## 1. The system

The repository has two products. **DSH Eval Lab** (`src/`) runs coding agents twice, once with and
once without a harness, freezes what they produced, judges it with an oracle, and publishes a report
that anybody can rebuild from the frozen evidence. **DomainEval Weave** (`packages/weave`) is a
stand-alone package for authoring a *Capsule* (claims, requirements, evaluators, calibration cases)
and running candidates against it. Both are command-line programs for one machine. There is no
database and no lock anywhere: processes share directories, and everything they rely on comes from
`link`, `mkdir`, `rename` and exclusive creation.

| Component | State it keeps | Operations | Interacts with |
| --- | --- | --- | --- |
| Exposure ledger (`src/exposure/ledger.ts`) | reservation files by evidence kind, exposure records, temporary files | reserve holdout, assert freshness, record exposure, list | Suite driver, task campaigns; shared by all Suites of an instance |
| Artifact stores (`src/contracts/artifacts.ts`, `suite-artifacts.ts`) | immutable files, temporary files, link counts | write bytes or JSON, read by pointer or ref | every component that persists |
| Paired campaign (`src/campaign/`) | `campaign-state.json`, artifacts of two arms, reports | run, state transitions, `report` | artifact store, arm and oracle child processes, report command |
| Suite (`src/suite/`) | manifest, bindings, qualification, pointers to campaigns, report or envelope | `suite run`, `suite report`, replay | ledger, campaigns, artifact store |
| Capsule (`packages/weave/src`) | the author's directory, `.eval/releases`, `.eval/runs`, `.eval/calibrations` | confirm, release, run, calibrate, doctor, show, replay, compare, init | the author's editor, candidate child processes |
| Forward evidence (`src/author-evidence/`, `src/carrier/author-forward-*`) | run directory: descriptor, attempts, projection, receipt | begin, start and finish attempt, complete, read | author session in another process |
| Operator authority (`src/domain/`) | confirmation ledger, domain pack on disk | preflight, record event, write artifact, promotion | operator's command line |
| Runtime profiles (`src/runtime-profile/`) | live, staged and backup profile roots, ownership marker | install atomically, roll back, recover | package installer, owner of the profile |
| Judge cohort (`src/phase3c/judge-*`, `scripts/run-phase3c-judge-cohort.ts`) | descriptor, result and receipt per run, aggregates | repeat, retry, aggregate, resume, admit | carrier child process, artifact store |
| Process runners (`src/process/`, `src/carrier/`) | child process, timers, output buffers | run, time out, limit output | all of the above |
| Author's artifact tool (`src/author-bridge/domain-artifact.ts`) | pack files and their links, attempts of the session | snapshot source, write artifact, stage candidate | shares the pack with the confirm command, read by the validator |
| Commerce order service (task pack, Gold `order-service.ts`) | one JSON file, its memory, a queue of calls | create, cancel, withdraw, refund and audit operations | the oracle and the boundary put it to the test |
| Behavior oracle and grader admission (v2 `runner.mjs`, `src/oracle/`, `src/commerce-withdrawal/admission.ts`) | vectors of a calibration | evaluate, calibrate, admit | Candidates, deliveries |
| Observation boundary (v3 `runner.mjs`, `src/phase3c/`) | observations of a calibration | compile, play, normalise, bind, calibrate, admit | Candidates, judges |
| Pure parts (`src/validity`, `src/report`, `src/suite/reporter.ts`, `src/projector`, `src/oracle`, `src/domain/graph.ts`, schemas) | none | functions of frozen inputs | reports, replay |

`PROJECT.json` lists every component with its status and the reason where it is not modelled.

What is hard in this code, and what the properties are for:

- **Interleaving through the file system.** Several commands of one kind, or a command and its
  report command, run on the same directory. Checks (`lstat`, a directory listing, a digest) are
  separate from the acts they protect.
- **Death between two steps.** Every multi-step publication (three reservation links, temporary
  file then link then remove, many artifacts by `Promise.all`) can stop half-way, and some later
  command meets what is left.
- **Failure while other writes are in flight.** `Promise.all` rejects on the first failure; the
  other writes go on after the catch block has begun.
- **Verdicts.** A report must never say more than the evidence, and evidence must never be declared
  invalid for the wrong reason.
- **Stale reads.** A listing or a loaded document is used after the files have moved on.

Per component, what makes it correct: a holdout is shown to models by one Suite only (ledger); an
artifact is whole, never replaced, and readable by whoever holds its pointer (stores); a reported
campaign is complete, judged after both arms were frozen, and reproducible (campaign); a Suite
report rests on complete, clean evidence and an invalid Suite names its cause (Suite); a record of a
Capsule says what is so of the release it names (Capsule); a closed receipt matches its attempts
(forward evidence); an authority event and its artifact agree (operator authority); a profile root is
always one complete version and user bytes survive (profiles); a judge verdict is over three valid
repeats and an interrupted cohort resumes (judge cohort); what the author's tool stages can be confirmed
and what it wrote validates, or the files it has no hand in are at fault (author's tool); an order is kept
as it was answered, and its audit trail is its history (order service); a grader is admitted exactly when it
tells every known fault and no fault from each other (oracle, boundary).

## 2. Modules

### ExposureLedger, HoldoutGate

`ExposureLedger` models `src/exposure/ledger.ts` together with the callers that decide when its
operations run (`src/suite/real.ts`, `coordinator.ts`, `task-campaign.ts`). A Suite run is a process
with a label `pc[s]`. `reserved` is the directory of reservation files, one for each evidence kind
and value; `records` and `temps` the exposures directory; `current` the episode an arm is in; and
`seen` a history of what a model was really shown. `CheckFreshness` is `assertHoldoutUnexposed`
(it throws while any temporary file exists, as `list()` does), `LinkReservation` and
`RefuseReservation` are one iteration of the loop over `reservationPaths`, `StartEpisode` is the moment
a model sees the task, `WriteTemporary`, `LinkRecord` and `RemoveTemporary` are
`recordExposure`. Only holdout exposures require the reservation (`ReservationHeld`).

`HoldoutGate` is what the ledger promises: a gate that in one step grants a holdout to one Suite per
piece of evidence. `ExposureLedger` implements it under `granted <- {s : Owns(s)}`.

The branches of `reserveHoldout` that accept an identical existing reservation are not reachable
with a fresh suite id for each run, which `newSuiteId` provides; no action models them.

### ArtifactStore, WriteOnce

The two immutable stores, which share one algorithm: exclusive temporary file, `link` to the final
name, remove the temporary. A call is a process; the model has every file-system step of
`writeArtifactBytes` and of the readers. Campaign artifacts must have a single link when they are
read or compared (`inspectPhysicalFile`), Suite artifacts need not: `CampaignRefs` says which is
which, so one module answers for both. `linker` is the call whose temporary file still is a second
link. A write that meets an existing artifact compares bytes; in the link window of the Campaign
store it is refused even when the bytes are identical, although
`tests/contract/artifact-replay.test.ts` exercises idempotent rewrites (sequentially, where they
work).

`WriteOnce` is what the stores promise: a register for each artifact that one write sets, in one step, to all of its
bytes; a write returns a pointer when the register holds its bytes and may be refused at any time; a read through a pointer that
was returned succeeds. `ArtifactStore` implements it with the file under the name as the register (`content <- entry`), set by
`LinkArtifact`, and a call ended when its caller hears of it (`Endings`); a call that died stays pending. `RegisterSpec`
implies `PublishedWhole` and `FrozenBytes`, which are therefore stated and proved but not in a run.

### Campaign

`runPairedCampaign` as a script of 27 steps (`Script`): transitions of `campaign-state.json`, arms,
oracle runs, batches of artifact writes, scans and the final replay; with the catch block
(`Catch`, `DeclareInvalid`, `MarkInterrupted`) and any number of `report` commands
(`ReadPointers` ... `RefuseDeclaration`). Files are absent, in the link window of one process, or settled:
what `ArtifactStore` shows is all that others can tell. A batch of `Promise.all` is `pending`; writes
that are in flight when one of them fails stay in flight. `sound` is chosen at the start: whether the
cross-checks of replay hold for this campaign's evidence.

### Suite

`runPhase2Suite` with `executePlannedSuite` as `RunScript`, and the `suite report` command as
`ReportScript`. `evidence` is chosen at the start (sound, leaking a secret, or failing the
replay's cross-checks); `stage` is the mutable flag from which the catch block picks the reason,
`cause` the history of what really ended the run. Measuring a task is the module `Campaign`,
here one step with one outcome.

### Capsule

The commands of `packages/weave/src/cli/index.ts` on one directory. A command is a script of file
reads and writes (`Confirmation`, `Releasing`, `Evaluation`, `Readiness`, `Replaying`), because that
is where the hazards are: `calibrate` and `run` read the directory three times. `tree` is the
directory, by what commands can tell from a file; `Edit` is the author saving a file; `partial` and
`whole` are the records under `.eval/`, whose name is their content (`writeExclusiveOrVerify`).
`touched` and `tainted` are history: commands under which the directory changed, and records such a
command computed. A calibration has a Gold, an equivalent and a mutant case; the last two are taken
to be what their names say.

### ForwardEvidence

`src/author-evidence/` with the carrier that fills it (`author-forward-internal.ts`,
`author-forward-runtime.ts`). The evidence root is shared. A runner makes the directory of a run and its descriptor, launches a
session in another process, and completes the run: a snapshot of the attempts, the projection, the
receipt. The session starts and finishes attempts of its own accord. Every exclusive write has two
steps (the name exists, then its bytes), so that a death between them leaves a file that is there and
cannot be read. A reader of the root (`ListRuns`, `ReadAttempts`, `ReadReceipt`) visits one run after the other and one file
after the other while the others go on; it is the evaluator, and `EndEvaluation` is its verdict. The
code visits the runs in sorted order, the model in any.

### DomainAuthority

The confirm command of `src/domain/` (`operator-authority.ts`, `confirmation-ledger.ts`): plan over
candidates, the operator's answer, the event in the append-only ledger, the final artifact in the
pack, each an exclusive write of two steps. An event is a pair of time and candidate, so that a
retry at another time is another event. `validateDomainPack`, the dependency graph with its cycle and
closure rules, and the readiness are operators over the files that such commands leave.

### AuthorPack

The author's tool (`src/author-bridge/domain-artifact.ts`) and the confirm command on one pack directory. A call of the
tool links a complete temporary file to the final name and then removes it (`Link`, `Unlink`); a path in
between is in `twice`, and stays there when the session dies. What a call may place depends on its kind:
`SnapshotSource`, `WriteCard` ... `WriteRequirement` and `StageCandidate` (the checks are `CardHolds` ... `RequirementHolds`). The confirm command
plans over what it reads, records its event, creates the file and writes it (`PlanConfirm`, `RecordEvent`,
`CreateConfirmed`, `WriteConfirmed`), and can die between any two. What it confirms has to parse (`Parses`): a confirmed card
needs an authority beyond domain knowledge (`vouched`), a proposed one does not. A snapshot is any text, an artifact's JSON too
(`Documents`), which a later revision may then name as its predecessor. `Validates` is the validator of `pack.ts` on the directory. A behavior
starts with an empty pack; the run starts at every prefix of a usual authoring session (`Usual` in `MCOperations`),
each of which the tool can reach from there: one product with a source, a card, an interview, a
question, a contract and a requirement. The contents of claims and the ledger's own crashes are in
`DomainAuthority`, the attempts the tool records in `ForwardEvidence`.

### ProfileInstall

`installPhase3ProfilesAtomically` over the roots of both roles. A root is a record of its release, the parts it has, its
ownership marker, the owner's `cordis.yml` and whether somebody has put strange bytes into it. Existing
roots are exchanged by two renames with a backup between, missing ones are claimed by
`mkdir` and a marker and then filled entry by entry; the roll-back undoes the first role when
the second fails. Installers overlap, die anywhere, and the owner edits.

### JudgeCohort

`scripts/run-phase3c-judge-cohort.ts` over `src/phase3c/judge-*.ts`: a pass takes the cases in order, each with its
repeats, each repeat with its tries, under directories named by case and run id. `Earlier` is a pass
that died in the past; resumes overlap. The aggregate of a case, the summary, and what a resume
accepts of the earlier passes are the interesting part.

### Delivery

The Commerce template of `src/commerce/` from the package to the verdict: drafts of the
author (`Requests`), the compiler with its graph closure, calibration, a campaign with both arms, and
the delivery report that is replayed from what is frozen. From the first digest on, for as long as the process works, somebody
may put another version of the package in its place or an earlier one back (`Edit`, `Versions`). The digests are taken twice (`graded`,
`prepared`); calibration, the copy of the base, the patches at each arm and the oracle runner at each evaluation are readings that no
digest is taken of, and the histories `ran` and `drifted` say what they met. Episodes are what each arm answered for each behavior, or an episode that is invalid.

### CarrierProcess

The strict runner (`src/process/strict-runner.ts`), the carrier runner (`src/carrier/dsh-run.ts`) and the
Candidate runner of Weave, as one machine with `kind`: a child of some `manner` (on SIGTERM it dies, or shuts
down and exits with 0, or goes on), a helper that may inherit its pipes, chunks in the pipes, the deadline, grace and
kill timers, `close`, and the result. `HealthyIsWhole` is about what a caller may take for a complete
Session.

### Episode

An arm's Episode from the engine's first turn to its evaluation: tool calls, the seven Goal operations,
the end of turn, and how the process ended, then the projector (`src/projector/`), the validity of
each dimension, the freeze and the oracle. One `oddity` per Episode stands for what can be strange in its log or
environment. The engine's own account (`engine`) is kept beside what the code derives from the log. The loops of
the projector are functions by recursion over the places of the log (`FoldGoalEvidence`, `ValidLifecycle`), its filters
are sets of places (`OfType`).

### Verdicts

The decisions of `src/report/reporter.ts` and `src/suite/reporter.ts`: from two arms' outcome,
mechanism, cost and validity to a Task's recommendation, and from three Tasks to the Suite's.

### OrderStore, OrderService, DurableObject

`OrderStore` is the Gold order service of the Commerce task pack, each operation a function from the
store and the call to the new store and the answer: idempotent requests and their retention, ownership,
versions, withdrawal before cancellation, refunds, coupons and inventory, audit events. A Candidate
is Gold under a set of rewrites, those of `mutations.json` and `equivalent-variants.json`; the functions
take that set, so that the Red base, every mutant and every equivalent is the same definition.
`OrderService` runs Gold in a process: clients call without waiting for each other, the head of the queue computes
its outcome from memory (`BeginCommit`), the file is replaced by a rename (`PersistState`, `PersistFails`), and only
then memory is exchanged and the client answered (`Deliver`); the process dies anywhere and another opens the
file. `told` is the history of answers.

`DurableObject` is what its clients are promised: one object that takes the calls one at a time and in the order they were made, each
with one effect on all that the earlier ones left, and answered by that effect, refused without any, or forgotten. A death
forgets who waits, never an effect. `OrderService` implements it with what is in the file as the object (`object <- Stored`): the
renaming is the effect, and its answer is owed until `Deliver` (`Owed`). The module is told the operation as a parameter (`Apply`), so
it says nothing about orders.

### OrderOracle

The sixteen checks of the behavior oracle, each a story put to a Candidate (`Passes`); the vector of
each Candidate of the calibration, with Gold evaluated again and with the next seed; and `AdmitGrader`, which compares
the vectors with the frozen table of expected failures (`ExpectedFailures`, data, written down as it is in
the repository). A check may be disturbed: it errs, or says of a Candidate what is not so.

### ObservationBoundary

The same Candidates measured otherwise: scenarios (`Scenarios`) are played to a Candidate, what it
says is brought to a normal form (`NormalForm`), and expressions over the forms (`Holds`, `Bindings`)
decide each Claim. `CompileBoundary` is the compiler's coverage check, `MeasureCandidate` the observation
runner, `ScenarioErrs`, `CandidateDies` and `TreeDrifts` what may go wrong in it, and `AdmitBoundary` the admission.
A Candidate's false observations follow from `OrderStore` and its rewrites; what calibration expects of it (`Calibration`) is data.

### MC modules

Each `MC` module extends its specifications and adds model values. Five of them join machines
that share nothing (`MCLedgers`, `MCEpisodes`, `MCAuthoring`, `MCOperations`, `MCReview`): one initial choice
says which machine a behaviour is of, and the others stay as they start. This is only to check
several small specifications in one run; every module can be instantiated alone. Modules that would share
names are taken by a named instance (in `MCReview`). Four proof modules hold the proofs of several machines of one such run: `Review_proofs` those of the Capsule and the verdicts,
`Episodes_proofs` of the store, the runners and the Episode, `Authoring_proofs` of forward evidence and the authority, `Operations_proofs` of
the judges, the deliveries, the profiles and the author's pack. Where two
machines of such a module have processes, the processes have the same names, so that one symmetry set is
sound for both.

Names that begin with `Bad` are plausible regressions of the definition that follows them; nothing
refers to them, they are used to show that each property can fail.

## 3. Runs

Passing runs:

| Run | Instance | What it shows |
| --- | --- | --- |
| `ledger` | two Suites of one registry and one of an aliasing registry (other task and base, same public task), both arms, one practice task; and a second ledger with two registry versions, one of which practises what the other holds out | `HoldoutShownByOneSuite`, `TurnedAwayConsumesNothing`, `SomeReserverWins`, the refinement `GateSpec`, and `RelabelledStaysSpent` |
| `episodes` | three calls of the store, two contents, one Campaign and one Suite artifact; one child of each runner with two chunks; one Episode of three steps | `ReadsServed`, the refinement `RegisterSpec`, `EventuallyReadable`; `HealthyIsWhole`, `RunnersSettle`; `EpisodeTellsTruth` |
| `campaign` | one coordinator, two report commands | `ReportsAreClosed`, `ReportedIsReproducible`, `EndsMarked` |
| `suite` | one run, two report commands, three kinds of evidence | `ReportsAreClosed`, `DerivedFromEvidence`, `EnvelopeNamesCause`, `RebuildsFromEvidence`, `EndsWithVerdict` |
| `review` | two Capsule claims, two commands of any kind, one save; all arm results of a Suite of three tasks; four calls of the order service with a queue of two; the calibration of the sixteen checks with one fault, and of the boundary with one disturbed measurement | `TypeOK` of the Capsule; `UntouchedRecordsHold`, `PrintedRunsReplay`, `ReplayMeansCurrent`, `QualifiedStageEarned`; `KeepIsEarned`; `AnsweredIsKept`, `AuditTellsTheOrder`, the refinement `ObjectSpec`; `AdmittedIffTrue` |
| `authoring` | two runners with a session each and one evaluator; two confirm commands, three stamps, two claims with and without a dependency cycle | `AdmittedIsWhole`, `VerdictCountsEveryTry`; `ConfirmedPackValidates`, `HistoryIsKept` |
| `operations` | two installers and the owner on two roots; three passes over two cases of two repeats with two tries; requests of both templates on three claims, with and without dependencies, dormant and proposed claims and a withdrawal, over two behaviors, and two versions of the package; two calls of the author's tool and one confirm on one pack | `PredecessorOutlivesFailure`, `AllOrNothing`; `SummariesAgree`; `VerdictIsEarned`; `StagedIsConfirmable`, `WrittenPackValidates` |

Every process that leaves something on disk may die after every step. Runs end with all processes ended, so
deadlock is not checked.

Runs that are violated, each of one sentence of the repository's documents:

- `ledger_relabelled`: the phase 2 product plan says that evidence that was ever exposed cannot
  become a holdout again by relabelling. An exposure is recorded after the arm has run; an arm that is
  running, timed out or crashed has shown the task and left no record, and practice reserves nothing.
- `campaign_rebuild`: the phase 1 specification says that `report` rebuilds the reports from frozen
  evidence. It first requires `report.json` and `report.md` to exist, so that a process that died
  after freezing the evidence is answered with `measurement-invalid.json`.
- `suite_declined`: the phase 2 specification says that a declined or unqualified Suite must not get
  a measurement-invalid envelope. `suite report` writes one on every error of the rebuild.
- `capsule_qualified`: Weave's README says that calibration records bind the exact release.
  `calibrate` loads the Capsule, then builds the release it names from a second reading, then runs
  the Candidates as they are at that time; a save in between gives a qualified calibration of a release
  whose own Gold Candidate fails.
- `verdicts_normalised`: the phase 2 product plan says that a holdout Task whose treatment did not activate is
  normalised to valid only when both arms' outcomes passed. `effectiveTaskValidity` never looks at the outcomes.

### Bounds, and why they are enough

- *Processes*: three contenders in the ledger (two would not show a refusal whose winner is itself
  refused by an alias), three calls in the store (a writer, its rival and a reader), one coordinator
  with two report commands (they interfere with each other and with the run), two Capsule commands
  (every property is about one command disturbed by the author, by one other command, or by what an
  earlier one left), two runners of forward evidence (one reads what the other is writing), two
  confirms, two installers, three judge passes (a dead one and two that overlap). Each
  command runs once; what it leaves is on disk for the others.
- *Data*: two contents suffice to tell "same" from "other"; three evidence values per kind for
  overlap and disjointness; two claims so that confirmed, checked and satisfied can differ by claim.
- `MaxEdits` bounds the author's saves (Capsule). One save moves the directory between any two readings; with two saves
  (which the Capsule passes as well, in about four minutes) the author can also undo it. The edits of a package (Delivery)
  are not bounded: with two `Versions` one edit moves it, and the next undoes that.
- `MaxVersion` is the length of a predecessor chain, `MaxTries`, `MaxCuts` and `Repeats` the tries of a repeat,
  the cut-off sessions and the repeats of a case. The cohort script has three repeats; with two
  they can already disagree, be short by one, or come from two passes.
- `MaxOutput` and `MaxSent` are chunks: one below the limit and one over it. `MaxSteps` and `MaxRounds`
  allow an Episode with a Goal created, changed and ended, in any order the engine permits.
- `MaxCalls = 4` and `MaxQueue = 2`: an order of one of four drafts and three commands on it, of which two may wait at
  once, so that a death finds one call computed and another not begun; five calls were checked alone (2.3 million
  states). The commands repeat a request as it was, of a stranger, at another time and as another command; a request
  that has expired after 90 days is in the stories of the oracle and the boundary.
- `MaxFaults = 1`, `MaxDisturbed = 1`: admission is a conjunction over all measurements, so one wrong
  measurement must suffice to refuse. `Seed = 1` stands for the admission's seed.
- `MaxMade = 2`, `MaxPlanned = 1`, `MaxRevision = 3`: two calls of the tool and one confirm after every prefix of
  a usual session, so that every step of such a session is overlapped and followed by any two others; a third
  revision is one nobody has yet confirmed.
- `authoring` has one revision of the program, so that the evaluator's `cohort_mismatch` does not
  occur, and `MinimumRuns = 1`: a verdict needs one eligible run. `MaxTried = 1` of its two sessions makes
  attempts, the other ends without one. `MaxCuts = 1` of the tries of a judge is cut off. The theorems about both
  machines have neither bound.
- `review` walks the Tasks of a Suite in one order of their buckets (`trigger` first); `AdviceIsEarned` is proved
  for both orders.
- Three installers do not end within minutes; a partial search of seven million states found no violation.

### Fairness

In `episodes` a call of the store that has begun goes on (`WF(Progress(c))`): file-system calls
return. There too, signals reach the child, chunks in a pipe are read, the deadline and
the kill timer fire, and `close` comes when nobody holds the pipes: the operating system and the event
loop see to these. The child itself is never fair, nor is a helper. `campaign` and `suite` assume `WF` of
the coordinator or the run: arms, oracles and child processes have timeouts that kill them, and the
event loop runs what has settled. Crashes and report commands are never fair. The Suite waits
for its operator by a step that is one of `Run`; the only liveness property there starts after that
step. The others have no liveness property: a refused Suite, a refused confirm or a failed
installation is a legitimate end, and an interrupted cohort waits for its operator.

## 4. Proofs

| Module | Theorems | Argument |
| --- | --- | --- |
| `ExposureLedger_proofs` | `TypeCorrect`, `HoldoutSafety`, `RecordsOwned`, `NothingConsumed`, `SomebodyWins`, `RecordedIsSpent`, `Refinement` | see below |
| `Episodes_proofs` | of the store: `TypeCorrect`, `OnlyWholeFiles`, `NeverReplaced`, `PointersServed`, `StoreIsRegister`; of the runners: `CarrierTyped`, `HealthyRunsAreWhole`; of the Episode: `EpisodeTyped`, `EvaluationsTellTruth` | see below |
| `Campaign_proofs` | `TypeCorrect`, `ReportsClosed`, `FrozenBeforeOracle`, `PhasesFollow`, `Reproducible` | see below |
| `Suite_proofs` | `TypeCorrect`, `DerivedIsGrounded`, `ReportsClosed`, `FrozenBeforeMeasured`, `Rebuilds`, `EnvelopeTellsCause` | see below |
| `Authoring_proofs` | of forward evidence: `ForwardTyped`, `ForwardAdmitted`, `VerdictCounts`; of the authority: `AuthorityTyped`, `ConfirmedIsFounded`, `AuthorityKeepsHistory`, `ConfirmedValidates` | see below |
| `Operations_proofs` | of the judges: `JudgesTyped`, `JudgesAgree`; of deliveries: `DeliveryTyped`, `DeliveriesAreEarned`; of profiles: `ProfilesTyped`, `PredecessorsSurvive`, `InstallsAreWhole`; of the author's pack: `PackStaysSound`, `StagedStaysConfirmable`, `WrittenStaysValid` | see below |
| `Order_proofs` | `AnswersAreKept`, `ServiceIsObject`, `TrailTellsTheOrder` | see below |
| `Review_proofs` | of the Capsule: `CapsuleTyped`, `RecordsTellTheirRelease`, `PrintedRefsReplay`, `ReplaysCompareTheDirectory`, `StagesAreEarned`; of the verdicts: `VerdictsTyped`, `AdviceIsEarned` | see below |

All are for every value of the constants: any number of Suites, evidence values, calls, contents,
report commands, evidence runs, claims, confirms, judge passes, cases, repeats, delivery requirements and claims, installations, chunks of
output, steps of a Session and rounds of a Goal, orders, calls of the author's tool, Capsule commands and saves. Each property is implied by an inductive invariant (`IInv`, or one named after its
machine where a module has proofs of several); the property by itself is not inductive.

*Ledger.* `HoldoutShownByOneSuite` needs to know that whoever is past linking owns all three files.
`LinkedPrefix` (a Suite owns the first `link - 1` of its files) and `LinkedOnly` (and no other
file is its own) are maintained because a file, once linked, never changes. `LinkMatchesLabel` ties
the label to the number of links, `SeenByHolders` carries it to the history, and two Suites
that share a piece of evidence would have to own the same file. `RefusedByAnother` says that a refused
Suite met a file of another; following "refused by" from file to file must rise in the order of the
files, so that after at most three steps there is an owner (`SomebodyWins`). `Refinement`
assumes `BucketsDisjoint`: no holdout evidence is practised by any Suite. The
registry loader does not compare digests across registries, so this is a hypothesis on the registries in use;
`ledger_relabelled` is what happens without it.
What holds without any such hypothesis is `RecordedIsSpent`: a run that starts when evidence of its holdout is
on record is turned away at its first listing, or cannot list, or dies (`Spent`). `RelabelledStaysSpent`, which the `ledger`
run checks, is this theorem for one pair of registry versions.

*Store.* `TempWhole`, `LinkerKnown` and `LinkerPlace` say whose temporary file is the second link
of an artifact and where that call is; `LinkedByCaller` and `InspectedReadable` carry what a step has
seen to the next one, which is sound because bytes under a name never change (`SameBytes`).
`PointersReadable`, that a returned pointer stays readable, is the invariant that makes `ReadsServed` go
through: a second link can only be made under a name that does not exist yet. The same invariant maps every step to
`WriteOnce` (`StepOfRegister`): the link sets the register because the temporary is whole by then (`TempWhole`), a pointer is returned of what
the name holds (`LinkedByCaller`, `SameBytes`), a reader that passed the inspection finds a file, and one that did not has no returned pointer
(`PointersReadable`); everything else, a death too, is a stutter (`RegisterStutters`).

*Campaign and Suite.* `IInv` ties the place in the script to what must be durable by then
(`WrittenSettled`, `PhaseOfStep` for the campaign; `PastStepsAchieved` for both processes of the
Suite), and the writes in flight to the step that issued them (`WritingStep`, `WritesOfStep`,
`InFlightFromEvidence`): after a failure they may still land, and this says which can. Settled files
stay settled, which gives the theorems about report commands. `Suite_proofs` shows `Rebuilds` by the
observation that a report command over complete, sound evidence has no step that fails.
`EnvelopeTellsCause` needs to know whose envelope it is: as long as no report command has declared one
(`EnvelopeOfRun`), an envelope is that of the run, whose catch block reads `stage` at the step that failed; nothing
moves `stage` between the failure and the reading (`CauseComesLast`).

*Forward evidence.* `AdmittedIsWhole` needs the order of a runner: it completes a run only after its session
has ended, so the attempts are frozen when the receipt is written over their snapshot (`Closed`), the
receipt is the last file (`Ordered`), and an admitted one was written without a reason (`Prepared`).
`VerdictCounts` is about a reader whose pass takes long: the runs it has counted are closed, hence will not change,
so its running account equals what the directory says at the end. `Runs` must be finite, because the
verdict counts them.

*Authority.* `Founded` is the strengthening: everything the ledger has confirmed had its closure confirmed before, and
since the ledger only grows (and an event that was not completely written is not counted) this stays so. From it, one
shows that along predecessors no claim is lost or revived within any closed set of confirmed contracts
(`AuthorityKeepsHistory`), and that validation of a pack with everything in place meets no missing or
unconfirmed file and no cycle (`ConfirmedValidates`). The dependency relations are assumed to have no
loops of one claim, which the schema refuses.

*Judges.* A pass writes into runs without an outcome only (`Untouched`), so what an aggregate has
counted never changes (`Counting`); an aggregate that is on disk is the merge of complete repeats of one pass
(`Sound`), and a summary reports what is on disk (`OnDisk`). Two passes that overlap can
write only one aggregate of a case, the other takes it.

*Runners.* `HealthyIsWhole` compares what was captured with what was written, chunk by chunk of any length.
`Accounted` says that the runner's sums and the chunks still in the pipe add up to what the child has written, by a
function that gives the partial sums of the pipe's chunks (`Adds`), so that taking the first chunk shifts it by one.
`StoppedForReason` says what a SIGTERM stands for: the limit, the deadline, or a Session that is flushed; `ClosedAfterAll`
that a result comes when the child has gone and its pipes are empty.

*Episode.* `EpisodeInv` says that the log of a process that was not cut tells the engine's account (`LogTells`): its
fold is the engine's Goal with all ids and rounds there have been, its counts and its last claim are the engine's, and no prompt is
shown that the Episode's oddity does not allow. What an event adds to each figure is `EventEnters`. For the fold this takes an induction over the places
of a log: a function that has been folded so far can be folded one event further (`FoldExists`), two such functions
agree (`FoldUnique`), so the recursion has a value and an appended event moves it by one (`FoldGrows`). A step writes its
events in up to seven parts; each part is followed through the figures (`OpeningTells`, `CallingTells`, `OptionTells`,
together `StepTells`), where `RoundFolds` and `ChangeFolds` show that the fold accepts the rounds and changes the engine may make, for which the
account must be sound itself (`EngineSound`: a Goal that is there was counted, its rounds are among the most there were, and only a treatment's surface makes any).
A cut step ends this, and nothing is needed of its log: the ending is then not "clean", which every clause of
`EpisodeTellsTruth` but the one about the verified outcome demands, and that one rests on the vector of what is frozen (`StagesFollow`).

*Deliveries.* `Reached`, what the claims of a package depend on, is the least closed set (`ReachedLeast`): the compiler
finds it by levels, and a set that is closed contains every level, by induction over the naturals. The invariant says at
each place of the script what has been earned by then (`PlacesEarned`): past the compiler the package compiled, past
admission it was calibrated, past the campaign that was reported. `ReportEarned` says that a report is the verdict of such a delivery, bound to what was
prepared; it is the last thing that is written, so nothing moves it. `RanWhatWasGraded` adds what was read on the way: only the graded version,
as long as the package has not been edited. More is not so, since equal digests do not tell of an edit after the second one, or of one that was undone
before it.

*Profiles.* `PredecessorsSurvive` follows every rename: whatever lies at a root or in a backup of a role and is renamed
comes to lie at the root or in a backup again, except when it goes to a stage, is taken out of a claimed root, or is
swept. What an installation that is alone moves this way it has made itself: its stages, the root it is claiming and
the roots it has committed are of the release it installs (`OwnIsNew`), hence no predecessor. `AloneIsAlone` says that nobody else
is under way then, and `InOrder` which roots are committed at which place of the script. Stages go with every sweep, backups
with that of a success only. The owner's hand, which the property excuses, keeps the invariant: it changes bytes, not releases, and what
it makes carries this release's name with strange bytes.

`InstallsAreWhole` looks at what is at the paths, and not only at its release. `Shape` says, role by role, what an
installation that is alone finds at the root, the stage and the backup, from where it stands with the role (`Phase`). Before
a role is activated its root is what was captured, while it is claimed the root is the new directory with exactly the
parts that were moved, once it is committed the root is the new release and the backup what was captured, and after it was taken back the
root is what was captured again. Every root may be strange instead, since the owner may touch one at any moment: a strange root
stays so, is renamed away with what the owner put there, or stops a rename onto it. `Course` says what an installation knows of itself, alone or
not: that the phases come in the order of the script, that what was captured was accepted, and that all that was to be replaced is committed when it
verifies. Two more facts complete the inductive invariant `InstallInv`: a path holds one directory at most (`Single`), and an
installation that has not begun has no backup. A step has to keep the shape of its own role and spare the paths of the other; `Turning`, `CommitProceeds`,
`AbortProceeds` and `UndoneProceeds` do this once for the four ways in which a step leaves a role. It assumes that a marker which is still being written
is told from one that is absent or whole (`MarkersAssumption`).

*Pack.* `PackInv` says of every file in the pack, of every file that a call of the tool is placing and of the one that the
confirm command is placing that it is `Filed`: its path tells what it is, and what it names is there and whole (`Grounded`), drafts only as
predecessors. It also says that what only an owner can say is in the ledger (`Backed`) if it is in the pack at its own path,
since the command records its event before it creates the file. Each step of both programs only adds whole files and events
(`Extends`), or leaves a torn one, which nothing accepts; so what was grounded and backed stays so, under every call that is
open meanwhile. That a staged candidate can be confirmed is then a fact about one file: the checks of the command are those
of the tool, except that a confirmed card is parsed by stricter rules than the proposed one was, so nothing is said of the parse of a card without
an authority beyond domain knowledge, and nothing at all while the source has a second link. That a written pack validates is a fact about all predecessors
of a file, by induction over their levels (`PastExists`, `PastIs`); one that goes back to a snapshot under `sources/` is excepted
(`FromDocument`), since the tool takes such a predecessor and the validator does not.

*Order service.* The head of the queue computes its outcome from a memory that equals the file (`OrderInv`), the file
takes it in before the client is told, and one thread of calls means that memory is that of the file when the next head
begins. An operation only grows a store (`Grows`): requests that were recorded keep their fingerprint and result, an order stays,
its version does not go back, and a settled refund stays settled. So what a client was told stays in the file (`Kept`), and a request that is
accepted twice is answered from the record (`Good`, shown for each operation). `AnswersAreKept` assumes `OrdersAreNew`: clients create orders of the
declared type that nothing was withdrawn from or refunded of, and call methods the service has. `review` evaluates that for its drafts
and commands.

`ServiceIsObject` follows from `OrderInv` alone, step by step. As long as the file has not been renamed nobody is owed an answer and the
memory is the file (`OwedFacts`), so the outcome the head has computed is that of applying it to the object (`PersistOfObject`), a call whose
write fails has done nothing (`FailureOfObject`), and what is delivered is what was owed (`DeliveryOfObject`). Computing an outcome that changes
something, and opening the file, are stutters.

`TrailTellsTheOrder` reads the audit trail by places: where in it an event of an order and a type stands. An operation
adds a few facts of one order at the end, all with the command's time (`Appends`), so what had happened is what happened before
or is among the new facts (`AfterFacts`), the events of other orders stay where they are (`Elsewhere`), and the versions go on from the
order's own (`VersionsGo`). `TellsOf` strengthens what the property says of a draft and its order by what is still to come:
what the order keeps of its draft, and that a withdrawal or refund that is pending was requested and has not ended (`Descends`). Every operation keeps it
(`CancelTells`, `WithdrawalTells`, `RefundedTells`, `CreateTells`), for the order it is about by the facts it adds and for the
others because it adds nothing of theirs; the store it leaves can be opened (`Sound`). The head of the queue carries this from memory to the file.
It assumes, besides `OrdersAreNew`, that a new order is not cancelled yet and its coupon not given back (`OrdersAreOpen`).

*Capsule.* A command holds values it has read from the directory at different times. `Mirrors` says that they
are what the directory has now, unless it was touched under the command (history variable `touched`); each reading
extends it, each foreign write ends it. From it, the record that an untouched command writes says what is so of the
release it names (`RecordsHold`), and since records are stored under their content, nothing that comes later changes
them (`UntouchedRecordsHold`, which is also inductive by itself). `ReleasedFirst`: a run names a release whose files
were written before its own, hence a printed reference resolves (`PrintedRunsReplay`). Two properties of a single
step, `ReplayMeansCurrent` and `QualifiedStageEarned`, follow from `Mirrors` too.

*Verdicts.* The invariant is about the walk over the Tasks: each bucket occurs once (`InOrder`), and each summary
that is carried forward says of its Task what its arms were (`Telling`). The Suite's advice is then a fact about three
summaries, by cases of the recommendation.

Assumptions used are the `ASSUME`s of the modules, which type the parameters and keep sentinels apart from the sets they
mark, `BucketsDisjoint` where named, and `OrdersAreNew` and `OrdersAreOpen` of the order service.

Checked by TLC only: all liveness (`EventuallyReadable`, `EndsMarked`, `EndsWithVerdict`,
`RunnersSettle`), because `ENABLED` and fairness are outside what the provers do; and the
agreement of oracle, boundary and table (`AdmittedIffTrue`). That one is about data: the sixteen stories, the scenarios and the
frozen table have no parameter to prove it for, and TLC evaluates it over all of them. Induction is possible
where the induction set can be named as a set of naturals (`SetInduction` in `Operations_proofs`, `NumberInduction` in `Episodes_proofs`,
from the well-foundedness of `<`); the library's theorems that take an operator are not. Proved without a run of their own, because they
are inductive by themselves or nearly so: the type invariants of the proof modules (of the verdicts also), `RecordsOwned`,
`PhasesFollow`, `Founded`, and that arms are frozen before they are judged (`FrozenBeforeOracle`,
`FrozenBeforeMeasured`).

## 5. What is not modelled

- Contents. Digests are taken to be injective; a schema, a parser or a formatter is modelled by whether
  it accepts. Which text the secret scan flags is not modelled, only that a flagged report is not published.
- A failing disk. A file-system call fails where the code makes it fail (a file that exists, that
  does not, or that has the wrong shape); out-of-space and permission errors of the report commands are not
  modelled, the coordinator's own failures are (`FailSuite`, `RefuseArtifact`, `FailCampaign`).
- The inside of agents, judges and sandboxes: a step with its outcomes.
- The components that `PROJECT.json` lists as not modelled: schemas, hashing and archives, command-line
  parsing, the secret scan, helpers and data.

Noted while reading, without a run of their own:

- `ExposureLedger.list` rejects a directory with a temporary file in it, so a crash in
  `recordExposure` makes every later Suite end with an error until the file is removed by hand.
- The phase 1 specification says that an unfinished campaign is marked `interrupted` after its
  process died; `recoverAfterCrash` has no caller outside a unit test. A campaign whose failure
  falls between `state.initialize` and "qualified" keeps its initial phase: the catch does not cover it.
- The JSON and the Markdown of a Suite's envelope may carry different reasons when the run and a
  report command declare it at the same time; and a Suite may end with both a report and an
  envelope. A temporary file left in `tasks/<id>` makes a Suite unreportable.
- A Capsule record whose writer died is empty, ends every later identical command with a collision,
  and an empty calibration makes `doctor` fail. Two confirmations that overlap lose one of them.
- An attempt directory without its intent makes every read of the whole evidence root fail.
- A crash between `mkdir` of a profile root and its marker makes every later installation refuse (the phase 3A
  specification wants it to fail closed); so does one between the commits of the two roles with an accepted
  predecessor. A crash between the rename to the backup and the rename of the stage leaves `cordis.yml` in a
  backup nobody looks for. Two live installers of a missing root can mix their entries, which are moved by path.
- A judge run directory without a receipt stops every resume after one that has finished its case;
  valid repeats of an interrupted case are judged again; overlapping resumes remove each other's workspaces.
- A delivery requirement without a claim on one axis is refused by the report only, after both
  arms have run; the campaign is marked reported before the delivery report is written.
- SIGKILL reaches the child alone: a helper that holds the pipes keeps the result from ever
  coming (except in the Linux sandbox, which takes helpers along). The strict runner's output limit relies on the
  deadline when SIGTERM is ignored.
- A death of the author's session between the link and the unlink leaves a file with two links. The tool answers
  ok when the same write is asked again, but `verifyDomainSourceRef` and the validator (`src/domain/pack.ts:122`)
  refuse a source with two links for ever.
- The author's tool may write a file at the path and revision that a planned confirmation needs; the event is then
  recorded, and its artifact can never be placed.
- The validator does not check an interview's `base_contract`, and `assertPredecessor` not that the
  predecessor's ref is the canonical one: an artifact's JSON that was snapshotted under `sources/` may be named as the predecessor
  of a card, question or interview, which the tool places and `readPredecessorChain` (`src/domain/pack.ts:276-281`) refuses for ever.
- A card without authorities, or with domain knowledge as its only one, can be proposed and staged; `confirm` refuses it,
  since a confirmed card has to name a product authority (`src/domain/contracts.ts:179-195`), and the author learns of it from the operator.
- A delivery takes the digests of its package twice and reads parts of it again after that, without a digest: the base after the
  owner's confirmation (`src/commerce/real-campaign.ts:153-156`), the patches at each arm (172-173), the oracle runner at each
  evaluation (`src/oracle/commerce-order.ts:47`). An edit then, or one that is undone between the two digests, leaves the binding of grader and
  campaign intact: the arms may run on a package that was never calibrated.
- `markRefunded` of the Gold order service takes request, causation and time of the order's last audit event, which may
  be a rejected command of another customer.
- The behaviour timeout inside version 2's oracle process is reported as "fail", that of version 3 as an error.
- `buildObservationBoundaryAdmission` demands that every result has the admission's seed, so the `gold-next-seed`
  case of `PHASE3C_OBSERVATION_CALIBRATION` cannot be part of an admission; only tests call it.
- A Session log that ends between two turns leaves the mechanism dimension valid; only the way the
  process ended invalidates the rest.

## 6. Plan

Done: all modules of section 2, each model-checked; proofs for `ExposureLedger` with `HoldoutGate`, `ArtifactStore`,
`CarrierProcess`, `Campaign`, `Suite`, `ForwardEvidence`, `DomainAuthority`, `JudgeCohort`, `Delivery`, `ProfileInstall`, `AuthorPack`, `Capsule`,
`Verdicts`, `OrderService` and `Episode`. Left, in this order:

| Module | Models | Properties or theorems |
| --- | --- | --- |
| extension of `Delivery` | ledger deliveries, as a second catalog | `VerdictIsEarned` |
| extension of `JudgeCohort` | judge admission of phase 3C, harness projection | admission over calibrated judges |

Abstract specifications worth stating: a two-outcome Suite (report or envelope) that `Suite` implements where no report command
overtakes it; an atomic profile switch for `ProfileInstall`. Those of the ledger, the artifact stores and the order service are
stated and proved (`HoldoutGate`, `WriteOnce`, `DurableObject`).
