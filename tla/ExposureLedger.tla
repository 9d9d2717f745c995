--------------------------- MODULE ExposureLedger ---------------------------
(***************************************************************************)
(* The exposure ledger (src/exposure/ledger.ts) as concurrent Suite runs   *)
(* use it.  Every Suite run is one process; the file system is shared.     *)
(*                                                                         *)
(* A holdout has three pieces of evidence, its task id, public-task digest *)
(* and effective-base digest, and each is claimed by hard-linking one      *)
(* reservation file, in that order.  A model exposure is recorded by       *)
(* writing a temporary file next to the records and linking it to its      *)
(* final name.  Links are atomic; the steps between them are not.          *)
(***************************************************************************)
EXTENDS Naturals, FiniteSets

CONSTANTS
  Suites,      (* Suite runs; a run draws a fresh suite id, so it is never *)
               (* started twice.                                           *)
  NoSuite,     (* The content of a reservation file that does not exist.   *)
  Evidence,    (* Task ids and digests.                                    *)
  Arms,        (* The arms of a paired campaign: control and treatment.    *)
  Holdout,     (* Holdout[s]: the holdout identity of the binding of s.    *)
  Practice     (* Practice[s]: its trigger and non-trigger identities.     *)

(***************************************************************************)
(* The three reservation files of an identity, in the order in which       *)
(* reservationPaths lists them: 1 task, 2 public, 3 base.                  *)
(***************************************************************************)
Slot == 1..3

Identity == [Slot -> Evidence]

Path == Slot \X Evidence

ASSUME LedgerAssumption ==
  /\ NoSuite \notin Suites
  /\ Holdout \in [Suites -> Identity]
  /\ Practice \in [Suites -> SUBSET Identity]
  /\ \A s \in Suites : Holdout[s] \notin Practice[s]

VARIABLES
  pc,        (* Where each Suite run is.                                   *)
  link,      (* The next reservation file a Suite links; 4 when all are.   *)
  todo,      (* Episodes a Suite has still to start.                       *)
  current,   (* Episodes started and not yet recorded: at most one each.   *)
  reserved,  (* Reservation files: the Suite whose bytes are in the file.  *)
  temps,     (* Temporary files in the exposures directory.                *)
  records,   (* Exposure records under their final names.                  *)
  seen       (* History: the episodes a model was really shown.            *)

vars == <<pc, link, todo, current, reserved, temps, records, seen>>

-----------------------------------------------------------------------------
Overlap(a, b) == \E k \in Slot : a[k] = b[k]

EpisodesOf(s) ==
  [suite : {s}, task : Practice[s], bucket : {"practice"}, arm : Arms]
    \cup [suite : {s}, task : {Holdout[s]}, bucket : {"holdout"}, arm : Arms]

Episode == UNION {EpisodesOf(s) : s \in Suites}

PathOf(s, k) == <<k, Holdout[s][k]>>

Owns(s) == \A k \in Slot : reserved[PathOf(s, k)] = s

(***************************************************************************)
(* executePlannedSuite runs its tasks one at a time, both arms of a task   *)
(* before the next task, and the holdout task last.                        *)
(***************************************************************************)
HalfRun(s) ==
  {t \in Practice[s] \cup {Holdout[s]} :
     /\ \E e \in todo[s] : e.task = t
     /\ \E e \in EpisodesOf(s) \ todo[s] : e.task = t}

Startable(s) ==
  {e \in todo[s] :
     /\ HalfRun(s) # {} => e.task \in HalfRun(s)
     /\ e.bucket = "holdout" => \A f \in todo[s] : f.bucket = "holdout"}

(***************************************************************************)
(* list() reads the whole directory: it throws on a name that does not end *)
(* in .json, and every temporary file is such a name.                      *)
(***************************************************************************)
Listable == temps = {}

RecordedExposure(s) == \E r \in records : Overlap(r.task, Holdout[s])

Goto(s, label) == pc' = [pc EXCEPT ![s] = label]

-----------------------------------------------------------------------------
(***************************************************************************)
(* Plausible regressions of the definitions below, used to show that the   *)
(* properties can fail; nothing else refers to them.                       *)
(***************************************************************************)

(* The freshness check only looks at records of the holdout bucket. *)
BadUnexposedSameBucket(s, from, to) ==
  /\ pc[s] = from
  /\ \/ Listable /\ ~(\E r \in records : r.bucket = "holdout" /\ Overlap(r.task, Holdout[s]))
        /\ Goto(s, to)
     \/ ~Listable /\ Goto(s, "unlistable")
  /\ UNCHANGED <<link, todo, current, reserved, temps, records, seen>>

(* rename() in place of link(): an existing reservation is replaced. *)
BadLinkOverwrites(s) ==
  /\ pc[s] = "linking"
  /\ reserved' = [reserved EXCEPT ![PathOf(s, link[s])] = s]
  /\ link' = [link EXCEPT ![s] = @ + 1]
  /\ Goto(s, IF link[s] = 3 THEN "ready" ELSE "linking")
  /\ UNCHANGED <<todo, current, temps, records, seen>>

(* The holdout is reserved before the operator is asked. *)
BadLinkThenConfirm(s) ==
  /\ pc[s] = "linking"
  /\ reserved[PathOf(s, link[s])] \in {NoSuite, s}
  /\ reserved' = [reserved EXCEPT ![PathOf(s, link[s])] = s]
  /\ link' = [link EXCEPT ![s] = @ + 1]
  /\ Goto(s, IF link[s] = 3 THEN "confirming" ELSE "linking")
  /\ UNCHANGED <<todo, current, temps, records, seen>>

(* The run goes on before the base digest is reserved. *)
BadLinkTwoSuffice(s) ==
  /\ pc[s] = "linking"
  /\ reserved[PathOf(s, link[s])] \in {NoSuite, s}
  /\ reserved' = [reserved EXCEPT ![PathOf(s, link[s])] = s]
  /\ link' = [link EXCEPT ![s] = @ + 1]
  /\ Goto(s, IF link[s] = 2 THEN "ready" ELSE "linking")
  /\ UNCHANGED <<todo, current, temps, records, seen>>

(* A refused reservation removes its three paths, whoever linked them. *)
BadRefuseCleansUp(s) ==
  /\ pc[s] = "linking"
  /\ reserved[PathOf(s, link[s])] \notin {NoSuite, s}
  /\ reserved' = [p \in Path |-> IF \E k \in Slot : p = PathOf(s, k)
                                   THEN NoSuite ELSE reserved[p]]
  /\ Goto(s, "refused")
  /\ UNCHANGED <<link, todo, current, temps, records, seen>>

(* A failed run gives its holdout back. *)
BadFailReleases(s) ==
  /\ pc[s] \in {"ready", "measuring"}
  /\ reserved' = [p \in Path |-> IF reserved[p] = s THEN NoSuite ELSE reserved[p]]
  /\ Goto(s, "failed")
  /\ UNCHANGED <<link, todo, current, temps, records, seen>>

-----------------------------------------------------------------------------
Init ==
  /\ pc = [s \in Suites |-> "start"]
  /\ link = [s \in Suites |-> 1]
  /\ todo = [s \in Suites |-> EpisodesOf(s)]
  /\ current = [s \in Suites |-> {}]
  /\ reserved = [p \in Path |-> NoSuite]
  /\ temps = {}
  /\ records = {}
  /\ seen = {}

(***************************************************************************)
(* assertHoldoutUnexposed, called when the run starts and again inside     *)
(* reserveHoldout.  The listing is stale as soon as it has been taken.     *)
(***************************************************************************)
Unexposed(s, from, to) ==
  /\ pc[s] = from
  /\ \/ Listable /\ ~RecordedExposure(s) /\ Goto(s, to)
     \/ Listable /\ RecordedExposure(s) /\ Goto(s, "exposed")
     \/ ~Listable /\ Goto(s, "unlistable")
  /\ UNCHANGED <<link, todo, current, reserved, temps, records, seen>>

Preflight(s) == Unexposed(s, "start", "confirming")

(***************************************************************************)
(* The operator confirms and the carrier qualifies, or the run ends.       *)
(***************************************************************************)
Confirm(s) ==
  /\ pc[s] = "confirming"
  /\ Goto(s, "reserving") \/ Goto(s, "declined")
  /\ UNCHANGED <<link, todo, current, reserved, temps, records, seen>>

CheckFreshness(s) == Unexposed(s, "reserving", "linking")

(***************************************************************************)
(* One link() of reserveHoldout.  An existing file with the same bytes is  *)
(* accepted, one with other bytes ends the reservation; the files linked   *)
(* before it stay.                                                         *)
(***************************************************************************)
LinkReservation(s) ==
  /\ pc[s] = "linking"
  /\ reserved[PathOf(s, link[s])] \in {NoSuite, s}
  /\ reserved' = [reserved EXCEPT ![PathOf(s, link[s])] = s]
  /\ link' = [link EXCEPT ![s] = @ + 1]
  /\ Goto(s, IF link[s] = 3 THEN "ready" ELSE "linking")
  /\ UNCHANGED <<todo, current, temps, records, seen>>

RefuseReservation(s) ==
  /\ pc[s] = "linking"
  /\ reserved[PathOf(s, link[s])] \notin {NoSuite, s}
  /\ Goto(s, "refused")
  /\ UNCHANGED <<link, todo, current, reserved, temps, records, seen>>

(***************************************************************************)
(* An arm starts: from here on a model has seen the task, whatever happens *)
(* to the arm.                                                             *)
(***************************************************************************)
StartEpisode(s, e) ==
  /\ pc[s] = "ready"
  /\ e \in Startable(s)
  /\ todo' = [todo EXCEPT ![s] = @ \ {e}]
  /\ current' = [current EXCEPT ![s] = {e}]
  /\ seen' = seen \cup {e}
  /\ Goto(s, "measuring")
  /\ UNCHANGED <<link, reserved, temps, records>>

(***************************************************************************)
(* A timeout, an output limit, a failed freeze, oracle or derived artifact *)
(* ends the Suite run.                                                     *)
(***************************************************************************)
FailSuite(s) ==
  /\ pc[s] \in {"ready", "measuring"}
  /\ Goto(s, "failed")
  /\ UNCHANGED <<link, todo, current, reserved, temps, records, seen>>

(***************************************************************************)
(* write(): a holdout exposure needs the three reservation files of this   *)
(* Suite, then the bytes go to a temporary file in the same directory.     *)
(***************************************************************************)
ReservationHeld(s, e) == e.bucket = "holdout" => Owns(s)

WriteTemporary(s) ==
  /\ pc[s] = "measuring"
  /\ \A e \in current[s] : ReservationHeld(s, e)
  /\ temps' = temps \cup current[s]
  /\ Goto(s, "publishing")
  /\ UNCHANGED <<link, todo, current, reserved, records, seen>>

LinkRecord(s) ==
  /\ pc[s] = "publishing"
  /\ records' = records \cup current[s]
  /\ Goto(s, "cleaning")
  /\ UNCHANGED <<link, todo, current, reserved, temps, seen>>

RemoveTemporary(s) ==
  /\ pc[s] = "cleaning"
  /\ temps' = temps \ current[s]
  /\ current' = [current EXCEPT ![s] = {}]
  /\ Goto(s, "ready")
  /\ UNCHANGED <<link, todo, reserved, records, seen>>

FinishSuite(s) ==
  /\ pc[s] = "ready"
  /\ todo[s] = {}
  /\ Goto(s, "done")
  /\ UNCHANGED <<link, todo, current, reserved, temps, records, seen>>

Ended ==
  {"done", "failed", "declined", "exposed", "unlistable", "refused", "crashed"}

(***************************************************************************)
(* The process dies: its files stay as they are.                           *)
(***************************************************************************)
Crash(s) ==
  /\ pc[s] \notin Ended
  /\ Goto(s, "crashed")
  /\ UNCHANGED <<link, todo, current, reserved, temps, records, seen>>

Step(s) ==
  \/ Preflight(s)
  \/ Confirm(s)
  \/ CheckFreshness(s)
  \/ LinkReservation(s)
  \/ RefuseReservation(s)
  \/ \E e \in EpisodesOf(s) : StartEpisode(s, e)
  \/ FailSuite(s)
  \/ WriteTemporary(s)
  \/ LinkRecord(s)
  \/ RemoveTemporary(s)
  \/ FinishSuite(s)
  \/ Crash(s)

Next == \E s \in Suites : Step(s)

Spec == Init /\ [][Next]_vars

-----------------------------------------------------------------------------
Labels ==
  Ended \cup {"start", "confirming", "reserving", "linking", "ready",
              "measuring", "publishing", "cleaning"}

(***************************************************************************)
(* Type invariant of the ledger and of its clients.                        *)
(***************************************************************************)
TypeOK ==
  /\ pc \in [Suites -> Labels]
  /\ link \in [Suites -> 1..4]
  /\ todo \in [Suites -> SUBSET Episode]
  /\ current \in [Suites -> SUBSET Episode]
  /\ reserved \in [Path -> Suites \cup {NoSuite}]
  /\ temps \subseteq Episode
  /\ records \subseteq Episode
  /\ seen \subseteq Episode

(***************************************************************************)
(* No piece of holdout evidence is practised by any Suite.  The registry   *)
(* loader does not compare the digests of two tasks, let alone of two      *)
(* registry versions, so this is a hypothesis on the registries in use.    *)
(***************************************************************************)
BucketsDisjoint ==
  \A s, t \in Suites : \A i \in Practice[t] : ~Overlap(i, Holdout[s])

(***************************************************************************)
(* Holdouts that share evidence are only ever shown to models by one       *)
(* Suite: the point of reserveHoldout's three links, whatever the          *)
(* interleaving, aliasing and crashes.                                     *)
(***************************************************************************)
HoldoutShownByOneSuite ==
  \A e, f \in seen :
    /\ e.bucket = "holdout" /\ f.bucket = "holdout"
    /\ Overlap(e.task, f.task)
    => e.suite = f.suite

(***************************************************************************)
(* A recorded holdout exposure stays covered by all three reservations of  *)
(* its Suite, so a lost or partial reservation can never make the evidence *)
(* look fresh while its record is being listed (#assertHoldoutReservation).*)
(***************************************************************************)
HoldoutRecordsOwned ==
  \A r \in records : r.bucket = "holdout" => Owns(r.suite)

(***************************************************************************)
(* A run that the operator declined, whose qualification failed or that    *)
(* the freshness check turned away has consumed no evidence: it owns no    *)
(* reservation file, not even one of the three.                            *)
(***************************************************************************)
TurnedAway == {"declined", "exposed", "unlistable"}

TurnedAwayConsumesNothing ==
  \A s \in Suites :
    pc[s] \in TurnedAway => \A p \in Path : reserved[p] # s

(***************************************************************************)
(* Suites that refuse one another never destroy a holdout between them:    *)
(* when one was refused, some Suite owns its whole identity, is still      *)
(* linking, or died while linking.  Linking the three files in one global  *)
(* order of kinds is what makes this true for overlapping aliases.         *)
(***************************************************************************)
SomeReserverWins ==
  (\E s \in Suites : pc[s] = "refused")
    => \E s \in Suites :
         \/ Owns(s)
         \/ pc[s] \in {"linking", "crashed"} /\ link[s] > 1

(***************************************************************************)
(* Evidence with an exposure record when a run starts is never shown to a  *)
(* model as that run's holdout, under whatever bucket and by whatever      *)
(* Suite it was exposed before (assertHoldoutUnexposed).                   *)
(***************************************************************************)
HoldoutShown(s) == \E e \in seen : e.suite = s /\ e.bucket = "holdout"

RecordedEvidenceStaysSpent ==
  \A s \in Suites :
    [](pc[s] = "start" /\ RecordedExposure(s) => []~HoldoutShown(s))

(***************************************************************************)
(* No holdout is shown to a model when an earlier episode of another Suite *)
(* has already been shown any of its evidence: the product plan's "any one *)
(* that was ever exposed cannot become a holdout again by renaming,        *)
(* relabelling or aliasing".                                               *)
(***************************************************************************)
NoRelabelledHoldout ==
  [][\A e \in seen' \ seen :
       e.bucket = "holdout" =>
         \A f \in seen : Overlap(f.task, e.task) => f.suite = e.suite]_vars

-----------------------------------------------------------------------------
(***************************************************************************)
(* The ledger implements the one-step gate: a Suite holds its holdout once *)
(* all three files are its own.                                            *)
(***************************************************************************)
Gate == INSTANCE HoldoutGate WITH granted <- {s \in Suites : Owns(s)}

GateSpec == Gate!Spec

=============================================================================
