---------------------------- MODULE ProfileInstall ----------------------------
(***************************************************************************)
(* Installation of the runner and the author profile as one set            *)
(* (src/runtime-profile/init.ts, installPhase3ProfilesAtomically).  Both   *)
(* replacements are staged beside the live roots and checked; an existing  *)
(* root is then exchanged by two renames, with a comparison of what was    *)
(* renamed away, and a missing root is claimed by an exclusive mkdir, a    *)
(* marker and a move of the staged entries, package.json last.  A failure  *)
(* takes the committed roots back, in reverse.                             *)
(*                                                                         *)
(* File operations go by path: whoever renames a root takes what others    *)
(* have put there.  Several installations may be under way, each of them   *)
(* can die at any step, and the owner may touch a root.                    *)
(***************************************************************************)
EXTENDS Naturals, FiniteSets

CONSTANTS
  Installers,  \* runs of the init command, each by one process
  Nobody       \* not an installer

(* Whoever is still writing a marker is told from one that is not there    *)
(* and from one that is whole.                                             *)
ASSUME MarkersAssumption == {"none", "whole"} \cap Installers = {}

VARIABLES
  dir,        \* what is at each path: at most one directory
  installer,  \* where each installation is
  touched     \* whether the owner has touched a root

pvars == <<dir, installer, touched>>

Roles == {"runner", "author"}
Paths == {"root", "stage", "backup"} \X (Installers \cup {Nobody}) \X Roles
Root(r) == <<"root", Nobody, r>>
Stage(i, r) == <<"stage", i, r>>
Backup(i, r) == <<"backup", i, r>>

(* The staged entries, in the order in which a claim moves them: what      *)
(* sorts before node_modules, node_modules with the lockfile and the rest, *)
(* package.json.                                                           *)
Parts == {"early", "modules", "package"}

(* A directory: the installation that made it, its release, the entries it *)
(* has, whose marker is still being written, and whether there are bytes   *)
(* in it that its release does not have.                                   *)
Made(i) ==
  [made |-> i, release |-> "target", has |-> {}, cordis |-> FALSE,
   marker |-> "none", strange |-> FALSE]
Whole(release, cordis) ==
  [made |-> Nobody, release |-> release, has |-> Parts, cordis |-> cordis,
   marker |-> "none", strange |-> FALSE]

Empty(d) == d.has = {} /\ ~d.cordis /\ d.marker = "none" /\ ~d.strange

(* rename of a directory, onto a path where there is nothing or an empty   *)
(* directory.                                                              *)
CanRename(from, to) == dir[from] # {} /\ \A d \in dir[to] : Empty(d)
Renamed(from, to) == [dir EXCEPT ![to] = dir[from], ![from] = {}]

------------------------------------------------------------------------------

(* inspectClaimedProfile, for a root that has a marker. *)
Claimed(d) ==
  /\ d.marker = "whole" /\ d.release = "target" /\ ~d.strange /\ ~d.cordis
  /\ "package" \in d.has => d.has = Parts

(* profileInstallState: lockfile, packages and their bytes are there and   *)
(* of one release.                                                         *)
Installed(d) == d.has = Parts /\ ~d.strange

(* inspectPhase3ProfileTarget *)
Inspect(ds) ==
  CASE ds = {} -> "missing"
    [] \E d \in ds : d.marker # "none" /\ Claimed(d) -> "claimed"
    [] \E d \in ds : d.marker = "none" /\ Installed(d) ->
         (CHOOSE d \in ds : TRUE).release
    [] OTHER -> "invalid"

(* assertAcceptedPhase3Cohort: the accepted predecessor comes as a pair. *)
CohortHolds(found) ==
  {r \in Roles : found[r] = "accepted"} \in {{}, Roles}

Replaced(found) == {r \in Roles : found[r] # "target"}

------------------------------------------------------------------------------

Fresh ==
  [at |-> <<"off", "runner">>, found |-> [r \in Roles |-> "missing"],
   snapshot |-> [r \in Roles |-> {}], committed |-> {}, claimed |-> {},
   moved |-> {}, whole |-> TRUE, alone |-> TRUE]
Ended(how) == [Fresh EXCEPT !.at = <<how, "runner">>]

Live(i) == installer[i].at[1] \notin {"off", "done", "failed", "dead"}

(* What is there before: nothing, a release that is accepted as the        *)
(* predecessor of this one, or this one.                                   *)
ProfileInit ==
  /\ \E was \in [Roles -> {"missing", "legacy", "accepted", "target"}], cordis \in BOOLEAN :
       /\ was["author"] # "legacy"
       /\ dir = [p \in Paths |->
            {Whole(was[r], cordis /\ r = "runner") : r \in {q \in Roles : p = Root(q) /\ was[q] # "missing"}}]
  /\ installer = [i \in Installers |-> Fresh]
  /\ touched = FALSE

At(i, step, r) == installer[i].at = <<step, r>>
Go(i, to) == installer' = [installer EXCEPT ![i].at = to]
Do(i, changed) == dir' = changed /\ UNCHANGED touched

(* The order of the transaction: runner before author. *)
Activate(i, r) == IF installer[i].snapshot[r] = {} THEN <<"claim", r>> ELSE <<"swap", r>>
FirstActivation(i) ==
  Activate(i, IF "runner" \in Replaced(installer[i].found) THEN "runner" ELSE "author")
NextActivation(i, r) ==
  IF r = "runner" /\ "author" \in Replaced(installer[i].found)
    THEN Activate(i, "author") ELSE <<"verify", "runner">>

(* An error takes the committed roots back, the last one first. *)
BadNextUndo(left) == <<"sweep", "runner">>
NextUndo(left) ==
  IF left = {} THEN <<"sweep", "runner">>
    ELSE <<"undo", IF "author" \in left THEN "author" ELSE "runner">>
Abort(i) ==
  installer' = [installer EXCEPT ![i].at = NextUndo(installer[i].committed), ![i].whole = FALSE]

------------------------------------------------------------------------------

(* Each target is inspected, captured and inspected again; what it is at   *)
(* the second inspection is what was captured.                             *)
Start(i) ==
  /\ At(i, "off", "runner")
  /\ installer' = [j \in Installers |->
       IF j = i THEN [Fresh EXCEPT !.at = <<"preflight", "runner">>,
                                   !.alone = \A k \in Installers \ {i} : ~Live(k)]
       ELSE [installer[j] EXCEPT !.alone = @ /\ ~Live(j)]]
  /\ UNCHANGED <<dir, touched>>

Preflight(i, r) ==
  /\ At(i, "preflight", r)
  /\ LET state == Inspect(dir[Root(r)])
         now == [installer[i] EXCEPT !.found[r] = state, !.snapshot[r] = dir[Root(r)],
                   !.at = IF r = "runner" THEN <<"preflight", "author">> ELSE <<"staging", "runner">>]
     IN  installer' = [installer EXCEPT ![i] =
           IF state = "invalid" \/ (r = "author" /\ ~CohortHolds(now.found)) THEN Ended("failed")
           ELSE IF r = "author" /\ Replaced(now.found) = {} THEN Ended("done") ELSE now]
  /\ UNCHANGED <<dir, touched>>

(* prepareProfileTarget for every root to replace: the frozen files, the   *)
(* old cordis.yml, the installed packages, all verified.  The package      *)
(* manager may fail; the stages are then removed.                          *)
PrepareProfiles(i) ==
  /\ At(i, "staging", "runner")
  /\ \/ /\ Go(i, <<"recheck", "runner">>)
        /\ Do(i, [p \in Paths |->
             IF \E r \in Replaced(installer[i].found) : p = Stage(i, r)
               THEN {[Made(i) EXCEPT !.has = Parts,
                        !.cordis = \E d \in dir[Root(p[3])] :
                                     installer[i].snapshot[p[3]] # {} /\ d.cordis]}
               ELSE dir[p]])
     \/ /\ installer' = [installer EXCEPT ![i] = Ended("failed")]
        /\ UNCHANGED <<dir, touched>>

(* assertProfileSnapshotUnchanged for both targets. *)
Recheck(i, r) ==
  /\ At(i, "recheck", r)
  /\ IF dir[Root(r)] # installer[i].snapshot[r] THEN Abort(i)
     ELSE Go(i, IF r = "runner" THEN <<"recheck", "author">> ELSE FirstActivation(i))
  /\ UNCHANGED <<dir, touched>>

------------------------------------------------------------------------------

(* An existing root: away to the backup, compare, the stage to the root.   *)
(* An error puts the backup back if the root is free.                      *)
Swap(i, r) ==
  /\ At(i, "swap", r)
  /\ IF CanRename(Root(r), Backup(i, r))
       THEN Go(i, <<"compare", r>>) /\ Do(i, Renamed(Root(r), Backup(i, r)))
       ELSE Abort(i) /\ UNCHANGED <<dir, touched>>

PutBack(i, r) ==
  Do(i, IF CanRename(Backup(i, r), Root(r)) THEN Renamed(Backup(i, r), Root(r)) ELSE dir)

Compare(i, r) ==
  /\ At(i, "compare", r)
  /\ IF dir[Backup(i, r)] = installer[i].snapshot[r]
       THEN Go(i, <<"place", r>>) /\ UNCHANGED <<dir, touched>>
       ELSE Abort(i) /\ PutBack(i, r)

Place(i, r) ==
  /\ At(i, "place", r)
  /\ IF CanRename(Stage(i, r), Root(r))
       THEN /\ installer' = [installer EXCEPT ![i].at = NextActivation(i, r),
                                              ![i].committed = @ \cup {r}]
            /\ Do(i, Renamed(Stage(i, r), Root(r)))
       ELSE Abort(i) /\ PutBack(i, r)

(* A missing root (activateClaimedMissingProfile). *)
Claim(i, r) ==
  /\ At(i, "claim", r)
  /\ IF dir[Root(r)] = {}
       THEN Go(i, <<"mark", r>>) /\ Do(i, [dir EXCEPT ![Root(r)] = {Made(i)}])
       ELSE Abort(i) /\ UNCHANGED <<dir, touched>>

Mark(i, r) ==
  /\ At(i, "mark", r)
  /\ IF \E d \in dir[Root(r)] : d.marker = "none"
       THEN /\ Go(i, <<"write", r>>)
            /\ Do(i, [dir EXCEPT ![Root(r)] = {[d EXCEPT !.marker = i] : d \in @}])
       ELSE Go(i, <<"unclaim", r>>) /\ UNCHANGED <<dir, touched>>

(* The bytes go to the file that was opened, wherever its directory is. *)
WriteMarker(i, r) ==
  /\ At(i, "write", r)
  /\ Go(i, <<"move", r>>)
  /\ Do(i, [p \in Paths |->
       {IF d.marker = i THEN [d EXCEPT !.marker = "whole"] ELSE d : d \in dir[p]}])

(* Each entry is renamed into whatever is at the root by now: a file takes *)
(* the place of a file, a directory does not take that of node_modules.    *)
NextPart(moved) ==
  IF moved = {} THEN "early" ELSE IF moved = {"early"} THEN "modules" ELSE "package"

Move(i, r) ==
  LET was == installer[i]
      part == NextPart(was.moved)
      lands == \E d \in dir[Root(r)] : part \in d.has => part # "modules"
  IN  /\ At(i, "move", r)
      /\ IF lands
           THEN /\ installer' = [installer EXCEPT ![i] =
                     IF part = "package"
                       THEN [was EXCEPT !.at = NextActivation(i, r), !.moved = {},
                                        !.committed = was.committed \cup {r},
                                        !.claimed = was.claimed \cup {r}]
                       ELSE [was EXCEPT !.moved = was.moved \cup {part}]]
                /\ Do(i, [dir EXCEPT
                     ![Root(r)] = {[d EXCEPT !.has = d.has \cup {part},
                                             !.strange = d.strange \/ d.release # "target"] :
                                     d \in dir[Root(r)]},
                     ![Stage(i, r)] = IF part = "package" THEN {}
                                      ELSE {[d EXCEPT !.has = d.has \ {part}] : d \in dir[Stage(i, r)]}])
           ELSE Go(i, <<"unclaim", r>>) /\ UNCHANGED <<dir, touched>>

(* The error path of the claim: the entries go back, then the marker and   *)
(* the root are removed, if the root is empty.                             *)
Unclaim(i, r) ==
  /\ At(i, "unclaim", r)
  /\ Go(i, <<"release", r>>)
  /\ Do(i, [dir EXCEPT ![Root(r)] = {[d EXCEPT !.has = d.has \ installer[i].moved] : d \in @}])

Release(i, r) ==
  /\ At(i, "release", r)
  /\ LET left == {[d EXCEPT !.marker = "none"] : d \in dir[Root(r)]}
     IN  Do(i, [dir EXCEPT ![Root(r)] = {d \in left : ~Empty(d)}])
  /\ Abort(i)

------------------------------------------------------------------------------

(* With the markers still there both roots are inspected once more. *)
Verify(i, r) ==
  LET there == dir[Root(r)]
      current == IF r \in installer[i].claimed
                   THEN \E d \in there : Claimed(d) /\ d.has = Parts
                   ELSE Inspect(there) = "target"
      kept == installer[i].found[r] = "target" => there = installer[i].snapshot[r]
  IN  /\ At(i, "verify", r)
      /\ IF current /\ kept
           THEN Go(i, IF r = "runner" THEN <<"verify", "author">> ELSE <<"unmark", "runner">>)
           ELSE Abort(i)
      /\ UNCHANGED <<dir, touched>>

Unmark(i, r) ==
  LET next == IF r = "runner" THEN <<"unmark", "author">> ELSE <<"sweep", "runner">>
  IN  /\ At(i, "unmark", r)
      /\ IF r \notin installer[i].claimed
           THEN Go(i, next) /\ UNCHANGED <<dir, touched>>
         ELSE IF \E d \in dir[Root(r)] : d.marker # "none"
           THEN /\ Go(i, next)
                /\ Do(i, [dir EXCEPT ![Root(r)] = {[d EXCEPT !.marker = "none"] : d \in @}])
         ELSE Abort(i) /\ UNCHANGED <<dir, touched>>

(* rollbackCommittedProfiles; an error leaves the target where it is and   *)
(* goes on with the next one.                                              *)
Undo(i, r) ==
  /\ At(i, "undo", r)
  /\ IF CanRename(Root(r), Stage(i, r))
       THEN Go(i, <<"restore", r>>) /\ Do(i, Renamed(Root(r), Stage(i, r)))
       ELSE /\ Go(i, NextUndo(installer[i].committed \ {r, "author"}))
            /\ UNCHANGED <<dir, touched>>

Restore(i, r) ==
  /\ At(i, "restore", r)
  /\ Go(i, NextUndo(installer[i].committed \ {r, "author"}))
  /\ PutBack(i, r)

BadSweep(i) ==
  /\ At(i, "sweep", "runner")
  /\ installer' = [installer EXCEPT ![i] = Ended(IF installer[i].whole THEN "done" ELSE "failed")]
  /\ Do(i, [p \in Paths |-> IF p[2] = i /\ p[1] # "root" THEN {} ELSE dir[p]])

(* The end: the backups go when the transaction is through, and the stages *)
(* in any case.                                                            *)
Sweep(i) ==
  /\ At(i, "sweep", "runner")
  /\ installer' = [installer EXCEPT ![i] = Ended(IF installer[i].whole THEN "done" ELSE "failed")]
  /\ Do(i, [p \in Paths |->
       IF p[2] = i /\ (p[1] = "stage" \/ (p[1] = "backup" /\ installer[i].whole)) THEN {} ELSE dir[p]])

(* The process dies between any two of these steps. *)
Die(i) ==
  /\ Live(i)
  /\ installer' = [installer EXCEPT ![i] = Ended("dead")]
  /\ UNCHANGED <<dir, touched>>

(* The owner makes a root where there is none, or changes one, once. *)
OwnerTouches(r) ==
  /\ ~touched /\ touched' = TRUE
  /\ dir' = [dir EXCEPT ![Root(r)] =
       IF @ = {} THEN {[Made(Nobody) EXCEPT !.strange = TRUE]}
       ELSE {[d EXCEPT !.strange = TRUE] : d \in @}]
  /\ UNCHANGED installer

Activation(i, r) ==
  \/ Swap(i, r) \/ Compare(i, r) \/ Place(i, r)
  \/ Claim(i, r) \/ Mark(i, r) \/ WriteMarker(i, r) \/ Move(i, r)
  \/ Unclaim(i, r) \/ Release(i, r)

Install(i) ==
  \/ Start(i) \/ PrepareProfiles(i) \/ Sweep(i) \/ Die(i)
  \/ \E r \in Roles :
       \/ Preflight(i, r) \/ Recheck(i, r) \/ Activation(i, r)
       \/ Verify(i, r) \/ Unmark(i, r) \/ Undo(i, r) \/ Restore(i, r)

ProfileNext ==
  \/ \E i \in Installers : Install(i)
  \/ \E r \in Roles : OwnerTouches(r)

ProfileSpec == ProfileInit /\ [][ProfileNext]_pvars

------------------------------------------------------------------------------

(* The last copy of a predecessor, at its root or in a backup, goes in a   *)
(* step by which an installation succeeds, or by the owner's own hand:     *)
(* whatever dies or fails and however installations overlap.  The one      *)
(* exception is an installation that is not alone: a claim moves its       *)
(* entries into what another one has put back at the root, or takes them   *)
(* out again, and a rollback takes away what it finds there.               *)
Predecessor(r) ==
  \E p \in {Root(r)} \cup {Backup(j, r) : j \in Installers} :
    \E d \in dir[p] : d.release # "target" /\ d.has = Parts /\ ~d.strange
PredecessorOutlivesFailure ==
  [][\A r \in Roles : Predecessor(r) /\ ~Predecessor(r)' =>
       \/ \E i \in Installers : installer'[i].at[1] = "done" /\ installer[i].at[1] # "done"
       \/ \E i \in Installers : installer[i].at \in {"move", "unclaim", "undo"} \X {r} /\ ~installer[i].alone
       \/ touched' # touched]_pvars

(* An installation that had the profiles for itself is all or nothing:     *)
(* after a failure each root is what it was before, after a success it is  *)
(* this release; where it is not, the owner has put something there.       *)
AllOrNothing ==
  [][\A i \in Installers : installer[i].at[1] = "sweep" /\ installer[i].alone =>
       \A r \in Roles :
         \/ \E d \in dir'[Root(r)] : d.strange
         \/ installer'[i].at[1] = "failed" /\ dir'[Root(r)] = installer[i].snapshot[r]
         \/ installer'[i].at[1] = "done" /\ Inspect(dir'[Root(r)]) = "target"
         \/ installer'[i].at[1] \in {"dead", "sweep"}]_pvars
==============================================================================
