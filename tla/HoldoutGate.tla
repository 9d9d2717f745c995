----------------------------- MODULE HoldoutGate -----------------------------
(***************************************************************************)
(* What the exposure ledger promises its Suites: a gate that grants a      *)
(* holdout, in one indivisible step, to at most one Suite per piece of     *)
(* evidence, and lets only the holder show the holdout to a model.  The    *)
(* three evidence files, the stale directory listing and the crashes of    *)
(* the real protocol (ExposureLedger) are invisible here.                  *)
(***************************************************************************)

EXTENDS Naturals

CONSTANTS
  Suites,    (* Suite runs, each with a fresh suite id.                    *)
  Holdout,   (* The holdout identity every Suite is bound to.              *)
  Episode    (* Model episodes a Suite may run: suite, task, bucket, arm.  *)

VARIABLES
  granted,   (* Suites that hold their holdout.                            *)
  seen       (* Episodes that some model has been shown.                   *)

gateVars == <<granted, seen>>

(***************************************************************************)
(* Two identities overlap when they agree on the task id, on the public    *)
(* task digest or on the effective base digest.                            *)
(***************************************************************************)
Overlap(a, b) == \E k \in 1..3 : a[k] = b[k]

Init ==
  /\ granted = {}
  /\ seen = {}

(***************************************************************************)
(* A holdout is granted while it is fresh: nobody else holds, and no model *)
(* has been shown, a holdout that shares evidence with it.                 *)
(***************************************************************************)
Grant(s) ==
  /\ s \notin granted
  /\ \A t \in granted : ~Overlap(Holdout[s], Holdout[t])
  /\ \A e \in seen : ~Overlap(Holdout[s], e.task)
  /\ granted' = granted \cup {s}
  /\ UNCHANGED seen

(***************************************************************************)
(* A model is shown a practice task freely, the holdout only by a holder.  *)
(***************************************************************************)
Show(e) ==
  /\ e.bucket = "holdout" => e.suite \in granted
  /\ seen' = seen \cup {e}
  /\ UNCHANGED granted

Next ==
  \/ \E s \in Suites : Grant(s)
  \/ \E e \in Episode : Show(e)

Spec == Init /\ [][Next]_gateVars

=============================================================================
