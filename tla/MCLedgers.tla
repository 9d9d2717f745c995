------------------------------ MODULE MCLedgers ------------------------------
(* Two exposure ledgers, one at a time: that of the aliased registry, and   *)
(* that of the two registry versions of which one practises what is the     *)
(* holdout of the other.                                                    *)
EXTENDS MCExposureLedger

VARIABLES registry, pcR, linkR, todoR, currentR, reservedR, tempsR, recordsR, seenR

relabelledVars == <<pcR, linkR, todoR, currentR, reservedR, tempsR, recordsR, seenR>>

Relabelled ==
  INSTANCE ExposureLedger WITH
    Suites <- {s1, s2}, Holdout <- RelabelHoldout, Practice <- RelabelPractice,
    pc <- pcR, link <- linkR, todo <- todoR, current <- currentR, reserved <- reservedR,
    temps <- tempsR, records <- recordsR, seen <- seenR

LedgersInit == registry \in {"aliased", "relabelled"} /\ Init /\ Relabelled!Init
LedgersNext ==
  \/ registry = "aliased" /\ Next /\ UNCHANGED <<registry, relabelledVars>>
  \/ registry = "relabelled" /\ Relabelled!Next /\ UNCHANGED <<registry, vars>>
LedgersSpec == LedgersInit /\ [][LedgersNext]_<<registry, vars, relabelledVars>>

(* RecordedEvidenceStaysSpent of the relabelled registry: a Suite that      *)
(* starts when its holdout's evidence is on record under any name and in    *)
(* any bucket never shows the holdout.                                      *)
RelabelledStaysSpent == Relabelled!RecordedEvidenceStaysSpent
==============================================================================
