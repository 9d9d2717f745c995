-------------------------- MODULE MCExposureLedger --------------------------
(* Small instances of ExposureLedger. *)
EXTENDS ExposureLedger, TLC

CONSTANTS s1, s2, s3, t1, t2, p1, p2, b1, b2, tp, pp, bp

(***************************************************************************)
(* Three Suites: s1 and s2 are bound to the same registry; s3 is bound to  *)
(* an alias, a renamed task with a new base and the same public task.  All *)
(* practise the same unrelated task.                                       *)
(***************************************************************************)
AliasHoldout == s1 :> <<t1, p1, b1>> @@ s2 :> <<t1, p1, b1>> @@ s3 :> <<t2, p1, b2>>

AliasPractice == [s \in Suites |-> {<<tp, pp, bp>>}]

(***************************************************************************)
(* Two registry versions: s1 practises, under another name, the base that  *)
(* is the holdout of s2.                                                   *)
(***************************************************************************)
RelabelHoldout == s1 :> <<t1, p1, b1>> @@ s2 :> <<t2, p2, b2>>

RelabelPractice == s1 :> {<<tp, pp, b2>>} @@ s2 :> {}

ASSUME BucketsDisjoint \/ Practice = RelabelPractice
=============================================================================
