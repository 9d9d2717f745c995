----------------------------- MODULE MCAuthoring -----------------------------
(* The two stores of the authoring side.  They share no state, so that a    *)
(* behaviour exercises one of them and leaves the other as it starts.       *)
EXTENDS ForwardEvidence, DomainAuthority, TLC

CONSTANTS t1, t2, a1, a2, d1, d2, MaxTried

VARIABLE side

MCStamps == {<<t1, a1>>, <<t1, a2>>, <<t2, a1>>}
MCDependencies == {{}, {<<d1, d2>>, <<d2, d1>>}}
(* The two name their processes alike, so that one permutation serves both. *)
Symmetry == Permutations(Runs)

AuthoringInit ==
  /\ side \in {"evidence", "authority"}
  /\ ForwardInit /\ AuthorityInit
  /\ side = "evidence" => recorded = {}

(* Bound: sessions that make an attempt.                                    *)
TriedIn == {r \in Runs : \E k \in Attempts : attempt[r][k].at # "none"}

AuthoringNext ==
  \/ /\ side = "evidence" /\ ForwardNext /\ UNCHANGED <<side, dvars>>
     /\ Cardinality(TriedIn') <= MaxTried
  \/ side = "authority" /\ AuthorityNext /\ UNCHANGED <<side, fvars>>
AuthoringSpec == AuthoringInit /\ [][AuthoringNext]_<<side, fvars, dvars>>
==============================================================================
