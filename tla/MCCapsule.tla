------------------------------ MODULE MCCapsule ------------------------------
(* Two claims, two commands of any kind, and saves of the author between    *)
(* any two of their steps.                                                  *)
EXTENDS Capsule, TLC

CommandSymmetry == Permutations(Commands) \cup Permutations(Claims)
=============================================================================
