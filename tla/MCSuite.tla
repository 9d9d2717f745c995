------------------------------- MODULE MCSuite -------------------------------
(* Small instances of Suite. *)
EXTENDS Suite

CONSTANTS r1, r2
=============================================================================
