------------------------------- MODULE MCReview -------------------------------
(* What is read when the evidence is in: the Capsule and the verdicts of the *)
(* reports; and of the Commerce task pack, whose tasks the evidence is       *)
(* about, the order service and the admissions of its two oracles.  They     *)
(* share no state, so that a behaviour exercises one of them and leaves the  *)
(* others as they start.                                                     *)
EXTENDS MCCapsule, Verdicts, OrderService

CONSTANTS MaxFaults, Seed, MaxDisturbed

VARIABLES
  active,
  vectors, faults, verdict,
  stage, results, disturbed, cases

oracleVars == <<vectors, faults, verdict>>
boundaryVars == <<stage, results, disturbed, cases>>

(* An unpaid order and three paid ones: of an active fulfilment, not begun, *)
(* and handed off.  One coupon expires the day the orders are cancelled,    *)
(* another the day before.  Clients never have two of the orders at once.   *)
OrderDrafts ==
  {[Unpaid EXCEPT !.reserved = TRUE, !.coupon = Coupon(CancelDay)],
   [Paid EXCEPT !.fulfillment = "active", !.reserved = TRUE,
                 !.coupon = Coupon(ExpiredDay)],
   [Paid EXCEPT !.coupon = Coupon(CancelDay)],
   [Paid EXCEPT !.fulfillment = "handed_off"]}

(* The same request again, by another customer and at another time, and the *)
(* request of a cancellation again as that of a withdrawal.                 *)
OrdersAsked ==
  {Cancellation("order", "customer", "first", CancelDay),
   Cancellation("order", "customer", "second", ResolveDay),
   Cancellation("order", "stranger", "first", CancelDay),
   Withdrawal("order", "third", "completed", ResolveDay),
   Withdrawal("order", "third", "failed", ResolveDay),
   Withdrawal("order", "second", "completed", ResolveDay),
   Query("refunded", "order"), Query("get", "order")}

ASSUME OrdersAssumption == OrdersAreNew /\ OrdersAreOpen

Oracle == INSTANCE OrderOracle
Boundary == INSTANCE ObservationBoundary

ReviewInit ==
  /\ active \in {"capsule", "verdicts", "service", "oracle", "boundary"}
  /\ Init /\ VerdictsInit
  /\ OrderInit /\ Oracle!OracleInit /\ Boundary!BoundaryInit
  /\ active # "capsule" => \A f \in File : tree[f] = {}
  /\ Head(buckets) = "trigger"

ReviewNext ==
  \/ /\ active = "capsule" /\ Next
     /\ UNCHANGED <<active, rvars, orderVars, oracleVars, boundaryVars>>
  \/ /\ active = "verdicts" /\ VerdictsNext
     /\ UNCHANGED <<active, vars, orderVars, oracleVars, boundaryVars>>
  \/ /\ active = "service" /\ OrderNext
     /\ UNCHANGED <<active, vars, rvars, oracleVars, boundaryVars>>
  \/ /\ active = "oracle" /\ Oracle!OracleNext
     /\ UNCHANGED <<active, vars, rvars, orderVars, boundaryVars>>
  \/ /\ active = "boundary" /\ Boundary!BoundaryNext
     /\ UNCHANGED <<active, vars, rvars, orderVars, oracleVars>>

ReviewSpec ==
  ReviewInit /\ [][ReviewNext]_<<active, vars, rvars, orderVars, oracleVars, boundaryVars>>

(* The oracles of the pack are admitted exactly of true measurements: the   *)
(* behavior oracle when no check of any Candidate was disturbed, the         *)
(* observation boundary when every Candidate it was given was measured as    *)
(* its source calls for (see AdmittedIffUndisturbed of OrderOracle and       *)
(* AdmittedIffMeasured of ObservationBoundary).                              *)
AdmittedIffTrue == Oracle!AdmittedIffUndisturbed /\ Boundary!AdmittedIffMeasured
===============================================================================
