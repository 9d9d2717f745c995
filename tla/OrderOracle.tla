---------------------------- MODULE OrderOracle -----------------------------
(***************************************************************************)
(* The behavior oracle of the Commerce order pack, version 2, and its      *)
(* admission (oracle/runner.mjs of the pack, src/oracle/commerce-order-v2, *)
(* commerce-calibration-v2, src/commerce-withdrawal/admission.ts).         *)
(*                                                                         *)
(* Every check puts its own story to a Candidate; calibration runs all     *)
(* checks on the Candidates whose faults are known, and admission compares *)
(* what was seen with the frozen table of expected failures.               *)
(***************************************************************************)
EXTENDS OrderStore

CONSTANT MaxFaults   (* Bound: checks that the machine disturbs.           *)

VARIABLES
  vectors,     (* The behavior vectors so far, in the order of candidates. *)
  faults,      (* Checks that were disturbed so far.                       *)
  verdict      (* The admission: none, admitted or rejected.               *)

oracleVars == <<vectors, faults, verdict>>

-----------------------------------------------------------------------------
(* The oracle's orders and commands; each order has its own customer.      *)
Given(a, i) == a[i].form = "value"
Value(a, i) == a[i].value[1]
AllGiven(a, spared) == \A i \in DOMAIN a \ spared : Given(a, i)
Types(events) == [i \in DOMAIN events |-> events[i].type]
Count(events, type) == Cardinality({i \in DOMAIN events : events[i].type = type})
EffectTypes == {"order_cancelled", "refund_requested", "inventory_compensated",
                "coupon_restored"}
EffectCount(events) == Cardinality({i \in DOMAIN events : events[i].type \in EffectTypes})

-----------------------------------------------------------------------------
(***************************************************************************)
(* The checks: what each asks, and whether the answers of the Candidate    *)
(* pass.  A call that rejects where the check does not expect it fails it. *)
(***************************************************************************)
UnpaidCancelHasNoRefund(rewrites) ==
  LET Seen(a) ==
        LET r == Value(a, 3)
        IN  /\ AllGiven(a, {})
            /\ r.order.status = "cancelled" /\ r.order.refund = "none"
            /\ r.order.amount = 0 /\ ~r.refundRequested
  IN  Seen(Story([Unpaid EXCEPT !.reserved = TRUE], <<Cancel>>, rewrites))

PaidUnstartedCreatesRefund(rewrites) ==
  LET Seen(a) ==
        LET r == Value(a, 3)
        IN  /\ AllGiven(a, {})
            /\ r.order.status = "cancelled" /\ r.order.refund = "pending"
            /\ r.order.amount = 8 /\ r.order.currency = "USD" /\ r.refundRequested
  IN  Seen(Story(Paid, <<Cancel>>, rewrites))

HandedOffRequiresAfterSales(rewrites) ==
  LET target == [Paid EXCEPT !.fulfillment = "handed_off"]
      Seen(a) ==
        /\ a[3].form = "throw" /\ AllGiven(a, {3})
        /\ Value(a, 4) = target
        /\ Types(Value(a, 5)) = <<"command_rejected">>
        /\ Value(a, 5)[1].reason = "carrier_handoff_committed"
  IN  Seen(Story(target, <<Cancel, Get, Audit>>, rewrites))

CancellationAndRefundAreSeparate(rewrites) ==
  LET Seen(a) ==
        /\ AllGiven(a, {})
        /\ Value(a, 3).order.refund = "pending"
        /\ Value(a, 4).status = "cancelled" /\ Value(a, 4).refund = "refunded"
        /\ Types(Value(a, 5)) = <<"order_cancelled", "refund_requested", "refund_completed">>
  IN  Seen(Story(Paid, <<Cancel, Query("refunded", "order"), Audit>>, rewrites))

ActiveEntersPendingWithdrawal(rewrites) ==
  LET Seen(a) ==
        LET r == Value(a, 3)
        IN  /\ AllGiven(a, {})
            /\ r.order.status = "paid" /\ r.order.withdrawal = "pending"
            /\ r.customerStatus = "cancellation_pending_fulfilment"
            /\ ~r.refundRequested /\ ~r.inventoryReleased /\ ~r.couponRestored
            /\ Types(Value(a, 4)) = <<"cancellation_requested", "withdrawal_requested">>
  IN  Seen(Story(Active, <<Cancel, Audit>>, rewrites))

CompletionPrecedesCancellation(rewrites) ==
  LET Seen(a) ==
        LET o == Value(a, 4).order
        IN  /\ AllGiven(a, {})
            /\ Value(a, 3).order.status = "paid"
            /\ o.status = "cancelled" /\ o.withdrawal = "completed"
            /\ o.refund = "pending" /\ o.amount = 8
  IN  Seen(Story(Active, <<Cancel, Resolve("completed")>>, rewrites))

RejectionPreservesOrder(rewrites) ==
  LET Seen(a) ==
        LET r == Value(a, 4)
        IN  /\ AllGiven(a, {})
            /\ r.order.status = "paid" /\ r.order.withdrawal = "rejected"
            /\ r.customerStatus = "cancellation_rejected"
            /\ r.order.reserved /\ ~r.order.coupon.restored /\ r.order.refund = "none"
            /\ EffectCount(Value(a, 5)) = 0
  IN  Seen(Story([Active EXCEPT !.coupon = Coupon(ValidDay)],
                  <<Cancel, Resolve("rejected"), Audit>>, rewrites))

FailureIsRecoverable(rewrites) ==
  LET again == <<Opening, Get, CancelBy("customer", "retry"),
                 Withdrawal("order", "withdrawal-retry", "completed", ResolveDay)>>
      Seen(a) ==
        LET r == Value(a, 4)
        IN  /\ AllGiven(a, {})
            /\ r.order.status = "paid" /\ r.order.withdrawal = "failed"
            /\ r.customerStatus = "cancellation_failed"
            /\ EffectCount(Value(a, 5)) = 0
            /\ a[7].value # <<>> /\ Value(a, 7).withdrawal = "failed"
            /\ Value(a, 9).order.status = "cancelled" /\ Value(a, 9).order.withdrawal = "completed"
  IN  Seen(Story(Active, <<Cancel, Resolve("failed"), Audit>> \o again, rewrites))

InventoryIsReleasedOnce(rewrites) ==
  LET twice == <<Resolve("completed"), Resolve("completed")>>
      Seen(a) ==
        /\ AllGiven(a, {})
        /\ Value(a, 4) = Value(a, 5) /\ Value(a, 4) = Value(a, 8)
        /\ ~Value(a, 6).reserved
        /\ Count(Value(a, 7), "inventory_compensated") = 1
  IN  Seen(Story(Active, <<Cancel>> \o twice \o <<Get, Audit, Resolve("completed")>>, rewrites))

CouponNeedsEligibility(rewrites) ==
  LET valid == [Unpaid EXCEPT !.coupon = Coupon(ValidDay)]
      expired == [Unpaid EXCEPT !.coupon = Coupon(ExpiredDay), !.id = "expired"]
      Seen(a) ==
        /\ AllGiven(a, {})
        /\ Value(a, 4).couponRestored /\ ~Value(a, 5).couponRestored
        /\ Value(a, 6).coupon.restored /\ ~Value(a, 7).coupon.restored
        /\ Count(Value(a, 8), "coupon_restored") = 0
  IN  Seen(Story(valid, <<Creation(expired), Cancel,
                           Cancellation("expired", "customer", "other", CancelDay), Get,
                           Query("get", "expired"), Query("audit", "expired")>>, rewrites))

OwnershipIsEnforced(rewrites) ==
  LET Seen(a) ==
        /\ a[3].form = "throw" /\ AllGiven(a, {3})
        /\ Value(a, 4) = Paid
        /\ Types(Value(a, 5)) = <<"command_rejected">>
  IN  Seen(Story(Paid, <<CancelBy("stranger", "request"), Get, Audit>>, rewrites))

ReplayAndConflictAreIdempotent(rewrites) ==
  LET Seen(a) ==
        /\ a[5].form = "throw" /\ AllGiven(a, {5})
        /\ Value(a, 3) = Value(a, 4)
        /\ \A type \in {"order_cancelled", "inventory_compensated", "idempotency_conflict"} :
             Count(Value(a, 6), type) = 1
  IN  Seen(Story([Unpaid EXCEPT !.reserved = TRUE],
                  <<Cancel, Cancel, CancelBy("stranger", "request"), Audit>>, rewrites))

RestartPreservesHandoffs(rewrites) ==
  LET Seen(a) ==
        /\ AllGiven(a, {})
        /\ Value(a, 3).order.withdrawal = "pending"
        /\ a[5].value # <<>> /\ Value(a, 5).status = "paid" /\ Value(a, 5).withdrawal = "pending"
        /\ \A type \in EffectTypes \cup {"withdrawal_requested", "withdrawal_completed"} :
             Count(Value(a, 7), type) = 1
        /\ Value(a, 10).refund = "refunded"
        /\ Count(Value(a, 11), "refund_completed") = 1
  IN  Seen(Story([Active EXCEPT !.coupon = Coupon(ValidDay)],
                  <<Cancel, Opening, Get, Resolve("completed"), Audit, Query("refunded", "order"),
                    Opening, Get, Audit>>, rewrites))

RefundPreservesMoney(rewrites) ==
  LET Seen(a) ==
        LET refund == SelectSeq(Value(a, 4), LAMBDA e : e.type = "refund_requested")[1]
        IN  /\ AllGiven(a, {})
            /\ Value(a, 3).order.amount = 8 /\ Value(a, 3).order.currency = "EUR"
            /\ refund.amount = 8 /\ refund.currency = "EUR"
  IN  Seen(Story([Paid EXCEPT !.currency = "EUR"], <<Cancel, Audit>>, rewrites))

ExpiredReplayReconciles(rewrites) ==
  LET old == [Cancel EXCEPT !.now = OldDay]
      Seen(a) ==
        /\ AllGiven(a, {})
        /\ Value(a, 5) = Value(a, 3)
        /\ Count(Value(a, 6), "inventory_compensated") = 1
        /\ Count(Value(a, 6), "refund_requested") = 1
  IN  Seen(Story([Paid EXCEPT !.reserved = TRUE],
                  <<old, Opening, [old EXCEPT !.now = LateDay], Audit>>, rewrites))

AuditAndRetentionAreComplete(rewrites) ==
  LET Seen(a) ==
        /\ AllGiven(a, {})
        /\ Value(a, 5) = [idempotencyDays |-> 90, financialAndOrderDays |-> 2555,
                          securityConflictDays |-> 365, deliveryDiagnosticDays |-> 90]
        /\ Len(Value(a, 6)) >= 6
        /\ \A i \in DOMAIN Value(a, 6) : Value(a, 6)[i].policy
  IN  Seen(Story(Active, <<Cancel, Resolve("completed"), Query("retention", "order"), Audit>>,
                  rewrites))

-----------------------------------------------------------------------------
(***************************************************************************)
(* COMMERCE_BEHAVIORS and the vector of an undisturbed Candidate.          *)
(***************************************************************************)
Passes(rewrites) ==
     "unpaid_cancel_has_no_refund" :> UnpaidCancelHasNoRefund(rewrites)
  @@ "paid_unstarted_creates_paid_amount_refund" :> PaidUnstartedCreatesRefund(rewrites)
  @@ "handed_off_order_requires_after_sales" :> HandedOffRequiresAfterSales(rewrites)
  @@ "cancellation_and_refund_states_are_separate" :> CancellationAndRefundAreSeparate(rewrites)
  @@ "active_fulfillment_enters_pending_withdrawal" :> ActiveEntersPendingWithdrawal(rewrites)
  @@ "withdrawal_completion_precedes_cancellation" :> CompletionPrecedesCancellation(rewrites)
  @@ "withdrawal_rejection_preserves_order_and_effects" :> RejectionPreservesOrder(rewrites)
  @@ "withdrawal_failure_is_recoverable_without_effects" :> FailureIsRecoverable(rewrites)
  @@ "inventory_compensation_is_exactly_once" :> InventoryIsReleasedOnce(rewrites)
  @@ "coupon_restore_requires_current_eligibility" :> CouponNeedsEligibility(rewrites)
  @@ "customer_ownership_is_enforced" :> OwnershipIsEnforced(rewrites)
  @@ "request_replay_and_conflict_are_idempotent" :> ReplayAndConflictAreIdempotent(rewrites)
  @@ "restart_recovery_preserves_handoffs_and_audit" :> RestartPreservesHandoffs(rewrites)
  @@ "refund_preserves_paid_amount_currency_and_units" :> RefundPreservesMoney(rewrites)
  @@ "expired_replay_reconciles_or_fails_closed" :> ExpiredReplayReconciles(rewrites)
  @@ "audit_and_retention_policy_are_complete" :> AuditAndRetentionAreComplete(rewrites)

Behaviors == DOMAIN Passes({})

Candidates == <<
  "red", "gold", "mutant-handed-off-cancel", "mutant-overrefund-or-currency",
  "mutant-premature-cancel", "mutant-withdrawal-rejection-effects",
  "mutant-withdrawal-failure-effects", "mutant-double-effects",
  "mutant-coupon-always-restored", "mutant-no-ownership", "mutant-no-persistence",
  "mutant-expired-replay-fresh", "mutant-sparse-audit", "gold-repeat", "gold-next-seed">>

TrueVectors ==
  [i \in DOMAIN Candidates |->
     LET passes == Passes(Rewrites(Candidates[i]))
     IN  [b \in Behaviors |-> IF passes[b] THEN "pass" ELSE "fail"]]

(***************************************************************************)
(* expectedFailures of the catalog.                                        *)
(***************************************************************************)
ExpectedFailures ==
     "red" :> Behaviors
  @@ "mutant-handed-off-cancel" :> {"handed_off_order_requires_after_sales"}
  @@ "mutant-overrefund-or-currency" :>
       {"paid_unstarted_creates_paid_amount_refund", "withdrawal_completion_precedes_cancellation",
        "restart_recovery_preserves_handoffs_and_audit",
        "refund_preserves_paid_amount_currency_and_units",
        "expired_replay_reconciles_or_fails_closed"}
  @@ "mutant-premature-cancel" :>
       {"active_fulfillment_enters_pending_withdrawal",
        "withdrawal_completion_precedes_cancellation",
        "withdrawal_rejection_preserves_order_and_effects",
        "withdrawal_failure_is_recoverable_without_effects",
        "inventory_compensation_is_exactly_once",
        "restart_recovery_preserves_handoffs_and_audit",
        "audit_and_retention_policy_are_complete"}
  @@ "mutant-withdrawal-rejection-effects" :> {"withdrawal_rejection_preserves_order_and_effects"}
  @@ "mutant-withdrawal-failure-effects" :> {"withdrawal_failure_is_recoverable_without_effects"}
  @@ "mutant-double-effects" :>
       {"inventory_compensation_is_exactly_once", "request_replay_and_conflict_are_idempotent",
        "expired_replay_reconciles_or_fails_closed"}
  @@ "mutant-coupon-always-restored" :> {"coupon_restore_requires_current_eligibility"}
  @@ "mutant-no-ownership" :> {"customer_ownership_is_enforced"}
  @@ "mutant-no-persistence" :>
       {"withdrawal_failure_is_recoverable_without_effects",
        "restart_recovery_preserves_handoffs_and_audit",
        "expired_replay_reconciles_or_fails_closed"}
  @@ "mutant-expired-replay-fresh" :> {"expired_replay_reconciles_or_fails_closed"}
  @@ "mutant-sparse-audit" :>
       {"withdrawal_failure_is_recoverable_without_effects",
        "restart_recovery_preserves_handoffs_and_audit",
        "expired_replay_reconciles_or_fails_closed",
        "audit_and_retention_policy_are_complete"}

-----------------------------------------------------------------------------
IndexOf(candidate) == CHOOSE i \in DOMAIN Candidates : Candidates[i] = candidate
Of(candidate) == vectors[IndexOf(candidate)]
With(vector, status) == {b \in Behaviors : vector[b] = status}

(* A Candidate that fails what it should, and more besides, is a match.     *)
BadCounterexamplesMatched ==
  \A c \in DOMAIN ExpectedFailures : ExpectedFailures[c] \subseteq With(Of(c), "fail")

CounterexamplesMatched ==
  \A c \in DOMAIN ExpectedFailures :
    With(Of(c), "error") = {} /\ With(Of(c), "fail") = ExpectedFailures[c]

(***************************************************************************)
(* The checks of buildCommerceGraderAdmission.                             *)
(***************************************************************************)
RedDetected == With(Of("red"), "fail") # {} /\ With(Of("red"), "error") = {}
GoldPassed == With(Of("gold"), "pass") = Behaviors
Repeatable == Of("gold") = Of("gold-repeat")
SeedStable == Of("gold") = Of("gold-next-seed")
CoverageComplete ==
  \A b \in Behaviors : \E c \in DOMAIN ExpectedFailures : Of(c)[b] = "fail"

-----------------------------------------------------------------------------
OracleInit == vectors = <<>> /\ faults = 0 /\ verdict = "none"

(***************************************************************************)
(* evaluateDirectory runs all checks of one Candidate at once.  A check    *)
(* that takes too long inside its process fails; a process that is killed, *)
(* fails or floods its output is an error.                                 *)
(***************************************************************************)
EvaluateCandidate ==
  /\ Len(vectors) < Len(Candidates)
  /\ vectors' = Append(vectors, TrueVectors[Len(vectors) + 1])
  /\ UNCHANGED <<faults, verdict>>

EvaluateDisturbed ==
  /\ Len(vectors) < Len(Candidates) /\ faults < MaxFaults
  /\ \E b \in Behaviors, status \in {"fail", "error"} :
       vectors' = Append(vectors, [TrueVectors[Len(vectors) + 1] EXCEPT ![b] = status])
  /\ faults' = faults + 1
  /\ UNCHANGED verdict

AdmitGrader ==
  /\ Len(vectors) = Len(Candidates) /\ verdict = "none"
  /\ verdict' = IF /\ RedDetected /\ GoldPassed /\ CounterexamplesMatched
                   /\ Repeatable /\ SeedStable /\ CoverageComplete
                THEN "admitted" ELSE "rejected"
  /\ UNCHANGED <<vectors, faults>>

OracleNext == EvaluateCandidate \/ EvaluateDisturbed \/ AdmitGrader

OracleSpec == OracleInit /\ [][OracleNext]_oracleVars

-----------------------------------------------------------------------------
(***************************************************************************)
(* The oracle is admitted exactly when no check of any Candidate was       *)
(* answered otherwise than its source calls for: the checks find Gold      *)
(* right and every rewriting of it wrong where the catalog says and        *)
(* nowhere else, and one disturbed check anywhere keeps the oracle out     *)
(* (buildCommerceGraderAdmission, expectedFailures).                       *)
(***************************************************************************)
AdmittedIffUndisturbed ==
  verdict # "none" => (verdict = "admitted" <=> vectors = TrueVectors)
=============================================================================
