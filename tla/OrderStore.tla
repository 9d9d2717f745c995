----------------------------- MODULE OrderStore -----------------------------
(***************************************************************************)
(* The operations of the Gold OrderService of the Commerce task pack       *)
(* (calibration/gold-equivalent/src/order-service.ts), as functions of the *)
(* store they are applied to.  OrderService runs them in a process that    *)
(* persists and dies, OrderOracle and ObservationBoundary put them to the  *)
(* test.                                                                   *)
(*                                                                         *)
(* A Candidate is Gold under a set of rewrites: those of mutations.json    *)
(* and of equivalent-variants.json, which edit the source at one place     *)
(* each.  "not_implemented" is the Red base of the pack.                   *)
(*                                                                         *)
(* Time is counted in days, money in thousands of minor units; texts are   *)
(* left out but for the one reason that a check compares.                  *)
(***************************************************************************)
EXTENDS Naturals, Sequences, FiniteSets, SequencesExt, TLC

IdempotencyDays == 90

Outcomes == {"completed", "rejected", "failed"}

(* An order, as types.ts declares it, without the texts.                   *)
Order ==
  [id : STRING, customer : STRING, status : {"pending_payment", "paid", "cancelled", "closed"},
   fulfillment : {"not_started", "active", "handed_off"},
   withdrawal : {"none", "pending"} \cup Outcomes, list : Nat, paid : Nat, currency : STRING,
   reserved : BOOLEAN, coupon : [held : BOOLEAN, until : Nat, restored : BOOLEAN],
   refund : {"none", "pending", "refunded", "failed"}, amount : Nat, version : Nat]

NoCoupon == [held |-> FALSE, until |-> 0, restored |-> FALSE]
Coupon(until) == [held |-> TRUE, until |-> until, restored |-> FALSE]

Layout(rewrites) == IF "persistence_layout" \in rewrites THEN "storageRevision" ELSE "schemaVersion"
EmptyStore(rewrites) ==
  [layout |-> Layout(rewrites), orders |-> {}, requests |-> {}, audit |-> <<>>]

OrdersNamed(store, id) == {o \in store.orders : o.id = id}
OrderNamed(store, id) == CHOOSE o \in store.orders : o.id = id
EventsOf(store, id) == SelectSeq(store.audit, LAMBDA e : e.order = id)

(***************************************************************************)
(* validateOrder and validateState: what createOrder and open accept.      *)
(***************************************************************************)
ValidOrder(o) ==
  /\ o.status \in {"pending_payment", "paid", "cancelled", "closed"}
  /\ o.fulfillment \in {"not_started", "active", "handed_off"}
  /\ o.withdrawal \in {"none", "pending", "completed", "rejected", "failed"}
  /\ o.refund \in {"none", "pending", "refunded", "failed"}
  /\ o.paid <= o.list /\ o.amount <= o.paid /\ o.version > 0

ValidStore(store, rewrites) ==
  /\ store.layout = Layout(rewrites)
  /\ \A o \in store.orders : ValidOrder(o) /\ OrdersNamed(store, o.id) = {o}
  /\ \A r, s \in store.requests : r.request = s.request => r = s
  /\ \A i \in DOMAIN store.audit : store.audit[i].policy

CustomerStatus(o) ==
  IF o.status = "cancelled" THEN "cancelled"
  ELSE IF o.fulfillment = "handed_off" THEN "after_sales_required"
  ELSE IF o.withdrawal = "pending" THEN "cancellation_pending_fulfilment"
  ELSE IF o.withdrawal = "rejected" THEN "cancellation_rejected"
  ELSE IF o.withdrawal = "failed" THEN "cancellation_failed"
  ELSE "open"

Result(o, released, restored, refunded) ==
  [order |-> o, customerStatus |-> CustomerStatus(o), inventoryReleased |-> released,
   couponRestored |-> restored, refundRequested |-> refunded]

(***************************************************************************)
(* An answer is a value (Done: none), an exception or a typed rejection;   *)
(* an outcome is an answer with the store the operation wants to commit.   *)
(***************************************************************************)
Gives(value) == [form |-> "value", value |-> <<value>>]
Done == [form |-> "value", value |-> <<>>]
Throws == [form |-> "throw", value |-> <<>>]
Declines == [form |-> "typed", value |-> <<>>]
Outcome(store, answer) == [store |-> store, answer |-> answer]

-----------------------------------------------------------------------------
(***************************************************************************)
(* Audit events.  A fact is an event before it knows its command.          *)
(***************************************************************************)
Fact(type) == [type |-> type, reason |-> "worded", amount |-> 0, currency |-> "none"]
Optionally(condition, fact) == IF condition THEN <<fact>> ELSE <<>>

Event(fact, o, before, c, rewrites) ==
  [type |-> fact.type, reason |-> fact.reason, amount |-> fact.amount,
   currency |-> fact.currency, order |-> o.id, request |-> c.request,
   provider |-> c.provider, before |-> before, after |-> o.version, at |-> c.now,
   policy |-> "omit_required_audit_fields" \notin rewrites]

Recorded(store, facts, o, before, c, rewrites) ==
  store.audit \o [i \in DOMAIN facts |-> Event(facts[i], o, before, c, rewrites)]

(***************************************************************************)
(* #auditRejected: the refusal is committed before it is thrown.           *)
(***************************************************************************)
Refused(store, fact, o, c, rewrites, answer) ==
  Outcome([store EXCEPT !.audit = Recorded(store, <<fact>>, o, o.version, c, rewrites)], answer)

(***************************************************************************)
(* fingerprint: the command without its time.                              *)
(***************************************************************************)
Fingerprint(c) == [c EXCEPT !.now = 0]

(***************************************************************************)
(* Commit of a changed order, its request and its events.                  *)
(***************************************************************************)
Settled(store, old, new, c, facts, value, rewrites) ==
  Outcome([store EXCEPT
             !.orders = (@ \ {old}) \cup {new},
             !.requests = @ \cup {[request |-> c.request, print |-> Fingerprint(c),
                                   result |-> value, created |-> c.now]},
             !.audit = Recorded(store, facts, new, old.version, c, rewrites)],
          Gives(value))

(***************************************************************************)
(* #lookupReplay and #replayResult: a known request is answered as it was  *)
(* the first time, or refused when it asks for something else.             *)
(***************************************************************************)
Replay(store, o, c, rewrites) ==
  LET known == CHOOSE r \in store.requests : r.request = c.request
      again == \/ "duplicate_inventory_on_replay" \in rewrites
               \/ /\ "treat_expired_replay_as_fresh" \in rewrites
                  /\ c.now > known.created + IdempotencyDays
  IN  IF known.print # Fingerprint(c)
      THEN Refused(store, Fact("idempotency_conflict"), o, c, rewrites, Throws)
      ELSE IF again
      THEN Refused(store, Fact("inventory_compensated"), o, c, rewrites, Gives(known.result))
      ELSE Outcome(store, Gives(known.result))

IsReplay(store, c) == \E r \in store.requests : r.request = c.request

(***************************************************************************)
(* #finalizeCancellation.                                                  *)
(***************************************************************************)
Finalize(store, o, c, prefix, rewrites) ==
  LET refunds == o.status = "paid"
      restores == /\ o.coupon.held
                  /\ "restore_expired_coupon" \in rewrites \/ o.coupon.until >= c.now
                  /\ ~o.coupon.restored
      sum == IF ~refunds THEN 0
             ELSE IF "refund_list_amount_or_wrong_currency" \in rewrites THEN o.list ELSE o.paid
      new == [o EXCEPT
                !.status = "cancelled",
                !.withdrawal = IF o.fulfillment = "active" THEN "completed" ELSE @,
                !.reserved = FALSE,
                !.coupon.restored = restores,
                !.refund = IF refunds THEN "pending" ELSE "none",
                !.amount = sum,
                !.version = @ + 1]
      refund == [Fact("refund_requested") EXCEPT !.amount = sum, !.currency = o.currency]
      facts == prefix \o <<Fact("order_cancelled")>>
                 \o Optionally(o.reserved, Fact("inventory_compensated"))
                 \o Optionally(restores, Fact("coupon_restored"))
                 \o Optionally(refunds, refund)
                 \o Optionally(refunds /\ "malformed_refund_effect" \in rewrites,
                               [refund EXCEPT !.currency = "none"])
  IN  Settled(store, o, new, c, facts, Result(new, o.reserved, restores, refunds), rewrites)

-----------------------------------------------------------------------------
(***************************************************************************)
(* The operations.  An unknown order is refused without a trace.           *)
(***************************************************************************)
CreateOrder(store, c, rewrites) ==
  IF ValidOrder(c.draft) /\ OrdersNamed(store, c.draft.id) = {}
  THEN Outcome([store EXCEPT !.orders = @ \cup {c.draft}], Done)
  ELSE Outcome(store, Throws)

(***************************************************************************)
(* cancelOrder.  Refusal is the first check that a new command fails.      *)
(***************************************************************************)
Refusal(o, c, rewrites) ==
  IF o.customer # c.customer /\ "disable_ownership" \notin rewrites
  THEN "foreign"
  ELSE IF o.fulfillment = "handed_off" /\ "allow_handed_off_cancel" \notin rewrites
  THEN "handed off"
  ELSE IF o.status \in {"cancelled", "closed"} THEN "terminal"
  ELSE "none"

RequestWithdrawal(store, o, c, rewrites) ==
  LET new == [o EXCEPT !.withdrawal = "pending", !.version = @ + 1]
  IN  Settled(store, o, new, c, <<Fact("cancellation_requested"), Fact("withdrawal_requested")>>,
              Result(new, FALSE, FALSE, FALSE), rewrites)

BadCancelOrder(store, c, rewrites) ==
  LET o == OrderNamed(store, c.order)
  IN  IF OrdersNamed(store, c.order) = {} THEN Outcome(store, Throws)
      ELSE IF IsReplay(store, c) THEN Replay(store, o, c, rewrites)
      ELSE IF Refusal(o, c, rewrites) # "none"
      THEN Refused(store, Fact("command_rejected"), o, c, rewrites, Throws)
      ELSE IF o.fulfillment = "active" /\ o.withdrawal = "none"
      THEN RequestWithdrawal(store, o, c, rewrites)
      ELSE Finalize(store, o, c, <<>>, rewrites)

CancelOrder(store, c, rewrites) ==
  LET o == OrderNamed(store, c.order)
      refusal == Refusal(o, c, rewrites)
      reason == IF refusal = "handed off" /\ "reason_variation" \notin rewrites
                THEN "carrier_handoff_committed" ELSE "worded"
      typed == "typed_rejection" \in rewrites /\ refusal # "terminal"
  IN  IF OrdersNamed(store, c.order) = {} THEN Outcome(store, Throws)
      ELSE IF IsReplay(store, c) THEN Replay(store, o, c, rewrites)
      ELSE IF refusal # "none"
      THEN Refused(store, [Fact("command_rejected") EXCEPT !.reason = reason], o, c, rewrites,
                   IF typed THEN Declines ELSE Throws)
      ELSE IF o.fulfillment = "active" /\ "cancel_before_withdrawal" \notin rewrites
      THEN RequestWithdrawal(store, o, c, rewrites)
      ELSE Finalize(store, o, c, <<>>, rewrites)

(***************************************************************************)
(* resolveWithdrawal: what the carrier says of a pending withdrawal.       *)
(***************************************************************************)
ResolveWithdrawal(store, c, rewrites) ==
  LET o == OrderNamed(store, c.order)
      final == \/ c.outcome = "completed"
               \/ c.outcome = "rejected" /\ "apply_effects_on_withdrawal_rejection" \in rewrites
               \/ c.outcome = "failed" /\ "apply_effects_on_withdrawal_failure" \in rewrites
      new == [o EXCEPT !.withdrawal = c.outcome, !.version = @ + 1]
      fact == Fact(IF c.outcome = "rejected" THEN "withdrawal_rejected" ELSE "withdrawal_failed")
  IN  IF OrdersNamed(store, c.order) = {} THEN Outcome(store, Throws)
      ELSE IF IsReplay(store, c) THEN Replay(store, o, c, rewrites)
      ELSE IF o.withdrawal # "pending" \/ o.fulfillment # "active"
      THEN Refused(store, Fact("command_rejected"), o, c, rewrites, Throws)
      ELSE IF final THEN Finalize(store, o, c, <<Fact("withdrawal_completed")>>, rewrites)
      ELSE Settled(store, o, new, c, <<fact>>, Result(new, FALSE, FALSE, FALSE), rewrites)

(***************************************************************************)
(* markRefunded.  Its event takes request and time of the order's last     *)
(* event, whatever that is.                                                *)
(***************************************************************************)
MarkRefunded(store, c, rewrites) ==
  LET o == OrderNamed(store, c.order)
      new == [o EXCEPT !.refund = "refunded", !.version = @ + 1]
      last == Last(EventsOf(store, c.order))
      fact == [Fact("refund_completed") EXCEPT !.amount = o.amount, !.currency = o.currency]
      cause == [request |-> last.request, provider |-> "none", now |-> last.at]
  IN  IF OrdersNamed(store, c.order) = {} THEN Outcome(store, Throws)
      ELSE IF o.refund = "refunded" THEN Outcome(store, Gives(o))
      ELSE IF o.status # "cancelled" \/ o.refund # "pending" THEN Outcome(store, Throws)
      ELSE IF EventsOf(store, c.order) = <<>> THEN Outcome(store, Throws)
      ELSE Outcome([store EXCEPT !.orders = (@ \ {o}) \cup {new},
                      !.audit = Recorded(store, <<fact>>, new, o.version, cause, rewrites)],
                   Gives(new))

(***************************************************************************)
(* getOrder gives null for an order it does not know.                      *)
(***************************************************************************)
GetOrder(store, c, rewrites) ==
  Outcome(store, [form |-> "value", value |-> SetToSeq(OrdersNamed(store, c.order))])

GetAuditEvents(store, c, rewrites) == Outcome(store, Gives(EventsOf(store, c.order)))

GetRetentionPolicy(store, c, rewrites) ==
  Outcome(store, Gives([idempotencyDays |-> IdempotencyDays, financialAndOrderDays |-> 2555,
                        securityConflictDays |-> 365, deliveryDiagnosticDays |-> 90]))

(***************************************************************************)
(* The base of the pack: every method throws.                              *)
(***************************************************************************)
NotImplemented(store) == Outcome(store, Throws)

Operate(store, c, rewrites) ==
  IF "not_implemented" \in rewrites THEN NotImplemented(store)
  ELSE CASE c.op = "create" -> CreateOrder(store, c, rewrites)
         [] c.op = "cancel" -> CancelOrder(store, c, rewrites)
         [] c.op = "withdrawal" -> ResolveWithdrawal(store, c, rewrites)
         [] c.op = "refunded" -> MarkRefunded(store, c, rewrites)
         [] c.op = "get" -> GetOrder(store, c, rewrites)
         [] c.op = "audit" -> GetAuditEvents(store, c, rewrites)
         [] c.op = "retention" -> GetRetentionPolicy(store, c, rewrites)

-----------------------------------------------------------------------------
(***************************************************************************)
(* Commands.  A withdrawal has a provider and an outcome, a cancellation   *)
(* a customer.                                                             *)
(***************************************************************************)
Creation(draft) == [op |-> "create", draft |-> draft]
Cancellation(id, customer, request, now) ==
  [op |-> "cancel", order |-> id, customer |-> customer, request |-> request,
   provider |-> "none", now |-> now]
Withdrawal(id, request, outcome, now) ==
  [op |-> "withdrawal", order |-> id, request |-> request, provider |-> "carrier",
   outcome |-> outcome, now |-> now]
Query(op, id) == [op |-> op, order |-> id]

(***************************************************************************)
(* A driver process of an oracle (DRIVER_SOURCE): it opens the service and *)
(* calls it, one call after the other; calls given at once are queued by   *)
(* the service.  disk is empty until the service makes its file.           *)
(***************************************************************************)
Opened(session, rewrites) ==
  IF session.disk = <<>> \/ "not_implemented" \in rewrites
  THEN [session EXCEPT !.up = TRUE, !.memory = EmptyStore(rewrites),
          !.disk = IF "not_implemented" \in rewrites THEN @ ELSE <<EmptyStore(rewrites)>>,
          !.answers = Append(@, Done)]
  ELSE IF ValidStore(session.disk[1], rewrites)
  THEN [session EXCEPT !.up = TRUE, !.memory = session.disk[1],
          !.answers = Append(@, Done)]
  ELSE [session EXCEPT !.up = FALSE, !.answers = Append(@, Throws)]

Served(session, done, rewrites) ==
  [session EXCEPT
     !.memory = done.store,
     !.disk = IF "skip_cancellation_persist" \in rewrites \/ done.store = session.memory
              THEN @ ELSE <<done.store>>,
     !.answers = Append(@, done.answer)]

Called(session, c, rewrites) ==
  IF session.up THEN Served(session, Operate(session.memory, c, rewrites), rewrites)
  ELSE [session EXCEPT !.answers = Append(@, Throws)]

NewSession(rewrites) ==
  [disk |-> <<>>, memory |-> EmptyStore(rewrites), up |-> FALSE, answers |-> <<>>]

(* The answers to a list of calls; each "open" begins a new process.        *)
Opening == [op |-> "open"]
Answers(calls, rewrites) ==
  FoldLeft(LAMBDA session, c : IF c.op = "open" THEN Opened(session, rewrites)
                               ELSE Called(session, c, rewrites),
           NewSession(rewrites), calls).answers

(***************************************************************************)
(* The order that both oracles vary.                                       *)
(***************************************************************************)
Unpaid ==
  [id |-> "order", customer |-> "customer", status |-> "pending_payment",
   fulfillment |-> "not_started", withdrawal |-> "none", list |-> 10, paid |-> 0,
   currency |-> "USD", reserved |-> FALSE, coupon |-> NoCoupon, refund |-> "none",
   amount |-> 0, version |-> 1]
Paid == [Unpaid EXCEPT !.status = "paid", !.paid = 8]

(* The times of the oracles' commands, in days of their year.               *)
OldDay == 0
LateDay == 91
ExpiredDay == 231
CancelDay == 232
ResolveDay == 233
ValidDay == 234

(* What both oracles ask of their order.                                   *)
Story(target, calls, rewrites) == Answers(<<Opening, Creation(target)>> \o calls, rewrites)

CancelBy(customer, request) == Cancellation("order", customer, request, CancelDay)
Cancel == CancelBy("customer", "request")
Resolve(outcome) == Withdrawal("order", "withdrawal", outcome, ResolveDay)
Get == Query("get", "order")
Audit == Query("audit", "order")

Active == [Paid EXCEPT !.fulfillment = "active", !.reserved = TRUE]

(***************************************************************************)
(* The Candidates of mutations.json and equivalent-variants.json, and how  *)
(* each is made of Gold (applyOperation, transform).                       *)
(***************************************************************************)
RewriteOf ==
  "red" :> "not_implemented"
  @@ "mutant-handed-off-cancel" :> "allow_handed_off_cancel"
  @@ "mutant-overrefund-or-currency" :> "refund_list_amount_or_wrong_currency"
  @@ "mutant-premature-cancel" :> "cancel_before_withdrawal"
  @@ "mutant-withdrawal-rejection-effects" :> "apply_effects_on_withdrawal_rejection"
  @@ "mutant-withdrawal-failure-effects" :> "apply_effects_on_withdrawal_failure"
  @@ "mutant-double-effects" :> "duplicate_inventory_on_replay"
  @@ "mutant-coupon-always-restored" :> "restore_expired_coupon"
  @@ "mutant-no-ownership" :> "disable_ownership"
  @@ "mutant-no-persistence" :> "skip_cancellation_persist"
  @@ "mutant-expired-replay-fresh" :> "treat_expired_replay_as_fresh"
  @@ "mutant-sparse-audit" :> "omit_required_audit_fields"
  @@ "equivalent-typed-rejection" :> "typed_rejection"
  @@ "equivalent-reason-variation" :> "reason_variation"
  @@ "equivalent-persistence-layout" :> "persistence_layout"
  @@ "relaxation-malformed-refund-effect" :> "malformed_refund_effect"

(* Gold itself, its repetition and its next seed are rewritten nowhere.     *)
Rewrites(candidate) ==
  IF candidate \in DOMAIN RewriteOf THEN {RewriteOf[candidate]} ELSE {}
=============================================================================
