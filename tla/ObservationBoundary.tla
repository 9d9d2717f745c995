------------------------- MODULE ObservationBoundary ------------------------
(***************************************************************************)
(* The observation boundary of the Commerce order pack, version 3          *)
(* (oracle/runner.mjs of the pack, src/phase3c/compiler, observation,      *)
(* observation-runner, commerce-observation-runner, calibration).          *)
(*                                                                         *)
(* A Candidate is no longer asked to pass checks: scenarios are played to  *)
(* it, what it says is brought to a normal form, and expressions over the  *)
(* forms decide each Claim.  Calibration measures Candidates whose faults  *)
(* are known, equivalents of Gold that must not be turned down, and one    *)
(* that only a normal form which is too lenient lets through.              *)
(***************************************************************************)
EXTENDS OrderStore

CONSTANTS
  Seed,           (* The seed of the admission.                            *)
  MaxDisturbed    (* Bound: measurements that are disturbed.               *)

VARIABLES
  stage,       (* compiling, measuring, refused, admitted or rejected.     *)
  results,     (* The measured Candidates, in the order of Calibration.    *)
  disturbed,   (* Measurements disturbed so far.                           *)
  cases        (* The measurements that admission was given.               *)

boundaryVars == <<stage, results, disturbed, cases>>

-----------------------------------------------------------------------------
(***************************************************************************)
(* Normal forms.  What is missing is the empty sequence.                   *)
(***************************************************************************)
StatusOf(answer) == IF answer.form = "value" THEN "accepted" ELSE "rejected"
OrderOf(answer) == IF answer.form = "value" THEN <<answer.value[1].order>> ELSE <<>>
EventsIn(answer) == IF answer.form = "value" THEN answer.value[1] ELSE <<>>
Either(order, fallback) == IF order # <<>> THEN order ELSE fallback

AuditStatus(answer) ==
  IF answer.form = "value" /\ \A i \in DOMAIN EventsIn(answer) : EventsIn(answer)[i].policy
  THEN "accepted" ELSE "unavailable"

NormalizedState(order) ==
  [i \in DOMAIN order |->
     LET o == order[i]
     IN  [order_status |-> o.status, fulfillment_state |-> o.fulfillment,
          withdrawal_state |-> o.withdrawal, refund_status |-> o.refund,
          refund_amount |-> o.amount, currency |-> o.currency,
          inventory_reserved |-> o.reserved, version |-> o.version,
          coupon_state |-> IF ~o.coupon.held THEN "absent"
                           ELSE IF o.coupon.restored THEN "restored"
                           ELSE IF o.coupon.until >= CancelDay THEN "eligible" ELSE "expired"]]

EffectIds == {"order_cancelled", "refund_requested", "inventory_compensated", "coupon_restored",
              "command_rejected", "withdrawal_requested", "withdrawal_completed",
              "idempotency_conflict"}

Malformed(e) == e.type = "refund_requested" /\ e.currency # "USD"

Effect(e) ==
  [effect |-> e.type, order |-> e.order, key |-> e.request,
   amount |-> IF e.type = "refund_requested" THEN e.amount ELSE 0,
   currency |-> IF e.type = "refund_requested" THEN e.currency ELSE "none",
   provider |-> IF e.type \notin {"withdrawal_requested", "withdrawal_completed"} THEN "none"
                ELSE IF e.provider # "none" THEN e.provider ELSE e.request]

(* An effect that is malformed is left out, and nothing else.               *)
BadEffects(events) ==
  LET kept == SelectSeq(events, LAMBDA e : e.type \in EffectIds /\ ~Malformed(e))
  IN  [i \in DOMAIN kept |-> Effect(kept[i])]

(* One malformed effect takes all of its kind with it.                      *)
Effects(events) ==
  LET invalid == {e.type : e \in {f \in ToSet(events) : Malformed(f)}}
      kept == SelectSeq(events, LAMBDA e : e.type \in EffectIds \ invalid)
  IN  [i \in DOMAIN kept |-> Effect(kept[i])]

NormalForm(status, order, events, relations) ==
  [status |-> status, state |-> NormalizedState(order), effects |-> Effects(events),
   relations |-> relations]
NoForm == NormalForm("unavailable", <<>>, <<>>, {})

Context(operations, forms, age) == [operations |-> operations, forms |-> forms, age |-> age]

(***************************************************************************)
(* A scenario whose Candidate rejects a call that the scenario cannot do   *)
(* without (CandidateOperationRejected) shows nothing to have happened.    *)
(***************************************************************************)
Never == 9999
Operations == {"create_order", "cancel_order", "resolve_withdrawal", "mark_refunded",
               "get_order", "get_audit", "get_retention"}
Unavailable ==
  Context([o \in Operations |-> "unavailable"],
          [s \in {"before", "after", "first", "replay", "restart"} |-> NoForm], Never)
Needs(a, required, context) ==
  IF \A i \in required : a[i].form = "value" THEN context ELSE Unavailable

-----------------------------------------------------------------------------
(***************************************************************************)
(* The scenarios: the calls, what of the answers is needed, and what is    *)
(* read off them.  The first two calls open the service and create.        *)
(***************************************************************************)
PaidUnstarted(rewrites) ==
  LET target == [Paid EXCEPT !.reserved = TRUE]
      Seen(a) ==
        Needs(a, {1}, Context(
          "create_order" :> StatusOf(a[2]) @@ "cancel_order" :> StatusOf(a[3])
            @@ "get_audit" :> AuditStatus(a[4]) @@ "get_order" :> StatusOf(a[5])
            @@ "mark_refunded" :> StatusOf(a[6]),
          "before" :> NormalForm("accepted", <<target>>, <<>>, {})
            @@ "after" :> NormalForm(StatusOf(a[3]), Either(a[5].value, OrderOf(a[3])),
                                     EventsIn(a[4]), {})
            @@ "replay" :> NormalForm(StatusOf(a[6]), a[6].value, EventsIn(a[7]), {}),
          Never))
  IN  Seen(Story(target, <<Cancel, Audit, Get, Query("refunded", "order"), Audit>>, rewrites))

ActiveCompletion(rewrites) ==
  LET Seen(a) ==
        LET events == EventsIn(a[5])
            First(type) == SelectInSeq(events, LAMBDA e : e.type = type)
            ordered == /\ First("withdrawal_completed") # 0
                       /\ First("withdrawal_completed") < First("order_cancelled")
        IN  Needs(a, {1, 2, 3}, Context(
              "cancel_order" :> "accepted" @@ "resolve_withdrawal" :> StatusOf(a[4]),
              "before" :> NormalForm("accepted", OrderOf(a[3]), events, {})
                @@ "after" :> NormalForm(StatusOf(a[4]), OrderOf(a[4]), events,
                                IF ordered THEN {"withdrawal_before_cancellation"} ELSE {}),
              Never))
  IN  Seen(Story(Active, <<Cancel, Resolve("completed"), Audit>>, rewrites))

(* Two scenarios: the carrier has the order, or a stranger asks.            *)
Rejection(target, customer, rewrites) ==
  LET Seen(a) ==
        Needs(a, {1, 2, 4}, Context(
          "cancel_order" :> StatusOf(a[3]),
          "after" :> NormalForm(StatusOf(a[3]), a[4].value, EventsIn(a[5]), {}), Never))
  IN  Seen(Story(target, <<CancelBy(customer, "request"), Get, Audit>>, rewrites))

(* Two scenarios: the carrier rejects the withdrawal, or fails.             *)
Unwithdrawn(target, outcome, rewrites) ==
  LET Seen(a) ==
        Needs(a, {1, 2, 3}, Context(
          "resolve_withdrawal" :> StatusOf(a[4]),
          "after" :> NormalForm(StatusOf(a[4]), OrderOf(a[4]), EventsIn(a[5]), {}), Never))
  IN  Seen(Story(target, <<Cancel, Resolve(outcome), Audit>>, rewrites))

CouponEligibility(rewrites) ==
  LET valid == [Unpaid EXCEPT !.reserved = TRUE, !.coupon = Coupon(ValidDay)]
      expired == [valid EXCEPT !.coupon = Coupon(ExpiredDay), !.id = "expired"]
      Seen(a) ==
        Needs(a, {1, 2, 3, 4, 6}, Context(
          "cancel_order" :> "accepted",
          "after" :> NormalForm("accepted", OrderOf(a[4]), EventsIn(a[5]), {})
            @@ "replay" :> NormalForm("accepted", OrderOf(a[6]), EventsIn(a[7]), {}), Never))
  IN  Seen(Story(valid, <<Creation(expired), Cancel, Audit,
                           Cancellation("expired", "customer", "other", CancelDay),
                           Query("audit", "expired")>>, rewrites))

Same(holds) == IF holds THEN {"request_replay_same_as_first"} ELSE {}

RequestReplay(rewrites) ==
  LET Seen(a) ==
        Needs(a, {1, 2, 3, 5}, Context(
          "cancel_order" :> "accepted",
          "first" :> NormalForm("accepted", OrderOf(a[3]), EventsIn(a[4]), {})
            @@ "replay" :> NormalForm("accepted", OrderOf(a[5]), EventsIn(a[7]),
                                      Same(a[3] = a[5])), Never))
  IN  Seen(Story([Unpaid EXCEPT !.reserved = TRUE],
                  <<Cancel, Audit, Cancel, CancelBy("stranger", "request"), Audit>>, rewrites))

ExpiredReplay(rewrites) ==
  LET old == [Cancel EXCEPT !.now = OldDay]
      Seen(a) ==
        LET first == NormalForm("accepted", OrderOf(a[3]), EventsIn(a[4]), {})
            base == NormalForm(StatusOf(a[5]), Either(OrderOf(a[5]), a[6].value),
                               EventsIn(a[7]), {})
            preserved == IF a[5].form = "value" THEN a[3] = a[5]
                         ELSE first.state = base.state /\ first.effects = base.effects
        IN  Needs(a, {1, 2, 3, 6, 8}, Context(
              "cancel_order" :> StatusOf(a[5]) @@ "get_retention" :> "accepted",
              "first" :> first @@ "replay" :> [base EXCEPT !.relations = Same(preserved)],
              a[8].value[1].idempotencyDays))
  IN  Seen(Story([Paid EXCEPT !.reserved = TRUE],
                  <<old, Audit, [old EXCEPT !.now = LateDay], Get, Audit,
                    Query("retention", "order")>>, rewrites))

RestartRecovery(rewrites) ==
  LET Seen(a) ==
        LET before == NormalForm(StatusOf(a[3]), Either(OrderOf(a[3]), a[4].value),
                                 EventsIn(a[5]), {})
            reopened == a[6].form = "value"
            base == NormalForm(StatusOf(a[8]), a[7].value, EventsIn(a[8]), {})
            kept == IF before = base THEN {"restart_preserves_public_state"} ELSE {}
            needed == {1, 2} \cup (IF a[3].form = "value" THEN {} ELSE {4})
                             \cup (IF reopened THEN {7} ELSE {})
        IN  Needs(a, needed, Context(
              "cancel_order" :> StatusOf(a[3])
                @@ "get_order" :> (IF reopened THEN "accepted" ELSE "unavailable")
                @@ "get_audit" :> (IF reopened THEN AuditStatus(a[8]) ELSE "unavailable"),
              "before" :> before
                @@ "restart" :> (IF reopened THEN [base EXCEPT !.relations = kept] ELSE NoForm),
              Never))
  IN  Seen(Story(Active, <<Cancel, Get, Audit, Opening, Get, Audit>>, rewrites))

Retention(rewrites) ==
  LET target == [Paid EXCEPT !.reserved = TRUE]
      Seen(a) ==
        Needs(a, {1, 2}, Context(
          "cancel_order" :> StatusOf(a[3]) @@ "get_audit" :> AuditStatus(a[4])
            @@ "get_retention" :> StatusOf(a[5]),
          "after" :> NormalForm(StatusOf(a[5]), Either(OrderOf(a[3]), <<target>>),
                                EventsIn(a[4]), {}),
          IF a[5].form = "value" THEN a[5].value[1].idempotencyDays ELSE Never))
  IN  Seen(Story(target, <<Cancel, Audit, Query("retention", "order")>>, rewrites))

Scenarios(rewrites) ==
     "paid-unstarted" :> PaidUnstarted(rewrites)
  @@ "active-completion" :> ActiveCompletion(rewrites)
  @@ "handoff-rejection" :>
       Rejection([Paid EXCEPT !.fulfillment = "handed_off"], "customer", rewrites)
  @@ "ownership-rejection" :> Rejection(Paid, "stranger", rewrites)
  @@ "active-rejection" :>
       Unwithdrawn([Active EXCEPT !.coupon = Coupon(ValidDay)], "rejected", rewrites)
  @@ "active-failure" :> Unwithdrawn(Active, "failed", rewrites)
  @@ "coupon-eligibility" :> CouponEligibility(rewrites)
  @@ "request-replay" :> RequestReplay(rewrites)
  @@ "expired-replay" :> ExpiredReplay(rewrites)
  @@ "restart-recovery" :> RestartRecovery(rewrites)
  @@ "retention-policy" :> Retention(rewrites)

-----------------------------------------------------------------------------
(***************************************************************************)
(* Observation expressions.  All of the boundary's are conjunctions of     *)
(* atoms (all_of), here sequences of them.                                 *)
(***************************************************************************)
FormAt(c, slot) == IF slot \in DOMAIN c.forms THEN c.forms[slot] ELSE NoForm
EffectsAt(c, slot, effect) ==
  SelectSeq(FormAt(c, slot).effects, LAMBDA e : effect \in {"all", e.effect})
FieldAt(c, slot, field) ==
  LET state == FormAt(c, slot).state
  IN  [i \in DOMAIN state |-> state[i][field]]

Returns(operation, status) == [atom |-> "operation", of |-> operation, status |-> status]
State(slot, field, value) ==
  [atom |-> "state", of |-> field, slot |-> slot, value |-> <<value>>]
Moved(slot, field) == [atom |-> "moved", of |-> field, slot |-> slot]
Unchanged(slot, field) == [atom |-> "unchanged", of |-> field, slot |-> slot]
Effected(slot, effect, n) == [atom |-> "count", of |-> effect, slot |-> slot, n |-> n]
Attribute(slot, effect, field, value) ==
  [atom |-> "attribute", of |-> effect, slot |-> slot, field |-> field, value |-> value]
Alike(left, right, effect) == [atom |-> "alike", of |-> effect, left |-> left, right |-> right]
Related(relation) == [atom |-> "relation", of |-> relation]
Within(days) == [atom |-> "retention", of |-> "window", days |-> days]

SameMultiset(s, t) ==
  \A e \in ToSet(s) \cup ToSet(t) :
    Len(SelectSeq(s, LAMBDA f : f = e)) = Len(SelectSeq(t, LAMBDA f : f = e))

Holds(x, c) ==
  CASE x.atom = "operation" -> x.of \in DOMAIN c.operations /\ c.operations[x.of] = x.status
    [] x.atom = "state" -> FieldAt(c, x.slot, x.of) = x.value
    [] x.atom = "moved" -> /\ FieldAt(c, x.slot, x.of) # <<>> /\ FieldAt(c, "before", x.of) # <<>>
                           /\ FieldAt(c, x.slot, x.of) # FieldAt(c, "before", x.of)
    [] x.atom = "unchanged" -> FieldAt(c, x.slot, x.of) = FieldAt(c, "before", x.of)
    [] x.atom = "count" -> Len(EffectsAt(c, x.slot, x.of)) = x.n
    [] x.atom = "attribute" ->
         LET found == EffectsAt(c, x.slot, x.of)
         IN  found # <<>> /\ \A i \in DOMAIN found : found[i][x.field] = x.value
    [] x.atom = "alike" -> SameMultiset(EffectsAt(c, x.left, x.of), EffectsAt(c, x.right, x.of))
    [] x.atom = "relation" -> \E slot \in DOMAIN c.forms : x.of \in c.forms[slot].relations
    [] x.atom = "retention" -> c.age <= x.days

(***************************************************************************)
(* What an atom observes (deriveExpressionDimensions), and all there is to *)
(* observe (PHASE3C_DIMENSIONS).                                           *)
(***************************************************************************)
StateFields == {"order_status", "fulfillment_state", "withdrawal_state", "refund_status",
                "refund_amount", "currency", "inventory_reserved", "coupon_state", "version"}
Relations == {"withdrawal_before_cancellation", "request_replay_same_as_first",
              "restart_preserves_public_state"}
Dimensions ==
  ({"operation"} \X Operations) \cup ({"state"} \X StateFields) \cup ({"effect"} \X EffectIds)
    \cup ({"relation"} \X Relations) \cup {<<"retention", "window">>}

Observes(x) ==
  CASE x.atom \in {"state", "moved", "unchanged"} -> {<<"state", x.of>>}
    [] x.atom \in {"count", "attribute", "alike"} ->
         {"effect"} \X (IF x.of = "all" THEN EffectIds ELSE {x.of})
    [] OTHER -> {<<x.atom, x.of>>}

(***************************************************************************)
(* PHASE3C_SCENARIOS: the Claim that each scenario decides, and by what.   *)
(***************************************************************************)
Binding(scenario, claim, atoms) == [scenario |-> scenario, claim |-> claim, atoms |-> atoms]
NoEffects == <<Effected("after", "order_cancelled", 0), Effected("after", "refund_requested", 0),
               Effected("after", "inventory_compensated", 0),
               Effected("after", "coupon_restored", 0)>>

PaidBindings == <<
  Binding("paid-unstarted", "R01",
    <<Returns("create_order", "accepted"), Returns("cancel_order", "accepted"),
      Returns("get_order", "accepted"), State("after", "order_status", "cancelled"),
      State("after", "fulfillment_state", "not_started"),
      State("after", "withdrawal_state", "none"), State("after", "refund_status", "pending"),
      Moved("after", "version"), Effected("after", "order_cancelled", 1)>>),
  Binding("paid-unstarted", "R02",
    <<Returns("mark_refunded", "accepted"), State("after", "order_status", "cancelled"),
      State("after", "refund_status", "pending"), State("replay", "order_status", "cancelled"),
      State("replay", "refund_status", "refunded")>>),
  Binding("paid-unstarted", "R03",
    <<State("after", "refund_amount", 8), State("after", "currency", "USD"),
      Effected("after", "refund_requested", 1),
      Attribute("after", "refund_requested", "amount", 8)>>),
  Binding("paid-unstarted", "R04",
    <<State("after", "currency", "USD"),
      Attribute("after", "refund_requested", "currency", "USD")>>),
  Binding("paid-unstarted", "D03",
    <<State("after", "inventory_reserved", FALSE),
      Effected("after", "inventory_compensated", 1)>>)>>

WithdrawalBindings == <<
  Binding("active-completion", "R07",
    <<Returns("resolve_withdrawal", "accepted"), State("after", "order_status", "cancelled"),
      State("after", "withdrawal_state", "completed"), State("after", "refund_status", "pending"),
      Effected("after", "withdrawal_requested", 1),
      Effected("after", "withdrawal_completed", 1)>>),
  Binding("active-completion", "D02",
    <<State("after", "fulfillment_state", "active"),
      Related("withdrawal_before_cancellation")>>),
  Binding("active-rejection", "D02",
    <<Returns("resolve_withdrawal", "accepted"), State("after", "order_status", "paid"),
      State("after", "withdrawal_state", "rejected")>> \o NoEffects),
  Binding("active-failure", "D02",
    <<Returns("resolve_withdrawal", "accepted"), State("after", "order_status", "paid"),
      State("after", "withdrawal_state", "failed")>> \o NoEffects)>>

RefusalBindings == <<
  Binding("handoff-rejection", "D01",
    <<Returns("cancel_order", "rejected"), State("after", "fulfillment_state", "handed_off"),
      Effected("after", "command_rejected", 1)>>),
  Binding("ownership-rejection", "R05",
    <<Returns("cancel_order", "rejected"), Effected("after", "command_rejected", 1)>>),
  Binding("coupon-eligibility", "D04",
    <<State("after", "coupon_state", "restored"), State("replay", "coupon_state", "expired"),
      Effected("after", "coupon_restored", 1), Effected("replay", "coupon_restored", 0)>>)>>

RecoveryBindings == <<
  Binding("request-replay", "R06",
    <<Effected("replay", "idempotency_conflict", 1), Effected("replay", "inventory_compensated", 1),
      Effected("replay", "refund_requested", 0), Related("request_replay_same_as_first"),
      Alike("first", "replay", "order_cancelled")>>),
  Binding("expired-replay", "D07",
    <<Related("request_replay_same_as_first"), Alike("first", "replay", "all"), Within(90)>>),
  Binding("restart-recovery", "R08",
    <<Returns("cancel_order", "accepted"), Returns("get_order", "accepted"),
      Returns("get_audit", "accepted"), Related("restart_preserves_public_state"),
      Alike("before", "restart", "all")>>),
  Binding("restart-recovery", "D08",
    <<Returns("cancel_order", "accepted"), Related("restart_preserves_public_state"),
      Unchanged("restart", "version")>>),
  Binding("retention-policy", "D09",
    <<Returns("cancel_order", "accepted"), Returns("get_audit", "accepted"),
      Returns("get_retention", "accepted"), Effected("after", "order_cancelled", 1),
      Within(90)>>)>>

Bindings == PaidBindings \o WithdrawalBindings \o RefusalBindings \o RecoveryBindings

ClaimIds == {Bindings[b].claim : b \in DOMAIN Bindings}
ObservationId(b) == <<Bindings[b].scenario, Bindings[b].claim>>
Observations(from) == {ObservationId(b) : b \in from}
Covered ==
  Dimensions = UNION {UNION {Observes(Bindings[b].atoms[i]) : i \in DOMAIN Bindings[b].atoms} :
                        b \in DOMAIN Bindings}

Decided(b, context) ==
  IF \A i \in DOMAIN Bindings[b].atoms : Holds(Bindings[b].atoms[i], context)
  THEN "pass" ELSE "fail"

-----------------------------------------------------------------------------
(***************************************************************************)
(* PHASE3C_OBSERVATION_CALIBRATION.                                        *)
(***************************************************************************)
Case(candidate, kind, failures) ==
  [candidate |-> candidate, kind |-> kind, failures |-> failures,
   seed |-> IF candidate = "gold-next-seed" THEN Seed + 1 ELSE Seed]
Unwithdrawals == {<<"active-rejection", "D02">>, <<"active-failure", "D02">>}

Calibration == <<
  Case("red", "mutant", Observations(DOMAIN Bindings)),
  Case("gold", "gold", {}),
  Case("gold-repeat", "equivalent", {}),
  Case("gold-next-seed", "equivalent", {}),
  Case("equivalent-typed-rejection", "equivalent", {}),
  Case("equivalent-reason-variation", "equivalent", {}),
  Case("equivalent-persistence-layout", "equivalent", {}),
  Case("relaxation-malformed-refund-effect", "relaxation_mutant",
       {<<"paid-unstarted", "R03">>, <<"paid-unstarted", "R04">>}),
  Case("mutant-handed-off-cancel", "mutant", {<<"handoff-rejection", "D01">>}),
  Case("mutant-overrefund-or-currency", "mutant", {<<"paid-unstarted", "R03">>}),
  Case("mutant-premature-cancel", "mutant",
       {<<"active-completion", "R07">>, <<"active-completion", "D02">>} \cup Unwithdrawals),
  Case("mutant-withdrawal-rejection-effects", "mutant", {<<"active-rejection", "D02">>}),
  Case("mutant-withdrawal-failure-effects", "mutant", {<<"active-failure", "D02">>}),
  Case("mutant-double-effects", "mutant",
       {<<"request-replay", "R06">>, <<"expired-replay", "D07">>}),
  Case("mutant-coupon-always-restored", "mutant", {<<"coupon-eligibility", "D04">>}),
  Case("mutant-no-ownership", "mutant", {<<"ownership-rejection", "R05">>}),
  Case("mutant-no-persistence", "mutant",
       {<<"restart-recovery", "R08">>, <<"restart-recovery", "D08">>}),
  Case("mutant-expired-replay-fresh", "mutant", {<<"expired-replay", "D07">>}),
  Case("mutant-sparse-audit", "mutant",
       {<<"restart-recovery", "R08">>, <<"restart-recovery", "D08">>,
        <<"retention-policy", "D09">>})>>

(***************************************************************************)
(* runDeterministicObservations of an undisturbed Candidate.               *)
(***************************************************************************)
TrueResults ==
  [i \in DOMAIN Calibration |->
     LET contexts == Scenarios(Rewrites(Calibration[i].candidate))
     IN  [statuses |-> [b \in DOMAIN Bindings |-> Decided(b, contexts[Bindings[b].scenario])],
          valid |-> TRUE]]

Turn == Len(results) + 1
Measuring == stage = "measuring" /\ Len(results) < Len(Calibration)
Measured(result) ==
  /\ results' = Append(results, result)
  /\ UNCHANGED <<stage, cases>>
Disturb == disturbed < MaxDisturbed /\ disturbed' = disturbed + 1
PlayedBy(scenario) == {b \in DOMAIN Bindings : Bindings[b].scenario = scenario}
Played == {Bindings[b].scenario : b \in DOMAIN Bindings}

-----------------------------------------------------------------------------
BoundaryInit == stage = "compiling" /\ results = <<>> /\ disturbed = 0 /\ cases = {}

(***************************************************************************)
(* compilePhase3cObservationBoundary: the Claims must be those of the      *)
(* bindings, and the bindings must observe every dimension.                *)
(***************************************************************************)
CompileBoundary ==
  /\ stage = "compiling"
  /\ \E claims \in {ClaimIds, ClaimIds \ {"D04"}, ClaimIds \cup {"D10"}} :
       stage' = IF claims = ClaimIds /\ Covered THEN "measuring" ELSE "refused"
  /\ UNCHANGED <<results, disturbed, cases>>

MeasureCandidate == Measuring /\ Measured(TrueResults[Turn]) /\ UNCHANGED disturbed

(* The process of a scenario is killed, fails, floods its output, or says   *)
(* what does not parse: the error is cached for all that ask the scenario.  *)
ScenarioErrs ==
  /\ Measuring /\ Disturb
  /\ \E scenario \in Played :
       Measured([statuses |-> [b \in DOMAIN Bindings |->
                                 IF b \in PlayedBy(scenario) THEN "error"
                                 ELSE TrueResults[Turn].statuses[b]],
                 valid |-> FALSE])

(* The Candidate dies under a call that the scenario cannot do without.     *)
CandidateDies ==
  /\ Measuring /\ Disturb
  /\ \E scenario \in Played :
       Measured([TrueResults[Turn] EXCEPT
                   !.statuses = [b \in DOMAIN Bindings |->
                                   IF b \in PlayedBy(scenario) THEN Decided(b, Unavailable)
                                   ELSE @[b]]])

(* The tree of the Candidate is not what it was.                            *)
TreeDrifts ==
  /\ Measuring /\ Disturb
  /\ Measured([TrueResults[Turn] EXCEPT !.valid = FALSE])

(***************************************************************************)
(* buildObservationBoundaryAdmission takes results of one seed: it throws  *)
(* for another one, and for a measurement that is not valid.               *)
(***************************************************************************)
Failing(i) == Observations({b \in DOMAIN Bindings : results[i].statuses[b] = "fail"})
Matches(i) == Failing(i) = Calibration[i].failures

AdmitBoundary ==
  /\ stage = "measuring" /\ Len(results) = Len(Calibration)
  /\ cases' \in {DOMAIN Calibration, {i \in DOMAIN Calibration : Calibration[i].seed = Seed}}
  /\ stage' = IF \E i \in cases' : ~results[i].valid \/ Calibration[i].seed # Seed THEN "refused"
              ELSE IF \A i \in cases' : Matches(i) THEN "admitted" ELSE "rejected"
  /\ UNCHANGED <<results, disturbed>>

BoundaryNext ==
  CompileBoundary \/ MeasureCandidate \/ ScenarioErrs \/ CandidateDies \/ TreeDrifts
    \/ AdmitBoundary

BoundarySpec == BoundaryInit /\ [][BoundaryNext]_boundaryVars

-----------------------------------------------------------------------------
(***************************************************************************)
(* The boundary is admitted when, and of what was measured at its seed     *)
(* only when, every Candidate was measured as its source calls for: no     *)
(* equivalent of Gold is turned down, no rewriting passes, a refund that   *)
(* is reported twice and once wrongly does not pass for one, and neither a *)
(* dead process nor a changed tree goes unnoticed                          *)
(* (buildObservationBoundaryAdmission, PHASE3C_OBSERVATION_CALIBRATION).   *)
(***************************************************************************)
AdmittedIffMeasured ==
  cases # {} =>
    (stage = "admitted" <=>
       \A i \in cases : results[i] = TrueResults[i] /\ Calibration[i].seed = Seed)
=============================================================================
