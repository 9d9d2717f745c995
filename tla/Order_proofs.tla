----------------------------- MODULE Order_proofs -----------------------------
(***************************************************************************)
(* Proofs about the order service, for any orders that clients create and  *)
(* any commands they give, and any number of calls.                        *)
(***************************************************************************)
EXTENDS OrderService, FiniteSetTheorems, TLAPS

(* What clients ask for.                                                   *)
Calls == OrderCommands \cup {Creation(d) : d \in Drafts}

(* The fields of an order.                                                 *)
Fields ==
  {"id", "customer", "status", "fulfillment", "withdrawal", "list", "paid", "currency", "reserved",
   "coupon", "refund", "amount", "version"}

(* A refund is of a cancelled order, and that awaits no carrier.           *)
Sane(o) ==
  /\ DOMAIN o = Fields /\ o.version \in Nat
  /\ o.refund # "none" => o.status = "cancelled"
  /\ o.status = "cancelled" => ~(o.withdrawal = "pending" /\ o.fulfillment = "active")

(* One order of an id, and one answer to a request.                        *)
StoreOK(s) ==
  /\ DOMAIN s = {"layout", "orders", "requests", "audit"}
  /\ \A o \in s.orders : Sane(o)
  /\ \A o, p \in s.orders : o.id = p.id => o = p
  /\ \A r, q \in s.requests : r.request = q.request => r = q

(* What a commit may do to a store: requests stay as they are, orders stay *)
(* and move on, and a settled refund stays settled.                        *)
Grows(s, u) ==
  /\ s.requests \subseteq u.requests
  /\ \A o \in s.orders : \E p \in u.orders :
       p.id = o.id /\ o.version <= p.version /\ (o.refund = "refunded" => p.refund = "refunded")

(* An answer that a client has is in the store.                            *)
Kept(t, s) ==
  t.answer.form = "value" =>
    /\ Asks(t) => \E r \in s.requests :
         r.request = t.call.request /\ r.print = Fingerprint(t.call) /\ t.answer = Gives(r.result)
    /\ t.call.op = "create" => \E o \in s.orders : o.id = t.call.draft.id
    /\ t.call.op = "refunded" => \E o \in s.orders : o.id = t.call.order /\ o.refund = "refunded"
    /\ t.call.op = "get" /\ t.answer.value # <<>> =>
         \E o \in s.orders : /\ o.id = t.call.order
                             /\ t.answer.value[1].version \in Nat
                             /\ t.answer.value[1].version <= o.version

(* What every operation comes to: a store that has grown, and an answer    *)
(* that is in it.                                                          *)
Good(s, c, out) ==
  /\ StoreOK(out.store) /\ Grows(s, out.store)
  /\ Kept([call |-> c, answer |-> out.answer], out.store)

-----------------------------------------------------------------------------
(* Versions are numbers.                                                   *)
LEMMA Versions == \A s, o : StoreOK(s) /\ o \in s.orders => o.version \in Nat
BY DEF StoreOK, Sane

(* Nothing need change.                                                    *)
LEMMA GrowsSelf == \A s : StoreOK(s) => Grows(s, s)
BY Versions DEF Grows

(* What is kept stays kept.                                                *)
LEMMA KeptGrows ==
  ASSUME NEW s, NEW u, NEW t, StoreOK(s), StoreOK(u), Grows(s, u), Kept(t, s)
  PROVE  Kept(t, u)
<1> SUFFICES ASSUME t.answer.form = "value" PROVE Kept(t, u)
  BY DEF Kept
<1>1. Asks(t) => \E r \in u.requests :
        r.request = t.call.request /\ r.print = Fingerprint(t.call) /\ t.answer = Gives(r.result)
  BY DEF Kept, Grows
<1>2. t.call.op = "create" => \E o \in u.orders : o.id = t.call.draft.id
  BY DEF Kept, Grows
<1>3. t.call.op = "refunded" => \E o \in u.orders : o.id = t.call.order /\ o.refund = "refunded"
  BY DEF Kept, Grows
<1>4. ASSUME t.call.op = "get", t.answer.value # <<>>
      PROVE  \E o \in u.orders : /\ o.id = t.call.order
                                 /\ t.answer.value[1].version \in Nat
                                 /\ t.answer.value[1].version <= o.version
  <2>1. PICK o \in s.orders : /\ o.id = t.call.order
                              /\ t.answer.value[1].version \in Nat
                              /\ t.answer.value[1].version <= o.version
    BY <1>4 DEF Kept
  <2>2. PICK p \in u.orders : p.id = o.id /\ o.version <= p.version
    BY <2>1 DEF Grows
  <2>3. o.version \in Nat /\ p.version \in Nat
    BY <2>1, <2>2, Versions
  <2> QED
    BY <2>1, <2>2, <2>3
<1> QED
  BY <1>1, <1>2, <1>3, <1>4 DEF Kept

-----------------------------------------------------------------------------
(* An operation that leaves the store as it is and gives nothing.          *)
LEMMA Nothing ==
  ASSUME NEW s, StoreOK(s), NEW c, NEW answer, answer.form # "value"
  PROVE  Good(s, c, Outcome(s, answer))
BY GrowsSelf DEF Good, Outcome, Kept

(* A refusal adds an event and gives nothing.                              *)
LEMMA Refuses ==
  ASSUME NEW s, StoreOK(s), NEW o \in s.orders, NEW c, NEW fact, NEW answer,
         answer.form # "value"
  PROVE  Good(s, c, Refused(s, fact, o, c, Gold, answer))
<1> DEFINE out == Refused(s, fact, o, c, Gold, answer)
<1>1. /\ DOMAIN out.store = DOMAIN s /\ out.store.orders = s.orders
      /\ out.store.requests = s.requests /\ out.answer = answer
  BY DEF Refused, Outcome, StoreOK
<1>2. StoreOK(out.store) /\ Grows(s, out.store)
  BY <1>1, GrowsSelf DEF StoreOK, Grows
<1> QED
  BY <1>1, <1>2 DEF Good, Kept

(* A known request is answered as the first time or refused.               *)
LEMMA Replays ==
  ASSUME NEW s, StoreOK(s), NEW o \in s.orders, NEW c, IsReplay(s, c),
         c.op \in {"cancel", "withdrawal"}
  PROVE  Good(s, c, Replay(s, o, c, Gold))
<1> DEFINE known == CHOOSE r \in s.requests : r.request = c.request
<1>1. known \in s.requests /\ known.request = c.request
  BY DEF IsReplay
<1> HIDE DEF known
<1>2. CASE known.print # Fingerprint(c)
  <2>1. Replay(s, o, c, Gold) = Refused(s, Fact("idempotency_conflict"), o, c, Gold, Throws)
    BY <1>2 DEF Replay, known
  <2> QED
    BY <2>1, Refuses DEF Throws
<1>3. CASE known.print = Fingerprint(c)
  <2>1. Replay(s, o, c, Gold) = Outcome(s, Gives(known.result))
    BY <1>3 DEF Replay, known, Gold
  <2>2. Kept([call |-> c, answer |-> Gives(known.result)], s)
    BY <1>1, <1>3 DEF Kept, Asks
  <2> QED
    BY <2>1, <2>2, GrowsSelf DEF Good, Outcome
<1> QED
  BY <1>2, <1>3

(* An order that is changed, without a request of its own.                 *)
LEMMA Changes ==
  ASSUME NEW s, StoreOK(s), NEW o \in s.orders, NEW new, Sane(new), new.id = o.id,
         new.version = o.version + 1, o.refund = "refunded" => new.refund = "refunded",
         NEW u, DOMAIN u = DOMAIN s, u.orders = (s.orders \ {o}) \cup {new},
         s.requests \subseteq u.requests,
         \A r, q \in u.requests : r.request = q.request => r = q
  PROVE  StoreOK(u) /\ Grows(s, u)
<1>1. o.version \in Nat
  BY Versions
<1>2. \A p \in s.orders \ {o} : p \in u.orders /\ p.id # o.id /\ p.version \in Nat
  BY Versions DEF StoreOK
<1>3. StoreOK(u)
  BY <1>2 DEF StoreOK
<1>4. Grows(s, u)
  BY <1>1, <1>2 DEF Grows
<1> QED
  BY <1>3, <1>4

(* A command that is accepted leaves its request with its answer.          *)
LEMMA Settles ==
  ASSUME NEW s, StoreOK(s), NEW o \in s.orders, NEW new, Sane(new), new.id = o.id,
         new.version = o.version + 1, o.refund = "refunded" => new.refund = "refunded",
         NEW c, ~IsReplay(s, c), c.op \in {"cancel", "withdrawal"}, NEW facts, NEW value
  PROVE  Good(s, c, Settled(s, o, new, c, facts, value, Gold))
<1> DEFINE out == Settled(s, o, new, c, facts, value, Gold)
           r == [request |-> c.request, print |-> Fingerprint(c), result |-> value,
                 created |-> c.now]
<1>1. /\ DOMAIN out.store = DOMAIN s /\ out.store.orders = (s.orders \ {o}) \cup {new}
      /\ out.store.requests = s.requests \cup {r} /\ out.answer = Gives(value)
  BY DEF Settled, Outcome, StoreOK
<1>2. /\ r.request = c.request /\ r.print = Fingerprint(c) /\ r.result = value
  OBVIOUS
<1> HIDE DEF out, r
<1>3. \A p, q \in out.store.requests : p.request = q.request => p = q
  BY <1>1, <1>2 DEF StoreOK, IsReplay
<1>4. StoreOK(out.store) /\ Grows(s, out.store)
  BY <1>1, <1>3, Changes
<1>5. Kept([call |-> c, answer |-> out.answer], out.store)
  BY <1>1, <1>2 DEF Kept, Asks
<1> QED
  BY <1>4, <1>5 DEF Good, out

(* A cancellation is final.                                                *)
LEMMA Finalizes ==
  ASSUME NEW s, StoreOK(s), NEW o \in s.orders, o.status # "cancelled",
         NEW c, ~IsReplay(s, c), c.op \in {"cancel", "withdrawal"}, NEW prefix
  PROVE  Good(s, c, Finalize(s, o, c, prefix, Gold))
<1> DEFINE refunds == o.status = "paid"
           restores == /\ o.coupon.held
                       /\ "restore_expired_coupon" \in Gold \/ o.coupon.until >= c.now
                       /\ ~o.coupon.restored
           sum == IF ~refunds THEN 0
                  ELSE IF "refund_list_amount_or_wrong_currency" \in Gold THEN o.list ELSE o.paid
           new == [o EXCEPT
                !.status = "cancelled",
                !.withdrawal = IF o.fulfillment = "active" THEN "completed" ELSE @,
                !.reserved = FALSE,
                !.coupon.restored = restores,
                !.refund = IF refunds THEN "pending" ELSE "none",
                !.amount = sum,
                !.version = @ + 1]
<1>1. \E facts, value : Finalize(s, o, c, prefix, Gold) = Settled(s, o, new, c, facts, value, Gold)
  BY DEF Finalize
<1>2. DOMAIN o = Fields /\ o.version \in Nat /\ o.refund = "none"
  BY DEF StoreOK, Sane
<1> HIDE DEF refunds, restores, sum
<1>3. /\ DOMAIN new = Fields /\ new.id = o.id /\ new.version = o.version + 1
      /\ new.status = "cancelled" /\ new.fulfillment = o.fulfillment
      /\ new.fulfillment = "active" => new.withdrawal = "completed"
  BY <1>2 DEF Fields
<1>4. Sane(new)
  BY <1>2, <1>3 DEF Sane
<1>5. \E facts, value : Finalize(s, o, c, prefix, Gold) = Settled(s, o, new, c, facts, value, Gold)
  BY <1>1
<1> HIDE DEF new
<1> QED
  BY <1>2, <1>3, <1>4, <1>5, Settles

-----------------------------------------------------------------------------
(* The operations, one by one.  A known order is found by its id.          *)
LEMMA Named ==
  ASSUME NEW s, NEW id, OrdersNamed(s, id) # {}
  PROVE  OrderNamed(s, id) \in s.orders /\ OrderNamed(s, id).id = id
BY DEF OrdersNamed, OrderNamed

(* cancelOrder replays, refuses, asks the carrier or cancels.              *)
LEMMA CancelGood ==
  ASSUME NEW s, StoreOK(s), NEW c, c.op = "cancel"
  PROVE  Good(s, c, CancelOrder(s, c, Gold))
<1> DEFINE o == OrderNamed(s, c.order)
           refusal == Refusal(o, c, Gold)
           out == CancelOrder(s, c, Gold)
<1>1. CASE OrdersNamed(s, c.order) = {}
  BY <1>1, Nothing DEF CancelOrder, Throws
<1>2. ASSUME OrdersNamed(s, c.order) # {} PROVE Good(s, c, out)
  <2>1. o \in s.orders /\ Sane(o)
    BY <1>2, Named DEF StoreOK, Sane
  <2>2. CASE IsReplay(s, c)
    <3>1. out = Replay(s, o, c, Gold)
      BY <1>2, <2>2 DEF CancelOrder
    <3> QED
      BY <3>1, <2>1, <2>2, Replays
  <2>3. CASE ~IsReplay(s, c) /\ refusal # "none"
    <3>1. \E fact : out = Refused(s, fact, o, c, Gold, Throws)
      BY <1>2, <2>3 DEF CancelOrder, Gold
    <3> QED
      BY <3>1, <2>1, Refuses DEF Throws
  <2>4. CASE ~IsReplay(s, c) /\ refusal = "none"
    <3>1. o.status # "cancelled"
      BY <2>4 DEF Refusal
    <3>2. CASE o.fulfillment = "active"
      <4> DEFINE new == [o EXCEPT !.withdrawal = "pending", !.version = @ + 1]
      <4>1. \E facts, value : out = Settled(s, o, new, c, facts, value, Gold)
        BY <1>2, <2>4, <3>2 DEF CancelOrder, RequestWithdrawal, Gold
      <4>2. /\ DOMAIN new = Fields /\ new.id = o.id /\ new.version = o.version + 1
            /\ new.version \in Nat /\ new.refund = o.refund /\ new.status = o.status
            /\ new.fulfillment = o.fulfillment
        BY <2>1 DEF Sane, Fields
      <4>3. Sane(new)
        BY <2>1, <3>1, <4>2 DEF Sane
      <4> HIDE DEF new
      <4> QED
        BY <2>1, <2>4, <4>1, <4>2, <4>3, Settles
    <3>3. CASE o.fulfillment # "active"
      <4>1. out = Finalize(s, o, c, <<>>, Gold)
        BY <1>2, <2>4, <3>3 DEF CancelOrder
      <4> QED
        BY <4>1, <2>1, <2>4, <3>1, Finalizes
    <3> QED
      BY <3>2, <3>3
  <2> QED
    BY <2>2, <2>3, <2>4
<1> QED
  BY <1>1, <1>2

(* resolveWithdrawal replays, refuses, cancels or keeps the order.         *)
LEMMA WithdrawalGood ==
  ASSUME NEW s, StoreOK(s), NEW c, c.op = "withdrawal", c.outcome \in Outcomes
  PROVE  Good(s, c, ResolveWithdrawal(s, c, Gold))
<1> DEFINE o == OrderNamed(s, c.order)
           out == ResolveWithdrawal(s, c, Gold)
<1>1. CASE OrdersNamed(s, c.order) = {}
  BY <1>1, Nothing DEF ResolveWithdrawal, Throws
<1>2. ASSUME OrdersNamed(s, c.order) # {} PROVE Good(s, c, out)
  <2>1. o \in s.orders /\ Sane(o)
    BY <1>2, Named DEF StoreOK, Sane
  <2>2. CASE IsReplay(s, c)
    <3>1. out = Replay(s, o, c, Gold)
      BY <1>2, <2>2 DEF ResolveWithdrawal
    <3> QED
      BY <3>1, <2>1, <2>2, Replays
  <2>3. CASE ~IsReplay(s, c) /\ (o.withdrawal # "pending" \/ o.fulfillment # "active")
    <3>1. out = Refused(s, Fact("command_rejected"), o, c, Gold, Throws)
      BY <1>2, <2>3 DEF ResolveWithdrawal
    <3> QED
      BY <3>1, <2>1, Refuses DEF Throws
  <2>4. CASE ~IsReplay(s, c) /\ o.withdrawal = "pending" /\ o.fulfillment = "active"
    <3>1. o.status # "cancelled"
      BY <2>1, <2>4 DEF Sane
    <3>2. CASE c.outcome = "completed"
      <4>1. out = Finalize(s, o, c, <<Fact("withdrawal_completed")>>, Gold)
        BY <1>2, <2>4, <3>2 DEF ResolveWithdrawal
      <4> QED
        BY <4>1, <2>1, <2>4, <3>1, Finalizes
    <3>3. CASE c.outcome # "completed"
      <4> DEFINE new == [o EXCEPT !.withdrawal = c.outcome, !.version = @ + 1]
      <4>1. \E facts, value : out = Settled(s, o, new, c, facts, value, Gold)
        BY <1>2, <2>4, <3>3 DEF ResolveWithdrawal, Gold
      <4>2. /\ DOMAIN new = Fields /\ new.id = o.id /\ new.version = o.version + 1
            /\ new.version \in Nat /\ new.refund = o.refund /\ new.status = o.status
            /\ new.fulfillment = o.fulfillment
        BY <2>1 DEF Sane, Fields
      <4>3. Sane(new)
        BY <2>1, <3>1, <4>2 DEF Sane
      <4> HIDE DEF new
      <4> QED
        BY <2>1, <2>4, <4>1, <4>2, <4>3, Settles
    <3> QED
      BY <3>2, <3>3
  <2> QED
    BY <2>2, <2>3, <2>4
<1> QED
  BY <1>1, <1>2

(* markRefunded settles the refund of a cancelled order once.              *)
LEMMA RefundedGood ==
  ASSUME NEW s, StoreOK(s), NEW c, c.op = "refunded"
  PROVE  Good(s, c, MarkRefunded(s, c, Gold))
<1> DEFINE o == OrderNamed(s, c.order)
           new == [o EXCEPT !.refund = "refunded", !.version = @ + 1]
           out == MarkRefunded(s, c, Gold)
<1>1. CASE OrdersNamed(s, c.order) = {}
  BY <1>1, Nothing DEF MarkRefunded, Throws
<1>2. ASSUME OrdersNamed(s, c.order) # {} PROVE Good(s, c, out)
  <2>1. o \in s.orders /\ Sane(o) /\ o.id = c.order
    BY <1>2, Named DEF StoreOK, Sane
  <2>2. CASE o.refund = "refunded"
    <3>1. out = Outcome(s, Gives(o))
      BY <1>2, <2>2 DEF MarkRefunded
    <3>2. Kept([call |-> c, answer |-> Gives(o)], s)
      BY <2>1, <2>2 DEF Kept, Asks
    <3> QED
      BY <3>1, <3>2, GrowsSelf DEF Good, Outcome
  <2>3. CASE /\ o.refund # "refunded"
             /\ o.status # "cancelled" \/ o.refund # "pending" \/ EventsOf(s, c.order) = <<>>
    <3>1. out = Outcome(s, Throws)
      BY <1>2, <2>3 DEF MarkRefunded
    <3> QED
      BY <3>1, Nothing DEF Throws
  <2>4. CASE /\ o.refund = "pending" /\ o.status = "cancelled" /\ EventsOf(s, c.order) # <<>>
    <3>1. \E audit : out = Outcome([s EXCEPT !.orders = (@ \ {o}) \cup {new}, !.audit = audit],
                                   Gives(new))
      BY <1>2, <2>4 DEF MarkRefunded
    <3>2. /\ DOMAIN new = Fields /\ new.id = o.id /\ new.version = o.version + 1
          /\ new.version \in Nat /\ new.refund = "refunded" /\ new.status = o.status
          /\ new.withdrawal = o.withdrawal /\ new.fulfillment = o.fulfillment
      BY <2>1 DEF Sane, Fields
    <3>3. Sane(new)
      BY <2>1, <2>4, <3>2 DEF Sane
    <3>0. PICK audit : out = Outcome([s EXCEPT !.orders = (@ \ {o}) \cup {new}, !.audit = audit],
                                     Gives(new))
      BY <3>1
    <3> HIDE DEF new, out
    <3>4. /\ out.store.orders = (s.orders \ {o}) \cup {new} /\ out.store.requests = s.requests
          /\ DOMAIN out.store = DOMAIN s /\ out.answer = Gives(new)
      BY <3>0 DEF Outcome, StoreOK
    <3>5. StoreOK(out.store) /\ Grows(s, out.store)
      <4>1. \A r, q \in out.store.requests : r.request = q.request => r = q
        BY <3>4 DEF StoreOK
      <4> QED
        BY <2>1, <2>4, <3>2, <3>3, <3>4, <4>1, Changes
    <3>6. Kept([call |-> c, answer |-> out.answer], out.store)
      BY <2>1, <3>2, <3>4 DEF Kept, Asks
    <3> QED
      BY <3>5, <3>6 DEF Good
  <2> QED
    BY <2>1, <2>2, <2>3, <2>4
<1> QED
  BY <1>1, <1>2

(* createOrder adds an order of a new id.                                  *)
LEMMA CreateGood ==
  ASSUME NEW s, StoreOK(s), NEW c, c.op = "create", c.draft \in Order,
         c.draft.withdrawal = "none", c.draft.refund = "none"
  PROVE  Good(s, c, CreateOrder(s, c, Gold))
<1> DEFINE u == [s EXCEPT !.orders = @ \cup {c.draft}]
<1>1. CASE ~(ValidOrder(c.draft) /\ OrdersNamed(s, c.draft.id) = {})
  BY <1>1, Nothing DEF CreateOrder, Throws
<1>2. CASE ValidOrder(c.draft) /\ OrdersNamed(s, c.draft.id) = {}
  <2>1. CreateOrder(s, c, Gold) = Outcome(u, Done)
    BY <1>2 DEF CreateOrder
  <2>2. DOMAIN u = DOMAIN s /\ u.orders = s.orders \cup {c.draft} /\ u.requests = s.requests
    BY DEF StoreOK
  <2> HIDE DEF u
  <2>3. Sane(c.draft)
    <3>1. DOMAIN c.draft = Fields /\ c.draft.version \in Nat
      BY DEF Order, Fields
    <3> QED
      BY <3>1 DEF Sane
  <2>4. StoreOK(u) /\ Grows(s, u)
    BY <1>2, <2>2, <2>3, Versions DEF StoreOK, Grows, OrdersNamed
  <2>5. Kept([call |-> c, answer |-> Done], u)
    BY <2>2 DEF Kept, Asks
  <2> QED
    BY <2>1, <2>4, <2>5 DEF Good, Outcome
<1> QED
  BY <1>1, <1>2

(* What getOrder gives is the order.                                       *)
LEMMA GivesTheOrder ==
  ASSUME NEW s, StoreOK(s), NEW id, SetToSeq(OrdersNamed(s, id)) # <<>>
  PROVE  SetToSeq(OrdersNamed(s, id))[1] \in OrdersNamed(s, id)
<1> DEFINE S == OrdersNamed(s, id)
<1>1. CASE S = {}
  <2>1. Cardinality(S) = 0
    BY <1>1, FS_EmptySet
  <2>2. \A f \in [1..0 -> S] : IsInjective(f) /\ f = <<>>
    BY <1>1 DEF IsInjective
  <2>3. [x \in 1..0 |-> x] \in [1..0 -> S]
    OBVIOUS
  <2> QED
    BY <2>1, <2>2, <2>3 DEF SetToSeq
<1>2. ASSUME S # {} PROVE SetToSeq(S)[1] \in S
  <2>0. PICK o \in S : TRUE
    BY <1>2
  <2>1. S = {o}
    BY <2>0 DEF OrdersNamed, StoreOK
  <2>2. Cardinality(S) = 1
    BY <2>1, FS_Singleton
  <2>3. [x \in 1..1 |-> o] \in [1..1 -> S] /\ IsInjective([x \in 1..1 |-> o])
    BY <2>1 DEF IsInjective
  <2>4. SetToSeq(S) \in [1..1 -> S]
    BY <2>2, <2>3 DEF SetToSeq
  <2> QED
    BY <2>4
<1> QED
  BY <1>1, <1>2

(* getOrder changes nothing and gives the version that is there.           *)
LEMMA GetGood ==
  ASSUME NEW s, StoreOK(s), NEW c, c.op = "get"
  PROVE  Good(s, c, GetOrder(s, c, Gold))
<1> DEFINE v == SetToSeq(OrdersNamed(s, c.order))
           answer == [form |-> "value", value |-> v]
<1>1. ASSUME v # <<>> PROVE v[1] \in s.orders /\ v[1].id = c.order /\ v[1].version \in Nat
  <2>1. v[1] \in OrdersNamed(s, c.order)
    BY <1>1, GivesTheOrder
  <2> HIDE DEF v
  <2> QED
    BY <2>1, Versions DEF OrdersNamed
<1> HIDE DEF v
<1>2. Kept([call |-> c, answer |-> answer], s)
  BY <1>1 DEF Kept, Asks
<1> QED
  BY <1>2, GrowsSelf DEF Good, GetOrder, Outcome, v

(* So does every operation.                                                *)
LEMMA OperateGood ==
  ASSUME OrdersAreNew, NEW s, StoreOK(s), NEW c \in Calls
  PROVE  Good(s, c, Operate(s, c, Gold))
<1>0. "not_implemented" \notin Gold
  BY DEF Gold
<1>1. CASE c \notin OrderCommands
  <2>1. PICK d \in Drafts : c = Creation(d)
    BY <1>1 DEF Calls
  <2>2. c.op = "create" /\ c.draft = d
    BY <2>1 DEF Creation
  <2>3. Operate(s, c, Gold) = CreateOrder(s, c, Gold)
    BY <1>0, <2>2 DEF Operate
  <2> QED
    BY <2>2, <2>3, CreateGood DEF OrdersAreNew
<1>2. CASE c \in OrderCommands
  <2>1. CASE c.op = "cancel"
    <3>1. Operate(s, c, Gold) = CancelOrder(s, c, Gold)
      BY <1>0, <2>1 DEF Operate
    <3> QED
      BY <3>1, <2>1, CancelGood
  <2>2. CASE c.op = "withdrawal"
    <3>1. Operate(s, c, Gold) = ResolveWithdrawal(s, c, Gold)
      BY <1>0, <2>2 DEF Operate
    <3> QED
      BY <1>2, <3>1, <2>2, WithdrawalGood DEF OrdersAreNew
  <2>3. CASE c.op = "refunded"
    <3>1. Operate(s, c, Gold) = MarkRefunded(s, c, Gold)
      BY <1>0, <2>3 DEF Operate
    <3> QED
      BY <3>1, <2>3, RefundedGood
  <2>4. CASE c.op = "get"
    <3>1. Operate(s, c, Gold) = GetOrder(s, c, Gold)
      BY <1>0, <2>4 DEF Operate
    <3> QED
      BY <3>1, <2>4, GetGood
  <2>5. CASE c.op \in {"audit", "retention"}
    <3>1. \E answer : Operate(s, c, Gold) = Outcome(s, answer)
      <4>1. CASE c.op = "audit"
        BY <1>0, <4>1 DEF Operate, GetAuditEvents
      <4>2. CASE c.op = "retention"
        BY <1>0, <4>2 DEF Operate, GetRetentionPolicy
      <4> QED
        BY <2>5, <4>1, <4>2
    <3>2. \A answer : Kept([call |-> c, answer |-> answer], s)
      BY <2>5 DEF Kept, Asks
    <3> QED
      BY <3>1, <3>2, GrowsSelf DEF Good, Outcome
  <2> QED
    BY <1>2, <2>1, <2>2, <2>3, <2>4, <2>5 DEF OrdersAreNew
<1> QED
  BY <1>1, <1>2

-----------------------------------------------------------------------------
(***************************************************************************)
(* The invariant.  The head of the queue has computed its outcome from the *)
(* memory, which is the file until the outcome is in it, and the file has  *)
(* every answer that a client has.                                         *)
(***************************************************************************)
(* The head of the queue has its outcome, and the file may have it too.    *)
Underway(durable) ==
  /\ DOMAIN writing = {1} /\ DOMAIN writing[1] = {"outcome", "durable"}
  /\ writing[1].outcome = Operate(memory, Head(queue), Gold)
  /\ writing[1].durable = durable

OrderInv ==
  /\ serving \in BOOLEAN /\ queue \in Seq(Calls)
  /\ disk = <<>> \/ disk = <<disk[1]>>
  /\ StoreOK(memory) /\ StoreOK(Stored)
  /\ writing # <<>> => serving /\ queue # <<>> /\ (Underway(FALSE) \/ Underway(TRUE))
  /\ serving /\ ~Underway(TRUE) => Stored = memory
  /\ Underway(TRUE) => Stored = Operate(memory, Head(queue), Gold).store
  /\ \A t \in told : Kept(t, Stored)

(* A store starts empty.                                                   *)
LEMMA EmptyOK == StoreOK(EmptyStore(Gold))
BY DEF StoreOK, EmptyStore

(* A service starts with nothing told.                                     *)
LEMMA OrderInvInit == OrderInit => OrderInv
<1> SUFFICES ASSUME OrderInit PROVE OrderInv
  OBVIOUS
<1>1. ~Underway(TRUE)
  BY DEF OrderInit, Underway
<1> QED
  <2>1. queue \in Seq(Calls) /\ told = {} /\ Stored = memory /\ memory = EmptyStore(Gold)
    BY DEF OrderInit, Stored
  <2> QED
    BY <2>1, <1>1, EmptyOK DEF OrderInit, OrderInv

(* Every step keeps the invariant: the file takes in the outcome before the*)
(* client hears of it.                                                     *)
LEMMA OrderInvNext ==
  ASSUME OrdersAreNew, OrderInv, [OrderNext]_orderVars
  PROVE  OrderInv'
<1>0. queue # <<>> => Head(queue) \in Calls /\ Tail(queue) \in Seq(Calls)
  BY DEF OrderInv
<1>1. ASSUME UNCHANGED <<serving, disk, memory, writing, told>>, NEW more \in Seq(Calls),
             queue' = queue \o more
      PROVE  OrderInv'
  <2>1. queue' \in Seq(Calls) /\ (queue # <<>> => queue' # <<>> /\ Head(queue') = Head(queue))
    BY <1>1 DEF OrderInv
  <2>2. writing # <<>> => (Underway(TRUE)' <=> Underway(TRUE)) /\ (Underway(FALSE)' <=> Underway(FALSE))
    BY <1>1, <2>1 DEF OrderInv, Underway
  <2>3. writing = <<>> => ~Underway(TRUE) /\ ~Underway(TRUE)'
    BY <1>1 DEF Underway
  <2> QED
    BY <1>1, <2>1, <2>2, <2>3 DEF OrderInv, Stored
<1>2. ASSUME NEW c \in Calls, Call(c) PROVE OrderInv'
  <2>1. queue' = queue \o <<c>> /\ <<c>> \in Seq(Calls)
    BY <1>2 DEF Call, OrderInv
  <2> QED
    BY <1>1, <1>2, <2>1 DEF Call
<1>3. CASE OpenFile
  <2>1. Stored' = Stored /\ memory' = Stored /\ disk' = <<disk'[1]>>
    BY <1>3 DEF OpenFile, Stored
  <2>2. writing = <<>> /\ writing' = <<>>
    BY <1>3 DEF OpenFile, OrderInv
  <2>3. ~Underway(TRUE)'
    BY <2>2 DEF Underway
  <2> QED
    BY <1>3, <2>1, <2>2, <2>3 DEF OpenFile, OrderInv
<1>4. CASE BeginCommit
  <2> DEFINE out == Operate(memory, Head(queue), Gold)
  <2>1. /\ Good(memory, Head(queue), out) /\ Stored = memory /\ serving /\ queue # <<>>
        /\ writing = <<>> /\ UNCHANGED <<serving, disk, memory, issued>> /\ Stored' = Stored
    <3>1. queue # <<>> /\ writing = <<>> /\ serving
      BY <1>4 DEF BeginCommit
    <3>2. ~Underway(TRUE)
      BY <3>1 DEF Underway
    <3> QED
      BY <1>4, <1>0, <3>1, <3>2, OperateGood DEF BeginCommit, OrderInv, Stored
  <2>2. CASE out.store = memory
    <3>1. /\ told' = told \cup {[call |-> Head(queue), answer |-> out.answer]}
          /\ queue' = Tail(queue) /\ writing' = <<>>
      BY <1>4, <2>1, <2>2 DEF BeginCommit, Answer
    <3>2. ~Underway(TRUE)'
      BY <3>1 DEF Underway
    <3> QED
      BY <1>0, <2>1, <2>2, <3>1, <3>2 DEF OrderInv, Good
  <2>3. CASE out.store # memory
    <3>1. /\ writing' = <<[outcome |-> out, durable |-> FALSE]>>
          /\ UNCHANGED <<queue, told>>
      BY <1>4, <2>3 DEF BeginCommit
    <3>2. Underway(FALSE)' /\ ~Underway(TRUE)'
      <4> DEFINE w == [outcome |-> out, durable |-> FALSE]
      <4>1. w.outcome = out /\ ~w.durable /\ DOMAIN w = {"outcome", "durable"}
        OBVIOUS
      <4>2. writing' = <<w>> /\ out' = out
        BY <2>1, <3>1
      <4> HIDE DEF w
      <4>3. DOMAIN writing' = {1} /\ writing'[1] = w
        BY <4>2
      <4> QED
        BY <4>1, <4>2, <4>3 DEF Underway
    <3> QED
      BY <2>1, <3>1, <3>2 DEF OrderInv
  <2> QED
    BY <2>2, <2>3
<1>5. ASSUME writing # <<>>, serving, ~writing[1].durable
      PROVE  Underway(FALSE) /\ ~Underway(TRUE) /\ Stored = memory
  BY <1>5 DEF OrderInv, Underway
<1>6. CASE PersistState
  <2> DEFINE out == Operate(memory, Head(queue), Gold)
  <2>1. Underway(FALSE) /\ Stored = memory /\ queue # <<>>
    BY <1>5, <1>6 DEF PersistState, OrderInv
  <2>2. disk' = <<out.store>> /\ UNCHANGED <<serving, memory, queue, told>>
    BY <1>6, <2>1 DEF PersistState, Underway
  <2>3. Good(memory, Head(queue), out)
    BY <1>0, <2>1, OperateGood DEF OrderInv
  <2>4. Stored' = out.store
    BY <2>2 DEF Stored
  <2>5. Underway(TRUE)'
    BY <1>6, <2>1, <2>2 DEF PersistState, Underway
  <2>6. \A t \in told : Kept(t, out.store)
    BY <2>1, <2>3, KeptGrows DEF OrderInv, Good
  <2>7. serving /\ serving' /\ queue' # <<>> /\ disk' = <<disk'[1]>>
    BY <1>6, <2>1, <2>2 DEF PersistState
  <2>8. Operate(memory, Head(queue), Gold)' = out
    BY <2>2
  <2> QED
    BY <2>2, <2>3, <2>4, <2>5, <2>6, <2>7, <2>8 DEF OrderInv, Good
<1>7. CASE PersistFails
  <2>1. Stored = memory /\ Stored' = Stored /\ queue # <<>>
    BY <1>5, <1>7 DEF PersistFails, OrderInv, Stored
  <2>2. Kept([call |-> Head(queue), answer |-> Throws], Stored)
    BY DEF Kept, Throws
  <2>3. ~Underway(TRUE)'
    BY <1>7 DEF PersistFails, Underway
  <2> QED
    BY <1>0, <1>7, <2>1, <2>2, <2>3 DEF PersistFails, OrderInv, Answer
<1>8. CASE Deliver
  <2> DEFINE out == Operate(memory, Head(queue), Gold)
  <2>1. Underway(TRUE) /\ queue # <<>>
    BY <1>8 DEF Deliver, OrderInv, Underway
  <2>2. /\ memory' = out.store /\ queue' = Tail(queue) /\ writing' = <<>>
        /\ told' = told \cup {[call |-> Head(queue), answer |-> out.answer]}
        /\ UNCHANGED <<serving, disk>>
    BY <1>8, <2>1 DEF Deliver, Answer, Underway
  <2>3. Good(memory, Head(queue), out) /\ Stored = out.store /\ Stored' = Stored
    BY <1>0, <2>1, <2>2, OperateGood DEF OrderInv, Stored
  <2>4. ~Underway(TRUE)'
    BY <2>2 DEF Underway
  <2> QED
    BY <1>0, <2>1, <2>2, <2>3, <2>4 DEF OrderInv, Good
<1>9. CASE ServiceDies
  <2>1. ~Underway(TRUE)' /\ Stored' = Stored
    BY <1>9 DEF ServiceDies, Underway, Stored
  <2> QED
    <3>1. <<>> \in Seq(Calls)
      OBVIOUS
    <3> QED
      BY <1>9, <2>1, <3>1, EmptyOK DEF ServiceDies, OrderInv
<1>10. CASE UNCHANGED orderVars
  BY <1>10 DEF orderVars, OrderInv, Stored, Underway
<1>11. \A d \in Drafts : Creation(d) \in Calls
  BY DEF Calls
<1>12. OrderCommands \subseteq Calls
  BY DEF Calls
<1> QED
  BY <1>2, <1>3, <1>4, <1>6, <1>7, <1>8, <1>9, <1>10, <1>11, <1>12 DEF OrderNext

(* What is in the store of each answer is what AnsweredIsKept asks for.    *)
LEMMA OrderInvKept == OrderInv => AnsweredIsKept
<1> SUFFICES ASSUME OrderInv PROVE AnsweredIsKept
  OBVIOUS
<1>1. StoreOK(Stored) /\ \A t \in Accepted : Kept(t, Stored) /\ t.answer.form = "value"
  BY DEF OrderInv, Accepted
<1>2. \A t \in Accepted : Asks(t) =>
        \E r \in Stored.requests :
          /\ r.request = t.call.request
          /\ r.print = Fingerprint(t.call)
          /\ t.answer = Gives(r.result)
  BY <1>1 DEF Kept
<1>3. \A t, u \in Accepted :
        Asks(t) /\ Asks(u) /\ t.call.request = u.call.request => t.answer = u.answer
  BY <1>1, <1>2 DEF StoreOK
<1>4. \A x : Gives(x).value[1] = x
  BY DEF Gives
<1>5. \A t \in Accepted : Asks(t) =>
        \E r \in Stored.requests :
          /\ r.request = t.call.request
          /\ r.print = Fingerprint(t.call)
          /\ r.result = t.answer.value[1]
  BY <1>2, <1>4
<1>6. /\ \A t \in Accepted : t.call.op = "create" => OrdersNamed(Stored, t.call.draft.id) # {}
      /\ \A t \in Accepted : t.call.op = "refunded" =>
           \E o \in OrdersNamed(Stored, t.call.order) : o.refund = "refunded"
      /\ \A t \in Accepted : t.call.op = "get" /\ t.answer.value # <<>> =>
           \E o \in OrdersNamed(Stored, t.call.order) : t.answer.value[1].version <= o.version
  BY <1>1 DEF Kept, OrdersNamed
<1> QED
  BY <1>3, <1>5, <1>6 DEF AnsweredIsKept

(***************************************************************************)
(* Whatever calls queue up, whichever writes fail and whenever the process *)
(* dies, what a client was told is in the file for good, and a request     *)
(* that was accepted twice was told the same twice.                        *)
(***************************************************************************)
THEOREM AnswersAreKept ==
  ASSUME OrdersAreNew
  PROVE  OrderSpec => []AnsweredIsKept
<1>1. OrderInv /\ [OrderNext]_orderVars => OrderInv'
  BY OrderInvNext
<1> QED
  BY <1>1, OrderInvInit, OrderInvKept, PTL DEF OrderSpec
-----------------------------------------------------------------------------
(***************************************************************************)
(* The service implements the object of DurableObject.                     *)
(***************************************************************************)
ObjectVars == <<Stored, queue, Owed, told>>

(* While nothing is in the file that the memory does not know, the file is *)
(* what the head of the queue is applied to and nobody is owed an answer;  *)
(* after that the answer of the head is owed.                              *)
LEMMA OwedFacts ==
  ASSUME OrderInv
  PROVE  /\ Owed # <<>> => Underway(TRUE) /\ queue # <<>>
         /\ Underway(TRUE) => Owed = <<Operate(memory, Head(queue), Gold).answer>>
         /\ serving /\ Owed = <<>> => Stored = memory
         /\ ~serving => Owed = <<>>
<1>1. \A x : <<x>> # <<>>
  OBVIOUS
<1>2. Owed # <<>> => Underway(TRUE) /\ queue # <<>>
  BY DEF Owed, OrderInv, Underway
<1>3. Underway(TRUE) => Owed = <<Operate(memory, Head(queue), Gold).answer>>
  BY DEF Owed, Underway
<1> QED
  BY <1>1, <1>2, <1>3 DEF OrderInv, Owed

(* The head is answered at once where it changes nothing, and otherwise    *)
(* nothing has happened yet.                                               *)
LEMMA BeginOfObject ==
  ASSUME OrderInv, BeginCommit
  PROVE  [Object!Next]_ObjectVars
<1> DEFINE out == Operate(memory, Head(queue), Gold)
<1>1. /\ serving /\ queue # <<>> /\ writing = <<>> /\ UNCHANGED <<serving, disk, memory, issued>>
      /\ Stored' = Stored /\ Owed = <<>> /\ Stored = memory
  BY OwedFacts DEF BeginCommit, Stored, Owed
<1>2. CASE out.store = memory
  <2>1. /\ told' = told \cup {[call |-> Head(queue), answer |-> out.answer]}
        /\ queue' = Tail(queue) /\ writing' = <<>>
    BY <1>1, <1>2 DEF BeginCommit, Answer
  <2>2. Owed' = <<>>
    BY <2>1 DEF Owed
  <2>3. Object!Look
    BY <1>1, <1>2, <2>1, <2>2 DEF Object!Look, Object!Tell, GoldOperate
  <2> QED
    BY <2>3 DEF Object!Next
<1>3. CASE out.store # memory
  <2> DEFINE w == [outcome |-> out, durable |-> FALSE]
  <2>1. writing' = <<w>> /\ UNCHANGED <<queue, told>> /\ ~w.durable
    BY <1>3 DEF BeginCommit
  <2> HIDE DEF w
  <2>2. Owed' = <<>>
    BY <2>1 DEF Owed
  <2> QED
    BY <1>1, <2>1, <2>2 DEF ObjectVars
<1> QED
  BY <1>2, <1>3

(* The renaming is the effect of the head.                                 *)
LEMMA PersistOfObject ==
  ASSUME OrderInv, PersistState
  PROVE  Object!TakeEffect
<1> DEFINE out == Operate(memory, Head(queue), Gold)
<1>1. Underway(FALSE) /\ ~Underway(TRUE) /\ queue # <<>> /\ serving
  BY DEF PersistState, OrderInv, Underway
<1>2. Owed = <<>> /\ Stored = memory
  BY <1>1, OwedFacts
<1>3. /\ disk' = <<out.store>> /\ UNCHANGED <<serving, memory, queue, told>>
      /\ DOMAIN writing' = {1} /\ writing'[1].durable /\ writing'[1].outcome = out
  BY <1>1 DEF PersistState, Underway
<1>4. Stored' = out.store
  BY <1>3 DEF Stored
<1>5. Owed' = <<out.answer>>
  <2>1. writing' # <<>>
    BY <1>3
  <2>2. writing'[1].outcome.answer = out.answer
    BY <1>3
  <2> QED
    BY <1>3, <2>1, <2>2 DEF Owed
<1> QED
  BY <1>1, <1>2, <1>3, <1>4, <1>5 DEF Object!TakeEffect, GoldOperate

(* A call whose write fails has had no effect.                             *)
LEMMA FailureOfObject ==
  ASSUME OrderInv, PersistFails
  PROVE  Object!Fail
<1>1. ~Underway(TRUE) /\ queue # <<>>
  BY DEF PersistFails, OrderInv, Underway
<1>2. Owed = <<>> /\ Owed' = <<>> /\ Stored' = Stored
  BY <1>1, OwedFacts DEF PersistFails, Owed, Stored
<1> QED
  BY <1>1, <1>2 DEF PersistFails, Answer, Object!Fail, Object!Tell

(* What is delivered is what is owed.                                      *)
LEMMA DeliveryOfObject ==
  ASSUME OrderInv, Deliver
  PROVE  Object!Respond
<1> DEFINE out == Operate(memory, Head(queue), Gold)
<1>1. Underway(TRUE) /\ queue # <<>>
  BY DEF Deliver, OrderInv, Underway
<1>2. Owed = <<out.answer>> /\ writing[1].outcome.answer = out.answer
  BY <1>1, OwedFacts DEF Underway
<1>3. Owed # <<>> /\ Owed[1] = out.answer
  BY <1>2
<1>4. Owed' = <<>> /\ Stored' = Stored
  BY DEF Deliver, Owed, Stored
<1> QED
  BY <1>1, <1>2, <1>3, <1>4 DEF Deliver, Answer, Object!Respond, Object!Tell

(* Every step of the service is one of the object or none.                 *)
LEMMA StepOfObject ==
  ASSUME OrderInv, [OrderNext]_orderVars
  PROVE  [Object!Next]_ObjectVars
<1>1. CASE OpenFile
  <2>1. Stored' = Stored
    BY <1>1 DEF OpenFile, Stored
  <2>2. Owed' = Owed /\ UNCHANGED <<queue, told>>
    BY <1>1 DEF OpenFile, Owed
  <2> QED
    BY <2>1, <2>2 DEF ObjectVars
<1>2. ASSUME NEW c \in Asked, Call(c) PROVE Object!Next
  <2>1. Object!Ask(c)
    BY <1>2 DEF Call, Object!Ask, Stored, Owed
  <2> QED
    BY <2>1 DEF Object!Next
<1>3. CASE BeginCommit
  BY <1>3, BeginOfObject
<1>4. CASE PersistState
  BY <1>4, PersistOfObject DEF Object!Next
<1>5. CASE PersistFails
  BY <1>5, FailureOfObject DEF Object!Next
<1>6. CASE Deliver
  BY <1>6, DeliveryOfObject DEF Object!Next
<1>7. CASE ServiceDies
  <2>1. Object!Forget
    BY <1>7 DEF ServiceDies, Object!Forget, Stored, Owed
  <2> QED
    BY <2>1 DEF Object!Next
<1>8. CASE UNCHANGED orderVars
  BY <1>8 DEF orderVars, ObjectVars, Stored, Owed
<1> QED
  BY <1>1, <1>2, <1>3, <1>4, <1>5, <1>6, <1>7, <1>8 DEF OrderNext, Asked

(***************************************************************************)
(* Whatever calls are made while others wait, whichever writes fail and    *)
(* whenever the process dies, the service is to its clients one object     *)
(* that takes the calls one at a time and in their order: each has its     *)
(* effect once, at the renaming of the file, on all that the earlier ones  *)
(* left, and is answered by that effect (#enqueue, #commit, #persist).     *)
(***************************************************************************)
THEOREM ServiceIsObject ==
  ASSUME OrdersAreNew
  PROVE  OrderSpec => ObjectSpec
<1>1. OrderInit => Object!Init
  BY DEF OrderInit, Object!Init, Stored, Owed
<1>2. OrderInv /\ [OrderNext]_orderVars => OrderInv'
  BY OrderInvNext
<1>3. OrderInv /\ [OrderNext]_orderVars => [Object!Next]_ObjectVars
  BY StepOfObject
<1> QED
  BY <1>1, <1>2, <1>3, OrderInvInit, PTL
  DEF OrderSpec, ObjectSpec, Object!Spec, Object!objectVars, ObjectVars

-----------------------------------------------------------------------------
(***************************************************************************)
(* The audit trail.  Events are appended, and those of one order tell how  *)
(* it became what it is.                                                   *)
(***************************************************************************)
IsSeq(q) == \E S : q \in Seq(S)

(* Facts of different types, which are those of T.                         *)
Facts(F, T) ==
  /\ IsSeq(F) /\ {F[k].type : k \in 1..Len(F)} = T
  /\ \A j, k \in 1..Len(F) : F[j].type = F[k].type => j = k

(* The trail of u is that of s with an event of order o for each fact.     *)
Appends(s, u, F, o, before, now) ==
  /\ IsSeq(u.audit) /\ Len(u.audit) = Len(s.audit) + Len(F)
  /\ \A i \in 1..Len(s.audit) : u.audit[i] = s.audit[i]
  /\ \A k \in 1..Len(F) :
       LET e == u.audit[Len(s.audit) + k]
       IN  /\ e.type = F[k].type /\ e.order = o.id /\ e.at = now /\ e.policy
           /\ e.before = before /\ e.after = o.version

(* The places of the new events.                                           *)
NewPlaces(s, F) == {Len(s.audit) + k : k \in 1..Len(F)}

(* What has happened to an order after new facts of it, type by type.      *)
AfterFacts(s, u, F, T, id, now, type) ==
  /\ Happened(u, id, type) <=> Happened(s, id, type) \/ type \in T
  /\ ~(Happened(s, id, type) /\ type \in T) /\ (\A i, j \in Places(s, id, type) : i = j) =>
       \A i, j \in Places(u, id, type) : i = j
  /\ \A i \in Places(s, id, type) : i \in Places(u, id, type) /\ i \in 1..Len(s.audit)
  /\ type \notin T => \A i \in Places(u, id, type) :
       i \in Places(s, id, type) /\ u.audit[i] = s.audit[i]
  /\ ~Happened(s, id, type) => \A i \in Places(u, id, type) : u.audit[i].at = now
  /\ \A k \in 1..Len(F) : F[k].type = type => Len(s.audit) + k \in Places(u, id, type)

(* What an order keeps of its draft, and what it still waits for.          *)
Descends(s, d, o) ==
  /\ o.fulfillment = d.fulfillment /\ o.paid = d.paid
  /\ o.coupon.held = d.coupon.held /\ o.coupon.until = d.coupon.until
  /\ o.status \in {d.status, "cancelled"}
  /\ Happened(s, d.id, "withdrawal_completed") => o.status = "cancelled"
  /\ d.fulfillment = "active" /\ o.withdrawal = "pending" =>
       Happened(s, d.id, "withdrawal_requested")
  /\ PlacesOf(s, d.id) = {} => o.version = d.version

TellsOf(s, d, o) ==
  /\ EffectsOnce(s, d.id) /\ EffectsOf(s, d, o) /\ WithdrawalFirst(s, d, o)
  /\ VersionsFollow(s, d, o) /\ Descends(s, d, o)

Tells(s, d) == \E o \in s.orders : o.id = d.id /\ TellsOf(s, d, o)

(* An order that validates, with fields of their types.                    *)
Fine(o) ==
  /\ ValidOrder(o) /\ o.list \in Nat /\ o.paid \in Nat /\ o.amount \in Nat
  /\ DOMAIN o.coupon = {"held", "until", "restored"}
  /\ o.reserved \in BOOLEAN /\ o.coupon.restored \in BOOLEAN

(* A store that may be opened, whose events are of its orders.             *)
Sound(s) ==
  /\ StoreOK(s) /\ s.layout = Layout(Gold) /\ IsSeq(s.audit)
  /\ \A o \in s.orders : Fine(o)
  /\ \A i \in 1..Len(s.audit) :
       s.audit[i].policy /\ \E o \in s.orders : o.id = s.audit[i].order

(* What every operation comes to: the trail goes on telling what it told,  *)
(* and it tells of the order that was created.                             *)
Telling(s, c, out) ==
  /\ Sound(out.store)
  /\ \A d \in Drafts : Tells(s, d) => Tells(out.store, d)
  /\ \A d \in Drafts : c = Creation(d) /\ out.answer.form = "value" => Tells(out.store, d)

-----------------------------------------------------------------------------
(* Sequences have their length and their places.                           *)
LEMMA SeqShape ==
  ASSUME NEW q, IsSeq(q)
  PROVE  Len(q) \in Nat /\ DOMAIN q = 1..Len(q)
BY DEF IsSeq

LEMMA SeqJoined ==
  ASSUME NEW q, NEW r, IsSeq(q), IsSeq(r)
  PROVE  /\ IsSeq(q \o r) /\ Len(q \o r) = Len(q) + Len(r)
         /\ \A i \in 1..Len(q) : (q \o r)[i] = q[i]
         /\ \A k \in 1..Len(r) : (q \o r)[Len(q) + k] = r[k]
<1>1. PICK S, T : q \in Seq(S) /\ r \in Seq(T)
  BY DEF IsSeq
<1>2. q \in Seq(S \cup T) /\ r \in Seq(S \cup T)
  BY <1>1
<1>3. q \o r \in Seq(S \cup T)
  BY <1>2
<1>4. /\ Len(q \o r) = Len(q) + Len(r)
      /\ \A i \in 1..Len(q) : (q \o r)[i] = q[i]
      /\ \A k \in 1..Len(r) : (q \o r)[Len(q) + k] = r[k]
  BY <1>2
<1> QED
  BY <1>3, <1>4 DEF IsSeq

(* Recorded appends.                                                       *)
LEMMA Recording ==
  ASSUME NEW s, NEW u, NEW F, NEW o, NEW before, NEW c, IsSeq(s.audit), IsSeq(F),
         u.audit = Recorded(s, F, o, before, c, Gold)
  PROVE  Appends(s, u, F, o, before, c.now)
<1> DEFINE r == [i \in DOMAIN F |-> Event(F[i], o, before, c, Gold)]
<1>1. DOMAIN F = 1..Len(F) /\ Len(F) \in Nat
  BY SeqShape
<1>2. IsSeq(r) /\ Len(r) = Len(F)
  <2>1. r \in [1..Len(F) -> {r[i] : i \in 1..Len(F)}]
    BY <1>1
  <2>2. r \in Seq({r[i] : i \in 1..Len(F)})
    BY <1>1, <2>1
  <2>3. DOMAIN r = 1..Len(F)
    BY <1>1
  <2> HIDE DEF r
  <2> QED
    BY <1>1, <2>2, <2>3 DEF IsSeq
<1>3. \A k \in 1..Len(F) :
        /\ r[k].type = F[k].type /\ r[k].order = o.id /\ r[k].at = c.now /\ r[k].policy
        /\ r[k].before = before /\ r[k].after = o.version
  BY <1>1 DEF Event, Gold
<1>4. u.audit = s.audit \o r
  BY DEF Recorded
<1> HIDE DEF r
<1>5. /\ IsSeq(s.audit \o r) /\ Len(s.audit \o r) = Len(s.audit) + Len(r)
      /\ \A i \in 1..Len(s.audit) : (s.audit \o r)[i] = s.audit[i]
      /\ \A k \in 1..Len(r) : (s.audit \o r)[Len(s.audit) + k] = r[k]
  <2>1. IsSeq(s.audit) /\ IsSeq(r)
    BY <1>2
  <2> QED
    BY ONLY <2>1, SeqJoined
<1> QED
  BY <1>2, <1>3, <1>4, <1>5 DEF Appends

(* Where the events of an order are afterwards.                            *)
LEMMA PlacesAfter ==
  ASSUME NEW s, NEW u, NEW F, NEW o, NEW before, NEW now, IsSeq(s.audit), IsSeq(F),
         Appends(s, u, F, o, before, now), NEW id
  PROVE  /\ id # o.id => PlacesOf(u, id) = PlacesOf(s, id)
         /\ id = o.id => PlacesOf(u, id) = PlacesOf(s, id) \cup NewPlaces(s, F)
<1>1. /\ Len(s.audit) \in Nat /\ DOMAIN s.audit = 1..Len(s.audit)
      /\ Len(F) \in Nat /\ DOMAIN u.audit = 1..(Len(s.audit) + Len(F))
  BY SeqShape DEF Appends
<1>2. \A i \in DOMAIN u.audit :
        i \in DOMAIN s.audit \/ \E k \in 1..Len(F) : i = Len(s.audit) + k
  <2> SUFFICES ASSUME NEW i \in DOMAIN u.audit, i \notin DOMAIN s.audit
               PROVE  \E k \in 1..Len(F) : i = Len(s.audit) + k
    OBVIOUS
  <2>1. i - Len(s.audit) \in 1..Len(F) /\ i = Len(s.audit) + (i - Len(s.audit))
    BY <1>1
  <2> QED
    BY <2>1
<1>3. \A k \in 1..Len(F) : /\ Len(s.audit) + k \in DOMAIN u.audit
                           /\ Len(s.audit) + k \notin DOMAIN s.audit
                           /\ u.audit[Len(s.audit) + k].order = o.id
  BY <1>1 DEF Appends
<1>4. \A i \in DOMAIN s.audit : i \in DOMAIN u.audit /\ u.audit[i] = s.audit[i]
  BY <1>1 DEF Appends
<1> QED
  BY <1>2, <1>3, <1>4 DEF PlacesOf, NewPlaces

(* A place is an old one of the same event, or one of a new fact.          *)
LEMMA PlaceAfter ==
  ASSUME NEW s, NEW u, NEW F, NEW o, NEW before, NEW now, IsSeq(s.audit), IsSeq(F),
         Appends(s, u, F, o, before, now), NEW i \in PlacesOf(u, o.id)
  PROVE  \/ /\ i \in PlacesOf(s, o.id) /\ i \in 1..Len(s.audit) /\ u.audit[i] = s.audit[i]
         \/ \E k \in 1..Len(F) :
              /\ i = Len(s.audit) + k /\ u.audit[i].type = F[k].type /\ u.audit[i].at = now
              /\ u.audit[i].before = before /\ u.audit[i].after = o.version
<1>1. CASE i \in PlacesOf(s, o.id)
  <2>1. i \in 1..Len(s.audit)
    BY <1>1, SeqShape DEF PlacesOf
  <2> QED
    BY <1>1, <2>1 DEF Appends
<1>2. CASE i \notin PlacesOf(s, o.id)
  <2>1. PICK k \in 1..Len(F) : i = Len(s.audit) + k
    BY <1>2, PlacesAfter DEF NewPlaces
  <2> QED
    BY <2>1 DEF Appends
<1> QED
  BY <1>1, <1>2

(* The versions go on from that of the order.                              *)
LEMMA VersionsGo ==
  ASSUME NEW s, NEW u, NEW F, NEW o, NEW p, NEW before, NEW now, NEW d, IsSeq(s.audit),
         IsSeq(F), before = o.version, Appends(s, u, F, p, before, now), Len(F) > 0, p.id = d.id,
         VersionsFollow(s, d, o), PlacesOf(s, d.id) = {} => o.version = d.version
  PROVE  VersionsFollow(u, d, p) /\ PlacesOf(u, d.id) # {}
<1> DEFINE n == Len(s.audit)
<1>1. n \in Nat /\ Len(F) \in Nat
  BY SeqShape
<1>2. PlacesOf(u, d.id) = PlacesOf(s, d.id) \cup {n + k : k \in 1..Len(F)}
  <2>1. PlacesOf(u, d.id) = PlacesOf(s, d.id) \cup NewPlaces(s, F)
    BY PlacesAfter
  <2> QED
    BY <2>1 DEF NewPlaces
<1>3. n + 1 \in PlacesOf(u, d.id)
  BY <1>1, <1>2
<1>4. \A i \in PlacesOf(s, d.id) : i \in 1..n /\ u.audit[i] = s.audit[i]
  BY SeqShape DEF PlacesOf, Appends
<1>5. ASSUME NEW j \in PlacesOf(s, d.id)
      PROVE  /\ {i \in PlacesOf(u, d.id) : i < j} = {i \in PlacesOf(s, d.id) : i < j}
             /\ u.audit[j] = s.audit[j] /\ j < n + 1
  BY <1>1, <1>2, <1>4, <1>5
<1>6. \A k \in 1..Len(F) : /\ u.audit[n + k].before = o.version
                           /\ u.audit[n + k].after = p.version
  BY DEF Appends
<1>7. \A i \in PlacesOf(s, d.id) :
        s.audit[i].after = o.version \/ \E k \in PlacesOf(s, d.id) : i < k
  BY DEF VersionsFollow
<1> SUFFICES ASSUME NEW j \in PlacesOf(u, d.id)
             PROVE  LET f == u.audit[j]
                        earlier == {i \in PlacesOf(u, d.id) : i < j}
                    IN  /\ earlier = {} => f.before = d.version
                        /\ \A i \in earlier :
                             LET e == u.audit[i]
                             IN  \/ \E k \in earlier : i < k
                                 \/ f.before = e.after
                                 \/ <<f.before, f.after>> = <<e.before, e.after>>
                        /\ f.after = p.version \/ \E k \in PlacesOf(u, d.id) : j < k
  BY <1>3 DEF VersionsFollow
<1> DEFINE earlier == {i \in PlacesOf(u, d.id) : i < j}
<1>8. CASE j \in PlacesOf(s, d.id)
  <2>1. /\ earlier = {i \in PlacesOf(s, d.id) : i < j} /\ u.audit[j] = s.audit[j] /\ j < n + 1
    BY <1>5, <1>8
  <2>2. \A i \in earlier : u.audit[i] = s.audit[i]
    BY <2>1, <1>4
  <2> QED
    BY <1>3, <1>8, <2>1, <2>2 DEF VersionsFollow
<1>9. ASSUME NEW k \in 1..Len(F), j = n + k
      PROVE  /\ earlier = {} => u.audit[j].before = d.version
             /\ \A i \in earlier :
                  \/ \E l \in earlier : i < l
                  \/ u.audit[j].before = u.audit[i].after
                  \/ <<u.audit[j].before, u.audit[j].after>> = <<u.audit[i].before, u.audit[i].after>>
             /\ u.audit[j].after = p.version
  <2>1. \A i \in PlacesOf(s, d.id) : i \in earlier
    BY <1>1, <1>2, <1>4, <1>9
  <2>2. u.audit[j].before = o.version /\ u.audit[j].after = p.version
    BY <1>6, <1>9
  <2>3. ASSUME NEW i \in earlier
        PROVE  \/ \E l \in earlier : i < l
               \/ u.audit[j].before = u.audit[i].after
               \/ <<u.audit[j].before, u.audit[j].after>> = <<u.audit[i].before, u.audit[i].after>>
    <3>1. CASE i \in PlacesOf(s, d.id)
      BY <1>4, <1>7, <2>1, <2>2, <3>1
    <3>2. CASE i \notin PlacesOf(s, d.id)
      BY <1>2, <1>6, <2>2, <3>2
    <3> QED
      BY <3>1, <3>2
  <2> QED
    BY <2>1, <2>2, <2>3
<1> QED
  BY <1>2, <1>8, <1>9
-----------------------------------------------------------------------------
(* The trail tells the same of an order that it says nothing new of.       *)
LEMMA Elsewhere ==
  ASSUME NEW s, NEW u, NEW d, NEW o, PlacesOf(u, d.id) = PlacesOf(s, d.id),
         \A i \in PlacesOf(s, d.id) : u.audit[i] = s.audit[i], TellsOf(s, d, o)
  PROVE  TellsOf(u, d, o)
<1>1. \A type : Places(u, d.id, type) = Places(s, d.id, type)
  BY DEF Places
<1>2. \A type : Happened(u, d.id, type) <=> Happened(s, d.id, type)
  BY <1>1 DEF Happened
<1>3. EffectsOnce(u, d.id)
  BY <1>1 DEF TellsOf, EffectsOnce
<1>4. EffectsOf(u, d, o)
  <2>1. \A i \in Places(s, d.id, "order_cancelled") : u.audit[i] = s.audit[i]
    BY DEF Places
  <2> QED
    BY <1>1, <1>2, <2>1 DEF TellsOf, EffectsOf
<1>5. WithdrawalFirst(u, d, o)
  BY <1>1 DEF TellsOf, WithdrawalFirst
<1>6. VersionsFollow(u, d, o)
  <2>1. VersionsFollow(s, d, o)
    BY DEF TellsOf
  <2> SUFFICES ASSUME NEW j \in PlacesOf(s, d.id)
               PROVE  LET f == u.audit[j]
                          earlier == {i \in PlacesOf(u, d.id) : i < j}
                      IN  /\ earlier = {} => f.before = d.version
                          /\ \A i \in earlier :
                               LET e == u.audit[i]
                               IN  \/ \E k \in earlier : i < k
                                   \/ f.before = e.after
                                   \/ <<f.before, f.after>> = <<e.before, e.after>>
                          /\ f.after = o.version \/ \E k \in PlacesOf(u, d.id) : j < k
    BY DEF VersionsFollow
  <2> QED
    BY <2>1 DEF VersionsFollow
<1>7. Descends(u, d, o)
  BY <1>2 DEF TellsOf, Descends
<1> QED
  BY <1>3, <1>4, <1>5, <1>6, <1>7 DEF TellsOf

(* What has happened to an order after new facts of it.                    *)
LEMMA HappenedAfter ==
  ASSUME NEW s, NEW u, NEW F, NEW T, NEW o, NEW before, NEW now, IsSeq(s.audit), Facts(F, T),
         Appends(s, u, F, o, before, now), NEW type
  PROVE  AfterFacts(s, u, F, T, o.id, now, type)
<1> DEFINE n == Len(s.audit)
<1>1. IsSeq(F) /\ n \in Nat /\ Len(F) \in Nat
  BY SeqShape DEF Facts
<1>2. PlacesOf(u, o.id) = PlacesOf(s, o.id) \cup NewPlaces(s, F)
  BY <1>1, PlacesAfter
<1>3. \A i \in Places(u, o.id, type) :
        \/ i \in Places(s, o.id, type) /\ u.audit[i] = s.audit[i]
        \/ \E k \in 1..Len(F) : i = n + k /\ F[k].type = type /\ u.audit[i].at = now
  <2> SUFFICES ASSUME NEW i \in Places(u, o.id, type)
               PROVE  \/ i \in Places(s, o.id, type) /\ u.audit[i] = s.audit[i]
                      \/ \E k \in 1..Len(F) : i = n + k /\ F[k].type = type /\ u.audit[i].at = now
    OBVIOUS
  <2>1. i \in PlacesOf(u, o.id) /\ u.audit[i].type = type
    BY DEF Places
  <2>2. \/ /\ i \in PlacesOf(s, o.id) /\ i \in 1..Len(s.audit) /\ u.audit[i] = s.audit[i]
        \/ \E k \in 1..Len(F) :
             /\ i = Len(s.audit) + k /\ u.audit[i].type = F[k].type /\ u.audit[i].at = now
             /\ u.audit[i].before = before /\ u.audit[i].after = o.version
    BY <1>1, <2>1, PlaceAfter
  <2> QED
    BY <2>1, <2>2 DEF Places
<1>4. \A i \in Places(s, o.id, type) : i \in Places(u, o.id, type) /\ i \in 1..n
  <2>1. \A i \in PlacesOf(s, o.id) : i \in 1..n /\ u.audit[i] = s.audit[i]
    BY SeqShape DEF PlacesOf, Appends
  <2> QED
    BY <1>2, <2>1 DEF Places
<1>5. \A k \in 1..Len(F) : F[k].type = type => n + k \in Places(u, o.id, type)
  <2>1. \A k \in 1..Len(F) : n + k \in PlacesOf(u, o.id) /\ u.audit[n + k].type = F[k].type
    BY <1>2 DEF NewPlaces, Appends
  <2> QED
    BY <2>1 DEF Places
<1>6. type \in T <=> \E k \in 1..Len(F) : F[k].type = type
  BY DEF Facts
<1>7. \A j, k \in 1..Len(F) : F[j].type = type /\ F[k].type = type => j = k
  BY DEF Facts
<1>8. Happened(s, o.id, type) <=> \E i : i \in Places(s, o.id, type)
  BY DEF Happened
<1>9. Happened(u, o.id, type) <=> \E i : i \in Places(u, o.id, type)
  BY DEF Happened
<1>10. ASSUME ~(Happened(s, o.id, type) /\ type \in T),
              \A i, j \in Places(s, o.id, type) : i = j,
              NEW i \in Places(u, o.id, type), NEW j \in Places(u, o.id, type)
       PROVE  i = j
  BY <1>3, <1>6, <1>7, <1>8, <1>10
<1>11. Happened(u, o.id, type) <=> Happened(s, o.id, type) \/ type \in T
  BY <1>3, <1>4, <1>5, <1>6, <1>8, <1>9
<1> QED
  BY <1>3, <1>4, <1>5, <1>6, <1>8, <1>10, <1>11 DEF AfterFacts

(* A command without an effect.                                            *)
LEMMA Unaffected ==
  ASSUME NEW s, NEW u, NEW F, NEW T, NEW o, NEW p, NEW before, NEW now, NEW d,
         IsSeq(s.audit), Facts(F, T), T # {}, T \cap Effects = {}, before = o.version,
         Appends(s, u, F, p, before, now), o.id = d.id, p.id = d.id, TellsOf(s, d, o),
         p.fulfillment = o.fulfillment, p.paid = o.paid, p.coupon = o.coupon,
         p.status = o.status, p.reserved = o.reserved, p.refund = o.refund,
         p.amount = o.amount,
         p = o \/ (o.status # "cancelled" /\ o.fulfillment # "handed_off"),
         p.withdrawal = "pending" => p = o \/ "withdrawal_requested" \in T
  PROVE  TellsOf(u, d, p)
<1>0. \A type : AfterFacts(s, u, F, T, d.id, now, type)
  BY HappenedAfter
<1>1. IsSeq(F) /\ Len(F) > 0
  <2>1. PICK type \in T : TRUE
    OBVIOUS
  <2>2. PICK k \in 1..Len(F) : F[k].type = type
    BY <2>1 DEF Facts
  <2> QED
    BY <2>2, SeqShape DEF Facts
<1>2. /\ EffectsOnce(s, d.id) /\ EffectsOf(s, d, o) /\ WithdrawalFirst(s, d, o)
      /\ VersionsFollow(s, d, o) /\ Descends(s, d, o)
  BY DEF TellsOf
<1>3. \A type : Happened(u, d.id, type) <=> Happened(s, d.id, type) \/ type \in T
  BY <1>0 DEF AfterFacts
<1>4. \A type \in Effects :
        /\ Places(u, d.id, type) = Places(s, d.id, type)
        /\ \A i \in Places(s, d.id, type) : u.audit[i] = s.audit[i]
  <2> SUFFICES ASSUME NEW type \in Effects
               PROVE  /\ Places(u, d.id, type) = Places(s, d.id, type)
                      /\ \A i \in Places(s, d.id, type) : u.audit[i] = s.audit[i]
    OBVIOUS
  <2>1. type \notin T
    OBVIOUS
  <2>2. \A i \in Places(s, d.id, type) : i \in Places(u, d.id, type)
    BY <1>0 DEF AfterFacts
  <2>3. \A i \in Places(u, d.id, type) : i \in Places(s, d.id, type) /\ u.audit[i] = s.audit[i]
    BY <1>0, <2>1 DEF AfterFacts
  <2> QED
    BY <2>2, <2>3
<1>5. \A type \in Effects : Happened(u, d.id, type) <=> Happened(s, d.id, type)
  BY <1>4 DEF Happened
<1>6. EffectsOnce(u, d.id)
  BY <1>2, <1>4 DEF EffectsOnce
<1>7. EffectsOf(u, d, p)
  <2>1. /\ Happened(u, d.id, "order_cancelled") <=> Happened(s, d.id, "order_cancelled")
        /\ Happened(u, d.id, "inventory_compensated") <=> Happened(s, d.id, "inventory_compensated")
        /\ Happened(u, d.id, "coupon_restored") <=> Happened(s, d.id, "coupon_restored")
        /\ Happened(u, d.id, "refund_requested") <=> Happened(s, d.id, "refund_requested")
        /\ Happened(u, d.id, "refund_completed") <=> Happened(s, d.id, "refund_completed")
    BY <1>5 DEF Effects
  <2>2. /\ Places(u, d.id, "order_cancelled") = Places(s, d.id, "order_cancelled")
        /\ \A i \in Places(s, d.id, "order_cancelled") : u.audit[i] = s.audit[i]
    BY <1>4 DEF Effects
  <2> QED
    BY <1>2, <2>1, <2>2 DEF EffectsOf
<1>8. WithdrawalFirst(u, d, p)
  <2>1. \A i \in Places(s, d.id, "withdrawal_requested") :
          i \in Places(u, d.id, "withdrawal_requested")
    BY <1>0 DEF AfterFacts
  <2>2. /\ Places(u, d.id, "withdrawal_completed") = Places(s, d.id, "withdrawal_completed")
        /\ Places(u, d.id, "order_cancelled") = Places(s, d.id, "order_cancelled")
    BY <1>4 DEF Effects
  <2>3. d.fulfillment = "handed_off" => p = d
    BY <1>2 DEF WithdrawalFirst, Descends
  <2>4. d.fulfillment = "active" /\ p.status = "cancelled" => p = o
    OBVIOUS
  <2> QED
    BY <1>2, <2>1, <2>2, <2>3, <2>4 DEF WithdrawalFirst
<1>9. VersionsFollow(u, d, p) /\ PlacesOf(u, d.id) # {}
  <2>1. PlacesOf(s, d.id) = {} => o.version = d.version
    BY <1>2 DEF Descends
  <2> QED
    BY ONLY <1>1, <1>2, <2>1, VersionsGo, IsSeq(s.audit), before = o.version, p.id = d.id, Appends(s, u, F, p, before, now)
<1>10. Descends(u, d, p)
  <2>1. Happened(u, d.id, "withdrawal_completed") <=> Happened(s, d.id, "withdrawal_completed")
    BY <1>5 DEF Effects
  <2> QED
    BY <1>2, <1>3, <1>9, <2>1 DEF Descends
<1> QED
  BY <1>6, <1>7, <1>8, <1>9, <1>10 DEF TellsOf

(* The refund of a cancelled order is settled.                             *)
LEMMA Refunding ==
  ASSUME NEW s, NEW u, NEW F, NEW T, NEW o, NEW p, NEW before, NEW now, NEW d,
         IsSeq(s.audit), Facts(F, T), T = {"refund_completed"}, before = o.version,
         Appends(s, u, F, p, before, now), o.id = d.id, p.id = d.id, TellsOf(s, d, o),
         p.fulfillment = o.fulfillment, p.paid = o.paid, p.coupon = o.coupon,
         p.status = o.status, p.reserved = o.reserved, p.amount = o.amount,
         p.withdrawal = o.withdrawal,
         o.status = "cancelled", o.refund = "pending", p.refund = "refunded",
         d.status # "cancelled"
  PROVE  TellsOf(u, d, p)
<1>0. \A type : AfterFacts(s, u, F, T, d.id, now, type)
  BY HappenedAfter
<1>1. IsSeq(F) /\ Len(F) > 0
  <2>1. PICK k \in 1..Len(F) : F[k].type = "refund_completed"
    BY DEF Facts
  <2> QED
    BY <2>1, SeqShape DEF Facts
<1>2. /\ EffectsOnce(s, d.id) /\ EffectsOf(s, d, o) /\ WithdrawalFirst(s, d, o)
      /\ VersionsFollow(s, d, o) /\ Descends(s, d, o)
  BY DEF TellsOf
<1>3. \A type : Happened(u, d.id, type) <=> Happened(s, d.id, type) \/ type = "refund_completed"
  BY <1>0 DEF AfterFacts
<1>4. \A type : type # "refund_completed" =>
        /\ Places(u, d.id, type) = Places(s, d.id, type)
        /\ \A i \in Places(s, d.id, type) : u.audit[i] = s.audit[i]
  <2> SUFFICES ASSUME NEW type, type \notin T
               PROVE  /\ Places(u, d.id, type) = Places(s, d.id, type)
                      /\ \A i \in Places(s, d.id, type) : u.audit[i] = s.audit[i]
    OBVIOUS
  <2>1. \A i \in Places(s, d.id, type) : i \in Places(u, d.id, type)
    BY <1>0 DEF AfterFacts
  <2>2. \A i \in Places(u, d.id, type) : i \in Places(s, d.id, type) /\ u.audit[i] = s.audit[i]
    BY <1>0 DEF AfterFacts
  <2> QED
    BY <2>1, <2>2
<1>5. ~Happened(s, d.id, "refund_completed")
  BY <1>2 DEF EffectsOf
<1>6. EffectsOnce(u, d.id)
  <2> SUFFICES ASSUME NEW type \in Effects
               PROVE  \A i, j \in Places(u, d.id, type) : i = j
    BY DEF EffectsOnce
  <2>1. \A i, j \in Places(s, d.id, type) : i = j
    BY <1>2 DEF EffectsOnce
  <2>2. ~(Happened(s, d.id, type) /\ type \in T)
    BY <1>5
  <2> QED
    BY <1>0, <2>1, <2>2 DEF AfterFacts
<1>7. EffectsOf(u, d, p)
  <2>1. /\ Happened(u, d.id, "order_cancelled") <=> Happened(s, d.id, "order_cancelled")
        /\ Happened(u, d.id, "inventory_compensated") <=> Happened(s, d.id, "inventory_compensated")
        /\ Happened(u, d.id, "coupon_restored") <=> Happened(s, d.id, "coupon_restored")
        /\ Happened(u, d.id, "refund_requested") <=> Happened(s, d.id, "refund_requested")
        /\ Happened(u, d.id, "refund_completed")
    BY <1>3
  <2>2. /\ Places(u, d.id, "order_cancelled") = Places(s, d.id, "order_cancelled")
        /\ \A i \in Places(s, d.id, "order_cancelled") : u.audit[i] = s.audit[i]
    BY <1>4
  <2> QED
    BY <1>2, <2>1, <2>2 DEF EffectsOf
<1>8. WithdrawalFirst(u, d, p)
  BY <1>2, <1>4 DEF WithdrawalFirst, Descends
<1>9. VersionsFollow(u, d, p) /\ PlacesOf(u, d.id) # {}
  <2>1. PlacesOf(s, d.id) = {} => o.version = d.version
    BY <1>2 DEF Descends
  <2> QED
    BY ONLY <1>1, <1>2, <2>1, VersionsGo, IsSeq(s.audit), before = o.version, p.id = d.id, Appends(s, u, F, p, before, now)
<1>10. Descends(u, d, p)
  BY <1>2, <1>3, <1>9 DEF Descends
<1> QED
  BY <1>6, <1>7, <1>8, <1>9, <1>10 DEF TellsOf
(* The facts of a cancellation.                                            *)
CancelFacts(o, prefix, restores) ==
  prefix \cup {"order_cancelled"}
    \cup (IF o.reserved THEN {"inventory_compensated"} ELSE {})
    \cup (IF restores THEN {"coupon_restored"} ELSE {})
    \cup (IF o.status = "paid" THEN {"refund_requested"} ELSE {})

(* An order is cancelled, if need be when its withdrawal is completed.     *)
LEMMA Cancelling ==
  ASSUME NEW s, NEW u, NEW F, NEW T, NEW o, NEW p, NEW before, NEW now, NEW d, NEW prefix,
         NEW restores, IsSeq(s.audit), Facts(F, T), T = CancelFacts(o, prefix, restores),
         before = o.version, Appends(s, u, F, p, before, now), o.id = d.id, p.id = d.id,
         TellsOf(s, d, o), o.status # "cancelled", o.refund = "none",
         restores \in BOOLEAN, d.reserved \in BOOLEAN, o.coupon.restored \in BOOLEAN,
         restores <=> o.coupon.held /\ o.coupon.until >= now /\ ~o.coupon.restored,
         o.fulfillment # "handed_off", prefix \subseteq {"withdrawal_completed"},
         o.fulfillment = "active" => /\ o.withdrawal = "pending" /\ F[1].type = "withdrawal_completed"
                                     /\ p.withdrawal = "completed" /\ prefix # {},
         p.fulfillment = o.fulfillment, p.paid = o.paid, p.status = "cancelled",
         p.reserved = FALSE, p.coupon.held = o.coupon.held, p.coupon.until = o.coupon.until,
         p.coupon.restored = restores,
         p.refund = IF o.status = "paid" THEN "pending" ELSE "none",
         o.status = "paid" => p.amount = o.paid
  PROVE  TellsOf(u, d, p)
<1>0. \A type : AfterFacts(s, u, F, T, d.id, now, type)
  BY HappenedAfter
<1>1. PICK k \in 1..Len(F) : F[k].type = "order_cancelled"
  BY DEF Facts, CancelFacts
<1>2. /\ EffectsOnce(s, d.id) /\ EffectsOf(s, d, o) /\ WithdrawalFirst(s, d, o)
      /\ VersionsFollow(s, d, o) /\ Descends(s, d, o)
  BY DEF TellsOf
<1>3. IsSeq(F) /\ Len(F) > 0 /\ Len(F) \in Nat /\ Len(s.audit) \in Nat
  BY <1>1, SeqShape DEF Facts
<1>4. \A type \in Effects : ~Happened(s, d.id, type)
  <2>1. ~Happened(s, d.id, "order_cancelled")
    BY <1>2 DEF EffectsOf
  <2>2. Places(s, d.id, "order_cancelled") = {}
    BY <2>1 DEF Happened
  <2>3. /\ ~Happened(s, d.id, "inventory_compensated")
        /\ ~Happened(s, d.id, "coupon_restored")
        /\ ~Happened(s, d.id, "refund_requested")
        /\ ~Happened(s, d.id, "refund_completed")
    BY <1>2, <2>1, <2>2 DEF EffectsOf
  <2>4. ~Happened(s, d.id, "withdrawal_completed")
    BY <1>2 DEF Descends
  <2> QED
    BY <2>1, <2>3, <2>4 DEF Effects
<1>5. \A type \in Effects : Happened(u, d.id, type) <=> type \in T
  BY <1>0, <1>4 DEF AfterFacts
<1>6. EffectsOnce(u, d.id)
  <2> SUFFICES ASSUME NEW type \in Effects
               PROVE  \A i, j \in Places(u, d.id, type) : i = j
    BY DEF EffectsOnce
  <2>1. \A i, j \in Places(s, d.id, type) : i = j
    BY <1>2 DEF EffectsOnce
  <2>2. ~Happened(s, d.id, type)
    BY <1>4
  <2> QED
    BY <1>0, <2>1, <2>2 DEF AfterFacts
<1>7. EffectsOf(u, d, p)
  <2>1. Happened(u, d.id, "order_cancelled")
    BY <1>5 DEF Effects, CancelFacts
  <2>2. Happened(u, d.id, "inventory_compensated") <=> o.reserved
    BY <1>5 DEF Effects, CancelFacts
  <2>3. Happened(u, d.id, "coupon_restored") <=> restores
    BY <1>5 DEF Effects, CancelFacts
  <2>4. Happened(u, d.id, "refund_requested") <=> o.status = "paid"
    BY <1>5 DEF Effects, CancelFacts
  <2>5. ~Happened(u, d.id, "refund_completed")
    BY <1>5 DEF Effects, CancelFacts
  <2>6. \A i \in Places(u, d.id, "order_cancelled") : u.audit[i].at = now
    BY <1>0, <1>4 DEF AfterFacts, Effects
  <2>7. \E i : i \in Places(u, d.id, "order_cancelled")
    BY <2>1 DEF Happened
  <2>8. o.reserved = d.reserved /\ ~o.coupon.restored
    <3>1. ~Happened(s, d.id, "order_cancelled") /\ ~Happened(s, d.id, "coupon_restored")
      BY <1>4 DEF Effects
    <3> QED
      BY <1>2, <3>1 DEF EffectsOf
  <2>9. o.coupon.held = d.coupon.held /\ o.coupon.until = d.coupon.until /\ o.paid = d.paid
        /\ o.status = d.status
    BY <1>2 DEF Descends
  <2>10. restores <=> d.coupon.held /\ \E i \in Places(u, d.id, "order_cancelled") :
                                          d.coupon.until >= u.audit[i].at
    BY <2>6, <2>7, <2>8, <2>9
  <2> QED
    BY <2>1, <2>2, <2>3, <2>4, <2>5, <2>8, <2>9, <2>10 DEF EffectsOf
<1>8. WithdrawalFirst(u, d, p)
  <2>1. d.fulfillment = o.fulfillment
    BY <1>2 DEF Descends
  <2>2. ASSUME d.fulfillment = "active"
        PROVE  \E i \in Places(u, d.id, "withdrawal_requested"),
                  j \in Places(u, d.id, "withdrawal_completed"),
                  l \in Places(u, d.id, "order_cancelled") : i < j /\ j < l
    <3>1. Happened(s, d.id, "withdrawal_requested")
      BY <1>2, <2>1, <2>2 DEF Descends
    <3>2. PICK i : i \in Places(s, d.id, "withdrawal_requested")
      BY <3>1 DEF Happened
    <3>3. i \in Places(u, d.id, "withdrawal_requested") /\ i \in 1..Len(s.audit)
      BY <1>0, <3>2 DEF AfterFacts
    <3>4. Len(s.audit) + 1 \in Places(u, d.id, "withdrawal_completed") /\ k # 1
      BY <1>0, <1>1, <1>3, <2>1, <2>2 DEF AfterFacts
    <3>5. Len(s.audit) + k \in Places(u, d.id, "order_cancelled")
      BY <1>0, <1>1 DEF AfterFacts
    <3>6. i < Len(s.audit) + 1 /\ Len(s.audit) + 1 < Len(s.audit) + k
      BY <1>3, <3>3, <3>4
    <3> QED
      BY <3>3, <3>4, <3>5, <3>6
  <2> QED
    BY <2>1, <2>2 DEF WithdrawalFirst
<1>9. VersionsFollow(u, d, p) /\ PlacesOf(u, d.id) # {}
  <2>1. PlacesOf(s, d.id) = {} => o.version = d.version
    BY <1>2 DEF Descends
  <2> QED
    BY ONLY <1>2, <1>3, <2>1, VersionsGo, IsSeq(s.audit), before = o.version, p.id = d.id,
            Appends(s, u, F, p, before, now)
<1>10. Descends(u, d, p)
  <2>1. p.withdrawal = "pending" => d.fulfillment # "active"
    BY <1>2 DEF Descends
  <2> QED
    BY <1>2, <1>9, <2>1 DEF Descends
<1> QED
  BY <1>6, <1>7, <1>8, <1>9, <1>10 DEF TellsOf

-----------------------------------------------------------------------------
(* Facts, one by one.                                                      *)
LEMMA NoFacts == Facts(<<>>, {})
<1>1. <<>> \in Seq({}) /\ Len(<<>>) = 0
  OBVIOUS
<1> QED
  BY <1>1 DEF Facts, IsSeq

LEMMA OneFact ==
  ASSUME NEW fact
  PROVE  Facts(<<fact>>, {fact.type})
<1> DEFINE F == <<fact>>
<1>1. F \in Seq({fact}) /\ Len(F) = 1 /\ F[1] = fact
  OBVIOUS
<1> HIDE DEF F
<1>2. 1..Len(F) = {1}
  BY <1>1
<1>3. {F[k].type : k \in 1..Len(F)} = {fact.type}
  BY <1>1, <1>2
<1>4. Facts(F, {fact.type})
  BY <1>1, <1>2, <1>3 DEF Facts, IsSeq
<1> QED
  BY <1>4 DEF F

LEMMA MoreFacts ==
  ASSUME NEW F, NEW T, Facts(F, T), NEW fact, fact.type \notin T, NEW more \in BOOLEAN
  PROVE  /\ Facts(F \o Optionally(more, fact), T \cup (IF more THEN {fact.type} ELSE {}))
         /\ \A k \in 1..Len(F) : (F \o Optionally(more, fact))[k] = F[k]
<1>0. PICK S : F \in Seq(S)
  BY DEF Facts, IsSeq
<1>1. CASE ~more
  <2>1. Optionally(more, fact) = <<>> /\ F \o <<>> = F
    BY <1>0, <1>1 DEF Optionally
  <2> QED
    BY <1>1, <2>1
<1>2. CASE more
  <2> DEFINE G == F \o <<fact>>
  <2>1. G \in Seq(S \cup {fact}) /\ Len(G) = Len(F) + 1 /\ Len(F) \in Nat
    BY <1>0
  <2>2. G[Len(F) + 1] = fact /\ \A k \in 1..Len(F) : G[k] = F[k]
    BY <1>0
  <2>3. Optionally(more, fact) = <<fact>>
    BY <1>2 DEF Optionally
  <2> HIDE DEF G
  <2>4. {G[k].type : k \in 1..Len(G)} = T \cup {fact.type}
    <3>1. \A k \in 1..Len(G) : k \in 1..Len(F) \/ k = Len(F) + 1
      BY <2>1
    <3>2. \A k \in 1..Len(F) : k \in 1..Len(G)
      BY <2>1
    <3>3. Len(F) + 1 \in 1..Len(G)
      BY <2>1
    <3> QED
      BY <2>2, <3>1, <3>2, <3>3 DEF Facts
  <2>5. \A k \in 1..Len(F) : F[k].type \in T
    BY DEF Facts
  <2>6. \A j, k \in 1..Len(G) : G[j].type = G[k].type => j = k
    BY <2>1, <2>2, <2>5 DEF Facts
  <2>7. Facts(G, T \cup {fact.type})
    BY <2>1, <2>4, <2>6 DEF Facts, IsSeq
  <2> QED
    BY <1>2, <2>2, <2>3, <2>7 DEF G
<1> QED
  BY <1>1, <1>2
-----------------------------------------------------------------------------
(* A commit that changes one order and appends its events.                 *)
LEMMA Retold ==
  ASSUME NEW s, Sound(s), NEW o \in s.orders, NEW new, new.id = o.id, Fine(new),
         NEW F, IsSeq(F), NEW before, NEW now, NEW u, StoreOK(u), u.layout = s.layout,
         u.orders = (s.orders \ {o}) \cup {new}, Appends(s, u, F, new, before, now),
         \A d \in Drafts : d.id = o.id /\ TellsOf(s, d, o) => TellsOf(u, d, new)
  PROVE  Sound(u) /\ \A d \in Drafts : Tells(s, d) => Tells(u, d)
<1>1. IsSeq(s.audit) /\ StoreOK(s)
  BY DEF Sound
<1>2. Sound(u)
  <2>1. \A x \in s.orders : \E y \in u.orders : y.id = x.id
    OBVIOUS
  <2>2. ASSUME NEW i \in 1..Len(u.audit)
        PROVE  u.audit[i].policy /\ \E y \in u.orders : y.id = u.audit[i].order
    <3>0. Len(s.audit) \in Nat /\ Len(F) \in Nat /\ Len(u.audit) = Len(s.audit) + Len(F)
      BY <1>1, SeqShape DEF Appends
    <3>1. CASE i \in 1..Len(s.audit)
      <4>1. u.audit[i] = s.audit[i]
        BY <3>1 DEF Appends
      <4>2. s.audit[i].policy /\ \E x \in s.orders : x.id = s.audit[i].order
        BY <3>1 DEF Sound
      <4> QED
        BY <2>1, <4>1, <4>2
    <3>2. CASE i \notin 1..Len(s.audit)
      <4>1. i - Len(s.audit) \in 1..Len(F) /\ i = Len(s.audit) + (i - Len(s.audit))
        BY <3>0, <3>2
      <4>2. PICK k \in 1..Len(F) : i = Len(s.audit) + k
        BY <4>1
      <4>3. u.audit[i].policy /\ u.audit[i].order = new.id
        BY <4>2 DEF Appends
      <4> QED
        BY <4>3
    <3> QED
      BY <3>1, <3>2
  <2>3. IsSeq(u.audit) /\ \A y \in u.orders : Fine(y)
    BY DEF Sound, Appends
  <2> QED
    BY <2>2, <2>3 DEF Sound
<1>3. ASSUME NEW d \in Drafts, Tells(s, d) PROVE Tells(u, d)
  <2>1. PICK x \in s.orders : x.id = d.id /\ TellsOf(s, d, x)
    BY <1>3 DEF Tells
  <2>2. CASE x = o
    BY <2>1, <2>2 DEF Tells
  <2>3. CASE x # o
    <3>1. d.id # new.id
      BY <1>1, <2>1, <2>3 DEF StoreOK
    <3>2. PlacesOf(u, d.id) = PlacesOf(s, d.id)
      BY <1>1, <3>1, PlacesAfter
    <3>3. \A i \in PlacesOf(s, d.id) : u.audit[i] = s.audit[i]
      BY <1>1, SeqShape DEF PlacesOf, Appends
    <3>4. TellsOf(u, d, x)
      BY <2>1, <3>2, <3>3, Elsewhere
    <3> QED
      BY <2>1, <2>3, <3>4 DEF Tells
  <2> QED
    BY <2>2, <2>3
<1> QED
  BY <1>2, <1>3

(* No call of another kind is a creation.                                  *)
LEMMA NoCreation ==
  ASSUME NEW c, c.op # "create"
  PROVE  \A d \in Drafts : c # Creation(d)
BY DEF Creation

(* A commit that changes nothing.                                          *)
LEMMA TellsNothing ==
  ASSUME NEW s, Sound(s), NEW c, NEW answer, c.op # "create" \/ answer.form # "value"
  PROVE  Telling(s, c, Outcome(s, answer))
BY NoCreation DEF Telling, Outcome

(* A refusal has no effect.                                                *)
LEMMA RefusalTells ==
  ASSUME NEW s, Sound(s), NEW o \in s.orders, NEW c, NEW fact, NEW answer,
         c.op # "create", answer.form # "value",
         fact.type \in {"command_rejected", "idempotency_conflict"}
  PROVE  Telling(s, c, Refused(s, fact, o, c, Gold, answer))
<1> DEFINE out == Refused(s, fact, o, c, Gold, answer)
           F == <<fact>>
           T == {fact.type}
<1>0. StoreOK(s) /\ IsSeq(s.audit) /\ Fine(o)
  BY DEF Sound
<1>1. StoreOK(out.store)
  BY <1>0, Refuses DEF Good
<1>2. /\ out.store.orders = s.orders /\ out.store.layout = s.layout /\ out.answer = answer
      /\ out.store.audit = Recorded(s, F, o, o.version, c, Gold)
  BY <1>0 DEF Refused, Outcome, StoreOK
<1>3. Facts(F, T) /\ IsSeq(F) /\ T # {} /\ T \cap Effects = {}
  BY OneFact DEF Facts, Effects
<1> HIDE DEF out, F, T
<1>4. PICK u : u = out.store
  OBVIOUS
<1>5. PICK before : before = o.version
  OBVIOUS
<1>6. Appends(s, u, F, o, before, c.now)
  BY <1>0, <1>2, <1>3, <1>4, <1>5, Recording
<1>7. ASSUME NEW d \in Drafts, d.id = o.id, TellsOf(s, d, o) PROVE TellsOf(u, d, o)
  BY <1>0, <1>3, <1>5, <1>6, <1>7, Unaffected
<1>8. u.orders = (s.orders \ {o}) \cup {o}
  BY <1>2, <1>4
<1>9. Sound(u) /\ \A d \in Drafts : Tells(s, d) => Tells(u, d)
  BY <1>0, <1>1, <1>2, <1>3, <1>4, <1>6, <1>7, <1>8, Retold
<1> QED
  BY <1>4, <1>9, NoCreation DEF Telling, out

(* Nor has a replay.                                                       *)
LEMMA ReplayTells ==
  ASSUME NEW s, Sound(s), NEW o \in s.orders, NEW c, IsReplay(s, c), c.op # "create"
  PROVE  Telling(s, c, Replay(s, o, c, Gold))
<1> DEFINE known == CHOOSE r \in s.requests : r.request = c.request
<1>1. CASE known.print # Fingerprint(c)
  <2>1. Replay(s, o, c, Gold) = Refused(s, Fact("idempotency_conflict"), o, c, Gold, Throws)
    BY <1>1 DEF Replay
  <2>2. Fact("idempotency_conflict").type = "idempotency_conflict" /\ Throws.form # "value"
    BY DEF Fact, Throws
  <2> QED
    BY <2>1, <2>2, RefusalTells
<1>2. CASE known.print = Fingerprint(c)
  <2>1. Replay(s, o, c, Gold) = Outcome(s, Gives(known.result))
    BY <1>2 DEF Replay, Gold
  <2> QED
    BY <2>1, TellsNothing
<1> QED
  BY <1>1, <1>2

(* A command that is accepted tells what its facts tell.                   *)
LEMMA SettledTells ==
  ASSUME NEW s, Sound(s), NEW o \in s.orders, NEW new, Sane(new), Fine(new), new.id = o.id,
         new.version = o.version + 1, o.refund = "refunded" => new.refund = "refunded",
         NEW c, ~IsReplay(s, c), c.op \in {"cancel", "withdrawal"}, NEW F, IsSeq(F), NEW value,
         \A u : Appends(s, u, F, new, o.version, c.now) =>
           \A d \in Drafts : d.id = o.id /\ TellsOf(s, d, o) => TellsOf(u, d, new)
  PROVE  Telling(s, c, Settled(s, o, new, c, F, value, Gold))
<1> DEFINE out == Settled(s, o, new, c, F, value, Gold)
<1>0. StoreOK(s) /\ IsSeq(s.audit)
  BY DEF Sound
<1>1. StoreOK(out.store)
  BY <1>0, Settles DEF Good
<1>2. /\ out.store.orders = (s.orders \ {o}) \cup {new} /\ out.store.layout = s.layout
      /\ out.store.audit = Recorded(s, F, new, o.version, c, Gold)
  BY <1>0 DEF Settled, Outcome, StoreOK
<1> HIDE DEF out
<1>4. PICK u : u = out.store
  OBVIOUS
<1>5. PICK before : before = o.version
  OBVIOUS
<1>6. Appends(s, u, F, new, before, c.now)
  BY <1>0, <1>2, <1>4, <1>5, Recording
<1>7. \A d \in Drafts : d.id = o.id /\ TellsOf(s, d, o) => TellsOf(u, d, new)
  BY <1>5, <1>6
<1>8. u.orders = (s.orders \ {o}) \cup {new} /\ StoreOK(u) /\ u.layout = s.layout
  BY <1>1, <1>2, <1>4
<1>9. Sound(u) /\ \A d \in Drafts : Tells(s, d) => Tells(u, d)
  BY <1>6, <1>7, <1>8, Retold
<1> QED
  BY <1>4, <1>9, NoCreation DEF Telling, out
(* A command that asks the carrier, or hears from it that the order stays. *)
LEMMA WaitingTells ==
  ASSUME NEW s, Sound(s), NEW o \in s.orders, o.status # "cancelled",
         o.fulfillment = "active", NEW withdrawal \in Outcomes \cup {"pending"},
         NEW c, ~IsReplay(s, c), c.op \in {"cancel", "withdrawal"}, NEW F, NEW T, NEW value,
         Facts(F, T), T # {}, T \cap Effects = {},
         withdrawal = "pending" => "withdrawal_requested" \in T
  PROVE  Telling(s, c, Settled(s, o, [o EXCEPT !.withdrawal = withdrawal, !.version = @ + 1],
                               c, F, value, Gold))
<1> DEFINE new == [o EXCEPT !.withdrawal = withdrawal, !.version = @ + 1]
<1>0. StoreOK(s) /\ IsSeq(s.audit) /\ Sane(o) /\ Fine(o) /\ IsSeq(F)
  BY DEF Sound, StoreOK, Facts
<1>1. /\ DOMAIN new = Fields /\ new.id = o.id /\ new.version = o.version + 1
      /\ new.version \in Nat /\ new.version > 0 /\ new.refund = o.refund /\ new.status = o.status
      /\ new.fulfillment = o.fulfillment /\ new.withdrawal = withdrawal
      /\ new.paid = o.paid /\ new.list = o.list /\ new.amount = o.amount
      /\ new.coupon = o.coupon /\ new.reserved = o.reserved
  BY <1>0 DEF Sane, Fields
<1> HIDE DEF new
<1>2. Sane(new) /\ Fine(new)
  <2>1. Sane(new)
    BY <1>0, <1>1 DEF Sane
  <2>2. ValidOrder(new)
    BY <1>0, <1>1 DEF Fine, ValidOrder, Outcomes
  <2> QED
    BY <1>0, <1>1, <2>1, <2>2 DEF Fine
<1>3. ASSUME NEW u, Appends(s, u, F, new, o.version, c.now), NEW d \in Drafts,
             d.id = o.id, TellsOf(s, d, o)
      PROVE  TellsOf(u, d, new)
  <2>1. PICK before : before = o.version
    OBVIOUS
  <2>2. Appends(s, u, F, new, before, c.now)
    BY <1>3, <2>1
  <2>3. o.fulfillment # "handed_off" /\ new.id = d.id
    BY <1>1, <1>3
  <2>4. new.withdrawal = "pending" => "withdrawal_requested" \in T
    BY <1>1
  <2> QED
    BY <1>0, <1>1, <1>3, <2>1, <2>2, <2>3, <2>4, Unaffected
<1>4. Telling(s, c, Settled(s, o, new, c, F, value, Gold))
  BY <1>0, <1>1, <1>2, <1>3, SettledTells
<1> QED
  BY <1>4 DEF new

(* A cancellation tells its effects.                                       *)
LEMMA FinalizeTells ==
  ASSUME OrdersAreNew, NEW s, Sound(s), NEW o \in s.orders, o.status # "cancelled",
         o.fulfillment # "handed_off", NEW c, ~IsReplay(s, c), c.op \in {"cancel", "withdrawal"},
         NEW facts, NEW prefix, Facts(facts, prefix), prefix \subseteq {"withdrawal_completed"},
         o.fulfillment = "active" => o.withdrawal = "pending" /\ prefix # {}
  PROVE  Telling(s, c, Finalize(s, o, c, facts, Gold))
<1> DEFINE refunds == o.status = "paid"
           restores == /\ o.coupon.held
                       /\ "restore_expired_coupon" \in Gold \/ o.coupon.until >= c.now
                       /\ ~o.coupon.restored
           sum == IF ~refunds THEN 0
                  ELSE IF "refund_list_amount_or_wrong_currency" \in Gold THEN o.list ELSE o.paid
           new == [o EXCEPT
                !.status = "cancelled",
                !.withdrawal = IF o.fulfillment = "active" THEN "completed" ELSE @,
                !.reserved = FALSE,
                !.coupon.restored = restores,
                !.refund = IF refunds THEN "pending" ELSE "none",
                !.amount = sum,
                !.version = @ + 1]
           refund == [Fact("refund_requested") EXCEPT !.amount = sum, !.currency = o.currency]
           more == [refund EXCEPT !.currency = "none"]
           F1 == facts \o <<Fact("order_cancelled")>>
           F2 == F1 \o Optionally(o.reserved, Fact("inventory_compensated"))
           F3 == F2 \o Optionally(restores, Fact("coupon_restored"))
           F4 == F3 \o Optionally(refunds, refund)
           T1 == prefix \cup {"order_cancelled"}
           T2 == T1 \cup (IF o.reserved THEN {"inventory_compensated"} ELSE {})
           T3 == T2 \cup (IF restores THEN {"coupon_restored"} ELSE {})
           T4 == T3 \cup (IF refunds THEN {"refund_requested"} ELSE {})
<1>0. StoreOK(s) /\ IsSeq(s.audit) /\ Sane(o) /\ Fine(o) /\ o.refund = "none"
  BY DEF Sound, StoreOK, Sane
<1>1. /\ restores \in BOOLEAN /\ refunds \in BOOLEAN /\ o.reserved \in BOOLEAN
      /\ restores <=> o.coupon.held /\ o.coupon.until >= c.now /\ ~o.coupon.restored
      /\ sum = IF refunds THEN o.paid ELSE 0
  BY <1>0 DEF Gold, Fine
<1>2. Fact("order_cancelled").type = "order_cancelled"
      /\ Fact("inventory_compensated").type = "inventory_compensated"
      /\ Fact("coupon_restored").type = "coupon_restored" /\ refund.type = "refund_requested"
  BY DEF Fact
<1>3. PICK value : Finalize(s, o, c, facts, Gold) =
                     Settled(s, o, new, c, F4 \o Optionally(refunds /\ "malformed_refund_effect" \in Gold, more),
                             value, Gold)
  BY DEF Finalize
<1>4. /\ DOMAIN new = Fields /\ new.id = o.id /\ new.version = o.version + 1
      /\ new.version \in Nat /\ new.version > 0
      /\ new.refund = (IF o.status = "paid" THEN "pending" ELSE "none")
      /\ new.status = "cancelled" /\ new.fulfillment = o.fulfillment
      /\ new.withdrawal = (IF o.fulfillment = "active" THEN "completed" ELSE o.withdrawal)
      /\ new.paid = o.paid /\ new.list = o.list /\ new.amount = sum
      /\ new.reserved = FALSE
  BY <1>0 DEF Sane, Fields
<1>5. /\ DOMAIN new.coupon = {"held", "until", "restored"} /\ new.coupon.restored = restores
      /\ new.coupon.held = o.coupon.held /\ new.coupon.until = o.coupon.until
  <2>1. new.coupon = [o.coupon EXCEPT !.restored = restores]
    BY <1>0 DEF Sane, Fields
  <2>2. DOMAIN o.coupon = {"held", "until", "restored"}
    BY <1>0 DEF Fine
  <2> HIDE DEF new, restores
  <2> QED
    BY <2>1, <2>2
<1> HIDE DEF new, restores, sum, refund, more, F1, F2, F3, F4
<1>6. /\ Facts(F1, T1) /\ \A k \in 1..Len(facts) : F1[k] = facts[k]
  <2>0. PICK always \in BOOLEAN : always
    OBVIOUS
  <2>1. F1 = facts \o Optionally(always, Fact("order_cancelled"))
    BY <2>0 DEF F1, Optionally
  <2>2. Fact("order_cancelled").type \notin prefix
    BY <1>2
  <2>3. /\ Facts(facts \o Optionally(always, Fact("order_cancelled")),
                 prefix \cup (IF always THEN {Fact("order_cancelled").type} ELSE {}))
        /\ \A k \in 1..Len(facts) :
             (facts \o Optionally(always, Fact("order_cancelled")))[k] = facts[k]
    BY <2>2, MoreFacts
  <2> QED
    BY <1>2, <2>0, <2>1, <2>3
<1>7. Facts(F2, T2) /\ \A k \in 1..Len(F1) : F2[k] = F1[k]
  <2>1. Fact("inventory_compensated").type \notin T1
    BY <1>2
  <2>2. /\ Facts(F1 \o Optionally(o.reserved, Fact("inventory_compensated")),
                 T1 \cup (IF o.reserved THEN {Fact("inventory_compensated").type} ELSE {}))
        /\ \A k \in 1..Len(F1) :
             (F1 \o Optionally(o.reserved, Fact("inventory_compensated")))[k] = F1[k]
    BY <1>1, <1>6, <2>1, MoreFacts
  <2> QED
    BY <1>2, <2>2 DEF F2
<1>8. Facts(F3, T3) /\ \A k \in 1..Len(F2) : F3[k] = F2[k]
  <2>1. Fact("coupon_restored").type \notin T2
    BY <1>2
  <2>2. /\ Facts(F2 \o Optionally(restores, Fact("coupon_restored")),
                 T2 \cup (IF restores THEN {Fact("coupon_restored").type} ELSE {}))
        /\ \A k \in 1..Len(F2) :
             (F2 \o Optionally(restores, Fact("coupon_restored")))[k] = F2[k]
    BY <1>1, <1>7, <2>1, MoreFacts
  <2> QED
    BY <1>2, <2>2 DEF F3
<1>9. Facts(F4, T4) /\ \A k \in 1..Len(F3) : F4[k] = F3[k]
  <2> HIDE DEF refunds
  <2>1. refund.type \notin T3
    BY <1>2
  <2>2. /\ Facts(F3 \o Optionally(refunds, refund),
                 T3 \cup (IF refunds THEN {refund.type} ELSE {}))
        /\ \A k \in 1..Len(F3) : (F3 \o Optionally(refunds, refund))[k] = F3[k]
    BY <1>1, <1>8, <2>1, MoreFacts
  <2> QED
    BY <1>2, <2>2 DEF F4
<1>10. F4 \o Optionally(refunds /\ "malformed_refund_effect" \in Gold, more) = F4
  <2>1. Optionally(refunds /\ "malformed_refund_effect" \in Gold, more) = <<>>
    BY DEF Optionally, Gold
  <2>2. PICK S : F4 \in Seq(S)
    BY <1>9 DEF Facts, IsSeq
  <2>3. F4 \o <<>> = F4
    BY <2>2
  <2> QED
    BY <2>1, <2>3
<1>11. T4 = CancelFacts(o, prefix, restores)
  BY DEF CancelFacts
<1>12. o.fulfillment = "active" => F4[1].type = "withdrawal_completed"
  <2> SUFFICES ASSUME o.fulfillment = "active" PROVE F4[1].type = "withdrawal_completed"
    OBVIOUS
  <2>1. prefix = {"withdrawal_completed"}
    OBVIOUS
  <2>2. PICK k \in 1..Len(facts) : TRUE
    BY <2>1 DEF Facts
  <2>3. 1 \in 1..Len(facts) /\ facts[1].type \in prefix
    BY <2>2, SeqShape DEF Facts
  <2>4. Len(facts) \in Nat /\ Len(F1) \in Nat /\ Len(F2) \in Nat /\ Len(F3) \in Nat
    BY <1>6, <1>7, <1>8, SeqShape DEF Facts
  <2>5. PICK j \in 1..Len(F1) : F1[j].type = "order_cancelled"
    BY <1>6 DEF Facts
  <2>6. PICK j2 \in 1..Len(F2) : F2[j2].type = "order_cancelled"
    BY <1>7 DEF Facts
  <2>7. PICK j3 \in 1..Len(F3) : F3[j3].type = "order_cancelled"
    BY <1>8 DEF Facts
  <2>8. F1[1] = facts[1] /\ F2[1] = F1[1] /\ F3[1] = F2[1] /\ F4[1] = F3[1]
    BY <1>6, <1>7, <1>8, <1>9, <2>3, <2>4, <2>5, <2>6, <2>7
  <2> QED
    BY <2>1, <2>3, <2>8
<1>13. Sane(new) /\ Fine(new)
  <2>1. Sane(new)
    BY <1>0, <1>4 DEF Sane
  <2>2. sum \in Nat /\ sum <= o.paid
    BY <1>0, <1>1 DEF Fine
  <2>3. ValidOrder(new)
    BY <1>0, <1>4, <2>2 DEF Fine, ValidOrder
  <2> QED
    BY <1>0, <1>1, <1>4, <1>5, <2>1, <2>2, <2>3 DEF Fine
<1> HIDE DEF T1, T2, T3, T4, refunds
<1>14. ASSUME NEW u, Appends(s, u, F4, new, o.version, c.now), NEW d \in Drafts,
              d.id = o.id, TellsOf(s, d, o)
       PROVE  TellsOf(u, d, new)
  <2>1. PICK before : before = o.version
    OBVIOUS
  <2>2. Appends(s, u, F4, new, before, c.now)
    BY <1>14, <2>1
  <2>3. d.reserved \in BOOLEAN
    BY DEF OrdersAreNew, Order
  <2>4. /\ o.fulfillment = "active" => /\ o.withdrawal = "pending"
                                       /\ F4[1].type = "withdrawal_completed"
                                       /\ new.withdrawal = "completed" /\ prefix # {}
        /\ o.status = "paid" => new.amount = o.paid
    BY <1>1, <1>4, <1>12 DEF refunds
  <2>5. o.coupon.restored \in BOOLEAN /\ new.id = d.id
    BY <1>0, <1>4, <1>14 DEF Fine
  <2> QED
    BY <1>0, <1>1, <1>4, <1>5, <1>9, <1>11, <1>14, <2>1, <2>2, <2>3, <2>4, <2>5, Cancelling
<1>15. IsSeq(F4)
  BY <1>9 DEF Facts
<1>16. Telling(s, c, Settled(s, o, new, c, F4, value, Gold))
  BY <1>0, <1>4, <1>13, <1>14, <1>15, SettledTells
<1> QED
  BY <1>3, <1>10, <1>16
-----------------------------------------------------------------------------
(* cancelOrder tells what it does.                                         *)
LEMMA CancelTells ==
  ASSUME OrdersAreNew, NEW s, Sound(s), NEW c, c.op = "cancel"
  PROVE  Telling(s, c, CancelOrder(s, c, Gold))
<1> DEFINE o == OrderNamed(s, c.order)
           refusal == Refusal(o, c, Gold)
           out == CancelOrder(s, c, Gold)
<1>1. CASE OrdersNamed(s, c.order) = {}
  <2>1. out = Outcome(s, Throws)
    BY <1>1 DEF CancelOrder
  <2> QED
    BY <2>1, TellsNothing DEF Throws
<1>2. ASSUME OrdersNamed(s, c.order) # {} PROVE Telling(s, c, out)
  <2>1. o \in s.orders
    BY <1>2, Named
  <2>2. CASE IsReplay(s, c)
    <3>1. out = Replay(s, o, c, Gold)
      BY <1>2, <2>2 DEF CancelOrder
    <3> QED
      BY <3>1, <2>1, <2>2, ReplayTells
  <2>3. CASE ~IsReplay(s, c) /\ refusal # "none"
    <3>1. PICK reason : out = Refused(s, [Fact("command_rejected") EXCEPT !.reason = reason],
                                      o, c, Gold, Throws)
      BY <1>2, <2>3 DEF CancelOrder, Gold
    <3>2. [Fact("command_rejected") EXCEPT !.reason = reason].type = "command_rejected"
      BY DEF Fact
    <3> QED
      BY <3>1, <3>2, <2>1, RefusalTells DEF Throws
  <2>4. CASE ~IsReplay(s, c) /\ refusal = "none"
    <3>1. o.status # "cancelled" /\ o.fulfillment # "handed_off"
      BY <2>4 DEF Refusal, Gold
    <3>2. CASE o.fulfillment = "active"
      <4> DEFINE F == <<Fact("cancellation_requested"), Fact("withdrawal_requested")>>
                 T == {"cancellation_requested", "withdrawal_requested"}
      <4>1. PICK value : out = Settled(s, o, [o EXCEPT !.withdrawal = "pending", !.version = @ + 1],
                                       c, F, value, Gold)
        BY <1>2, <2>4, <3>2 DEF CancelOrder, RequestWithdrawal, Gold
      <4>2. Facts(F, T)
        <5> DEFINE first == Fact("cancellation_requested")
                   second == Fact("withdrawal_requested")
        <5>1. first.type = "cancellation_requested" /\ second.type = "withdrawal_requested"
          BY DEF Fact
        <5>2. F \in Seq({first, second}) /\ Len(F) = 2 /\ F[1] = first /\ F[2] = second
          OBVIOUS
        <5> HIDE DEF F, first, second
        <5>3. 1..Len(F) = {1, 2}
          BY <5>2
        <5>4. {F[k].type : k \in 1..Len(F)} = T
          BY <5>1, <5>2, <5>3
        <5> QED
          BY <5>1, <5>2, <5>3, <5>4 DEF Facts, IsSeq
      <4>3. T # {} /\ T \cap Effects = {} /\ "withdrawal_requested" \in T
        BY DEF Effects
      <4> HIDE DEF F, T
      <4>4. PICK w : w = "pending"
        OBVIOUS
      <4>5. Telling(s, c, Settled(s, o, [o EXCEPT !.withdrawal = w, !.version = @ + 1],
                                  c, F, value, Gold))
        BY <2>1, <2>4, <3>1, <3>2, <4>2, <4>3, <4>4, WaitingTells
      <4> QED
        BY <4>1, <4>4, <4>5
    <3>3. CASE o.fulfillment # "active"
      <4>1. out = Finalize(s, o, c, <<>>, Gold)
        BY <1>2, <2>4, <3>3 DEF CancelOrder
      <4>2. Facts(<<>>, {}) /\ {} \subseteq {"withdrawal_completed"}
        BY NoFacts
      <4>3. PICK prefix : prefix = {}
        OBVIOUS
      <4>4. PICK facts : facts = <<>>
        OBVIOUS
      <4> QED
        BY <2>1, <2>4, <3>1, <3>3, <4>1, <4>2, <4>3, <4>4, FinalizeTells
    <3> QED
      BY <3>2, <3>3
  <2> QED
    BY <2>2, <2>3, <2>4
<1> QED
  BY <1>1, <1>2

(* So does resolveWithdrawal.                                              *)
LEMMA WithdrawalTells ==
  ASSUME OrdersAreNew, NEW s, Sound(s), NEW c, c.op = "withdrawal", c.outcome \in Outcomes
  PROVE  Telling(s, c, ResolveWithdrawal(s, c, Gold))
<1> DEFINE o == OrderNamed(s, c.order)
           out == ResolveWithdrawal(s, c, Gold)
<1>1. CASE OrdersNamed(s, c.order) = {}
  <2>1. out = Outcome(s, Throws)
    BY <1>1 DEF ResolveWithdrawal
  <2> QED
    BY <2>1, TellsNothing DEF Throws
<1>2. ASSUME OrdersNamed(s, c.order) # {} PROVE Telling(s, c, out)
  <2>1. o \in s.orders /\ Sane(o)
    BY <1>2, Named DEF Sound, StoreOK
  <2>2. CASE IsReplay(s, c)
    <3>1. out = Replay(s, o, c, Gold)
      BY <1>2, <2>2 DEF ResolveWithdrawal
    <3> QED
      BY <3>1, <2>1, <2>2, ReplayTells
  <2>3. CASE ~IsReplay(s, c) /\ (o.withdrawal # "pending" \/ o.fulfillment # "active")
    <3>1. out = Refused(s, Fact("command_rejected"), o, c, Gold, Throws)
      BY <1>2, <2>3 DEF ResolveWithdrawal
    <3>2. Fact("command_rejected").type = "command_rejected"
      BY DEF Fact
    <3> QED
      BY <3>1, <3>2, <2>1, RefusalTells DEF Throws
  <2>4. CASE ~IsReplay(s, c) /\ o.withdrawal = "pending" /\ o.fulfillment = "active"
    <3>1. o.status # "cancelled"
      BY <2>1, <2>4 DEF Sane
    <3>2. CASE c.outcome = "completed"
      <4> DEFINE facts == <<Fact("withdrawal_completed")>>
      <4>1. out = Finalize(s, o, c, facts, Gold)
        BY <1>2, <2>4, <3>2 DEF ResolveWithdrawal
      <4>2. Facts(facts, {"withdrawal_completed"})
        <5>1. Fact("withdrawal_completed").type = "withdrawal_completed"
          BY DEF Fact
        <5> QED
          BY <5>1, OneFact
      <4> HIDE DEF facts
      <4>3. PICK prefix : prefix = {"withdrawal_completed"}
        OBVIOUS
      <4> QED
        BY <2>1, <2>4, <3>1, <4>1, <4>2, <4>3, FinalizeTells
    <3>3. CASE c.outcome # "completed"
      <4> DEFINE fact == Fact(IF c.outcome = "rejected" THEN "withdrawal_rejected"
                              ELSE "withdrawal_failed")
                 F == <<fact>>
      <4>1. PICK value : out = Settled(s, o, [o EXCEPT !.withdrawal = c.outcome, !.version = @ + 1],
                                       c, F, value, Gold)
        BY <1>2, <2>4, <3>3 DEF ResolveWithdrawal, Gold
      <4>2. fact.type \in {"withdrawal_rejected", "withdrawal_failed"}
        BY DEF Fact
      <4>3. PICK T : T = {fact.type}
        OBVIOUS
      <4>4. Facts(F, T) /\ T # {} /\ T \cap Effects = {}
        BY <4>2, <4>3, OneFact DEF Effects
      <4>5. c.outcome # "pending"
        BY DEF Outcomes
      <4> HIDE DEF F
      <4>6. PICK w : w = c.outcome
        OBVIOUS
      <4>7. Telling(s, c, Settled(s, o, [o EXCEPT !.withdrawal = w, !.version = @ + 1],
                                  c, F, value, Gold))
        BY <2>1, <2>4, <3>1, <4>4, <4>5, <4>6, WaitingTells
      <4> QED
        BY <4>1, <4>6, <4>7
    <3> QED
      BY <3>2, <3>3
  <2> QED
    BY <2>2, <2>3, <2>4
<1> QED
  BY <1>1, <1>2

(* And markRefunded.                                                       *)
LEMMA RefundedTells ==
  ASSUME OrdersAreOpen, NEW s, Sound(s), NEW c, c.op = "refunded"
  PROVE  Telling(s, c, MarkRefunded(s, c, Gold))
<1> DEFINE o == OrderNamed(s, c.order)
           new == [o EXCEPT !.refund = "refunded", !.version = @ + 1]
           last == Last(EventsOf(s, c.order))
           fact == [Fact("refund_completed") EXCEPT !.amount = o.amount, !.currency = o.currency]
           cause == [request |-> last.request, provider |-> "none", now |-> last.at]
           F == <<fact>>
           out == MarkRefunded(s, c, Gold)
<1>0. StoreOK(s) /\ IsSeq(s.audit)
  BY DEF Sound
<1>1. CASE OrdersNamed(s, c.order) = {}
  <2>1. out = Outcome(s, Throws)
    BY <1>1 DEF MarkRefunded
  <2> QED
    BY <2>1, TellsNothing DEF Throws
<1>2. ASSUME OrdersNamed(s, c.order) # {} PROVE Telling(s, c, out)
  <2>1. o \in s.orders /\ Sane(o) /\ Fine(o)
    BY <1>2, Named DEF Sound, StoreOK
  <2>2. CASE o.refund = "refunded"
    <3>1. out = Outcome(s, Gives(o))
      BY <1>2, <2>2 DEF MarkRefunded
    <3> QED
      BY <3>1, TellsNothing
  <2>3. CASE /\ o.refund # "refunded"
             /\ o.status # "cancelled" \/ o.refund # "pending" \/ EventsOf(s, c.order) = <<>>
    <3>1. out = Outcome(s, Throws)
      BY <1>2, <2>3 DEF MarkRefunded
    <3> QED
      BY <3>1, TellsNothing DEF Throws
  <2>4. CASE /\ o.refund = "pending" /\ o.status = "cancelled" /\ EventsOf(s, c.order) # <<>>
    <3>1. out = Outcome([s EXCEPT !.orders = (@ \ {o}) \cup {new},
                           !.audit = Recorded(s, F, new, o.version, cause, Gold)], Gives(new))
      BY <1>2, <2>4 DEF MarkRefunded
    <3>2. /\ DOMAIN new = Fields /\ new.id = o.id /\ new.version = o.version + 1
          /\ new.version \in Nat /\ new.version > 0 /\ new.refund = "refunded"
          /\ new.status = o.status /\ new.withdrawal = o.withdrawal
          /\ new.fulfillment = o.fulfillment /\ new.paid = o.paid /\ new.list = o.list
          /\ new.amount = o.amount /\ new.coupon = o.coupon /\ new.reserved = o.reserved
      BY <2>1 DEF Sane, Fields
    <3>3. fact.type = "refund_completed"
      BY DEF Fact
    <3>4. StoreOK(out.store)
      BY <1>0, RefundedGood DEF Good
    <3>5. PICK T : T = {"refund_completed"}
      OBVIOUS
    <3>6. Facts(F, T) /\ IsSeq(F)
      <4>1. Facts(F, {fact.type})
        BY OneFact
      <4> HIDE DEF F, fact
      <4> QED
        BY <3>3, <3>5, <4>1 DEF Facts
    <3> HIDE DEF new, fact, cause, last, F, out
    <3>7. /\ out.store.orders = (s.orders \ {o}) \cup {new} /\ out.store.layout = s.layout
          /\ out.store.audit = Recorded(s, F, new, o.version, cause, Gold)
      BY <1>0, <3>1 DEF Outcome, StoreOK
    <3>8. Fine(new)
      <4>1. ValidOrder(new)
        BY <2>1, <3>2 DEF Fine, ValidOrder
      <4> QED
        BY <2>1, <3>2, <4>1 DEF Fine
    <3>9. PICK u : u = out.store
      OBVIOUS
    <3>10. PICK before : before = o.version
      OBVIOUS
    <3>11. Appends(s, u, F, new, before, cause.now)
      BY <1>0, <3>6, <3>7, <3>9, <3>10, Recording
    <3>12. ASSUME NEW d \in Drafts, d.id = o.id, TellsOf(s, d, o) PROVE TellsOf(u, d, new)
      <4>1. d.status # "cancelled" /\ new.id = d.id
        BY <3>2, <3>12 DEF OrdersAreOpen
      <4>2. o.refund = "pending" /\ o.status = "cancelled"
        BY <2>4
      <4>3. PICK now : Appends(s, u, F, new, before, now)
        BY <3>11
      <4> HIDE DEF o
      <4> QED
        BY ONLY <1>0, <4>2, <3>2, <3>5, <3>6, <3>10, <4>3, <3>12, <4>1, Refunding
    <3>13. Sound(u) /\ \A d \in Drafts : Tells(s, d) => Tells(u, d)
      <4>1. u.orders = (s.orders \ {o}) \cup {new} /\ u.layout = s.layout /\ StoreOK(u)
        BY <3>4, <3>7, <3>9
      <4> QED
        BY <2>1, <3>2, <3>6, <3>8, <3>11, <3>12, <4>1, Retold
    <3> QED
      BY <3>9, <3>13, NoCreation DEF Telling
  <2> QED
    BY <2>1, <2>2, <2>3, <2>4
<1> QED
  BY <1>1, <1>2
(* createOrder begins a trail: there is no event of an order that is not.  *)
LEMMA CreateTells ==
  ASSUME OrdersAreNew, OrdersAreOpen, NEW s, Sound(s), NEW draft \in Drafts, NEW c,
         c = Creation(draft)
  PROVE  Telling(s, c, CreateOrder(s, c, Gold))
<1> DEFINE u == [s EXCEPT !.orders = @ \cup {draft}]
<1>0. /\ StoreOK(s) /\ IsSeq(s.audit) /\ c.op = "create" /\ c.draft = draft /\ draft \in Order
      /\ draft.withdrawal = "none" /\ draft.refund = "none" /\ draft.status # "cancelled"
      /\ ~draft.coupon.restored
  BY DEF Sound, Creation, OrdersAreNew, OrdersAreOpen
<1>1. CASE ~(ValidOrder(draft) /\ OrdersNamed(s, draft.id) = {})
  <2>1. CreateOrder(s, c, Gold) = Outcome(s, Throws)
    BY <1>0, <1>1 DEF CreateOrder
  <2> QED
    BY <2>1, TellsNothing DEF Throws
<1>2. CASE ValidOrder(draft) /\ OrdersNamed(s, draft.id) = {}
  <2>1. CreateOrder(s, c, Gold) = Outcome(u, Done)
    BY <1>0, <1>2 DEF CreateOrder
  <2>2. u.orders = s.orders \cup {draft} /\ u.audit = s.audit /\ u.layout = s.layout
    BY <1>0 DEF StoreOK
  <2>3. StoreOK(u)
    <3>1. Good(s, c, CreateOrder(s, c, Gold))
      BY <1>0, CreateGood
    <3>2. CreateOrder(s, c, Gold).store = u
      BY <2>1 DEF Outcome
    <3> HIDE DEF u
    <3> QED
      BY <3>1, <3>2 DEF Good
  <2> HIDE DEF u
  <2>4. Fine(draft)
    <3>1. /\ draft.list \in Nat /\ draft.paid \in Nat /\ draft.amount \in Nat
          /\ draft.reserved \in BOOLEAN
          /\ draft.coupon \in [held : BOOLEAN, until : Nat, restored : BOOLEAN]
      BY <1>0 DEF Order
    <3> QED
      BY <1>2, <3>1 DEF Fine
  <2>5. Sound(u)
    BY <2>2, <2>3, <2>4 DEF Sound
  <2>6. \A d : PlacesOf(u, d.id) = PlacesOf(s, d.id)
    BY <2>2 DEF PlacesOf
  <2>7. ASSUME NEW d \in Drafts, Tells(s, d) PROVE Tells(u, d)
    <3>1. PICK x \in s.orders : x.id = d.id /\ TellsOf(s, d, x)
      BY <2>7 DEF Tells
    <3>2. TellsOf(u, d, x)
      BY <2>2, <2>6, <3>1, Elsewhere
    <3> QED
      BY <2>2, <3>1, <3>2 DEF Tells
  <2>8. PlacesOf(u, draft.id) = {}
    <3>1. \A i \in 1..Len(s.audit) : s.audit[i].order # draft.id
      BY <1>2 DEF Sound, OrdersNamed
    <3> QED
      BY <1>0, <2>2, <3>1, SeqShape DEF PlacesOf
  <2>9. \A type : Places(u, draft.id, type) = {} /\ ~Happened(u, draft.id, type)
    BY <2>8 DEF Places, Happened
  <2>10. TellsOf(u, draft, draft)
    <3>1. EffectsOnce(u, draft.id)
      BY <2>9 DEF EffectsOnce
    <3>2. EffectsOf(u, draft, draft)
      <4>1. draft.reserved \in BOOLEAN
        BY <2>4 DEF Fine
      <4>2. draft.reserved = (draft.reserved /\ ~FALSE)
        BY <4>1
      <4>3. /\ Places(u, draft.id, "order_cancelled") = {}
            /\ ~Happened(u, draft.id, "order_cancelled")
            /\ ~Happened(u, draft.id, "inventory_compensated")
            /\ ~Happened(u, draft.id, "coupon_restored")
            /\ ~Happened(u, draft.id, "refund_requested")
            /\ ~Happened(u, draft.id, "refund_completed")
            /\ ~Happened(u, draft.id, "withdrawal_completed")
        BY <2>9
      <4> QED
        BY <1>0, <4>1, <4>2, <4>3 DEF EffectsOf
    <3>3. WithdrawalFirst(u, draft, draft)
      BY <1>0 DEF WithdrawalFirst
    <3>4. VersionsFollow(u, draft, draft)
      BY <2>8 DEF VersionsFollow
    <3>5. Descends(u, draft, draft)
      BY <1>0, <2>9 DEF Descends
    <3> QED
      BY <3>1, <3>2, <3>3, <3>4, <3>5 DEF TellsOf
  <2>11. \A d \in Drafts : c = Creation(d) => d = draft
    BY <1>0 DEF Creation
  <2>12. Tells(u, draft)
    BY <2>2, <2>10 DEF Tells
  <2> QED
    BY <2>1, <2>5, <2>7, <2>11, <2>12 DEF Telling, Outcome
<1> QED
  BY <1>1, <1>2

(* Every operation does.                                                   *)
LEMMA OperateTells ==
  ASSUME OrdersAreNew, OrdersAreOpen, NEW s, Sound(s), NEW c \in Calls
  PROVE  Telling(s, c, Operate(s, c, Gold))
<1>0. "not_implemented" \notin Gold
  BY DEF Gold
<1>1. CASE c \notin OrderCommands
  <2>1. PICK d \in Drafts : c = Creation(d)
    BY <1>1 DEF Calls
  <2>2. c.op = "create"
    BY <2>1 DEF Creation
  <2>3. Operate(s, c, Gold) = CreateOrder(s, c, Gold)
    BY <1>0, <2>2 DEF Operate
  <2> QED
    BY <2>1, <2>3, CreateTells
<1>2. CASE c \in OrderCommands
  <2>1. CASE c.op = "cancel"
    <3>1. Operate(s, c, Gold) = CancelOrder(s, c, Gold)
      BY <1>0, <2>1 DEF Operate
    <3> QED
      BY <3>1, <2>1, CancelTells
  <2>2. CASE c.op = "withdrawal"
    <3>1. Operate(s, c, Gold) = ResolveWithdrawal(s, c, Gold)
      BY <1>0, <2>2 DEF Operate
    <3> QED
      BY <1>2, <3>1, <2>2, WithdrawalTells DEF OrdersAreNew
  <2>3. CASE c.op = "refunded"
    <3>1. Operate(s, c, Gold) = MarkRefunded(s, c, Gold)
      BY <1>0, <2>3 DEF Operate
    <3> QED
      BY <3>1, <2>3, RefundedTells
  <2>4. CASE c.op \in {"get", "audit", "retention"}
    <3>1. PICK answer : Operate(s, c, Gold) = Outcome(s, answer)
      <4>1. CASE c.op = "get"
        BY <1>0, <4>1 DEF Operate, GetOrder
      <4>2. CASE c.op = "audit"
        BY <1>0, <4>2 DEF Operate, GetAuditEvents
      <4>3. CASE c.op = "retention"
        BY <1>0, <4>3 DEF Operate, GetRetentionPolicy
      <4> QED
        BY <2>4, <4>1, <4>2, <4>3
    <3> QED
      BY <2>4, <3>1, TellsNothing
  <2> QED
    BY <1>2, <2>1, <2>2, <2>3, <2>4 DEF OrdersAreNew
<1> QED
  BY <1>1, <1>2

-----------------------------------------------------------------------------
(***************************************************************************)
(* The stores of the memory and of the file are sound, and the file tells  *)
(* of every order whose creation a client was told.                        *)
(***************************************************************************)
Told(t, s) ==
  \A d \in Drafts : t.call = Creation(d) /\ t.answer.form = "value" => Tells(s, d)

AuditInv ==
  /\ Sound(memory) /\ Sound(Stored)
  /\ \A t \in told : Told(t, Stored)

LEMMA EmptySound == Sound(EmptyStore(Gold))
<1>1. <<>> \in Seq({}) /\ Len(<<>>) = 0
  OBVIOUS
<1>2. IsSeq(<<>>) /\ \A i : i \notin 1..Len(<<>>)
  BY <1>1 DEF IsSeq
<1>3. EmptyStore(Gold).audit = <<>> /\ EmptyStore(Gold).orders = {}
      /\ EmptyStore(Gold).layout = Layout(Gold)
  BY DEF EmptyStore
<1> QED
  BY <1>2, <1>3, EmptyOK DEF Sound

LEMMA AuditInvInit == OrderInit => AuditInv
BY EmptySound DEF OrderInit, AuditInv, Stored

(* The file takes in an outcome before anyone is told of it.               *)
LEMMA AuditInvNext ==
  ASSUME OrdersAreNew, OrdersAreOpen, OrderInv, AuditInv, [OrderNext]_orderVars
  PROVE  AuditInv'
<1> DEFINE out == Operate(memory, Head(queue), Gold)
<1>0. queue # <<>> => Telling(memory, Head(queue), out)
  <2>1. queue # <<>> => Head(queue) \in Calls
    BY DEF OrderInv
  <2> QED
    BY <2>1, OperateTells DEF AuditInv
<1>1. CASE UNCHANGED <<memory, disk, told>>
  BY <1>1 DEF AuditInv, Stored
<1>2. CASE OpenFile
  <2>1. Stored' = Stored /\ memory' = Stored /\ told' = told
    BY <1>2 DEF OpenFile, Stored
  <2> QED
    BY <2>1 DEF AuditInv
<1>3. CASE BeginCommit
  <2>1. serving /\ queue # <<>> /\ writing = <<>> /\ memory' = memory /\ Stored' = Stored
    BY <1>3 DEF BeginCommit, Stored
  <2>2. Stored = memory
    BY <2>1 DEF OrderInv, Underway
  <2>3. CASE out.store = memory
    <3>1. told' = told \cup {[call |-> Head(queue), answer |-> out.answer]}
      BY <1>3, <2>3 DEF BeginCommit, Answer
    <3>2. Told([call |-> Head(queue), answer |-> out.answer], Stored)
      BY <1>0, <2>1, <2>2, <2>3 DEF Telling, Told
    <3> QED
      BY <2>1, <3>1, <3>2 DEF AuditInv
  <2>4. CASE out.store # memory
    <3>1. told' = told
      BY <1>3, <2>4 DEF BeginCommit
    <3> QED
      BY <2>1, <3>1 DEF AuditInv
  <2> QED
    BY <2>3, <2>4
<1>4. CASE PersistState
  <2>1. writing # <<>> /\ ~writing[1].durable
    BY <1>4 DEF PersistState
  <2>2. serving /\ queue # <<>> /\ Underway(FALSE) /\ ~Underway(TRUE) /\ Stored = memory
    BY <2>1 DEF OrderInv, Underway
  <2>3. Stored' = out.store /\ memory' = memory /\ told' = told
    BY <1>4, <2>2 DEF PersistState, Underway, Stored
  <2> QED
    BY <1>0, <2>2, <2>3 DEF AuditInv, Telling, Told
<1>5. CASE PersistFails
  <2>1. told' = told \cup {[call |-> Head(queue), answer |-> Throws]}
        /\ Stored' = Stored /\ memory' = memory
    BY <1>5 DEF PersistFails, Answer, Stored
  <2>2. Told([call |-> Head(queue), answer |-> Throws], Stored)
    BY DEF Told, Throws
  <2> QED
    BY <2>1, <2>2 DEF AuditInv
<1>6. CASE Deliver
  <2>1. queue # <<>> /\ Underway(TRUE) /\ Stored = out.store
    BY <1>6 DEF Deliver, OrderInv, Underway
  <2>2. memory' = out.store /\ told' = told \cup {[call |-> Head(queue), answer |-> out.answer]}
        /\ Stored' = Stored
    BY <1>6, <2>1 DEF Deliver, Underway, Answer, Stored
  <2>3. Told([call |-> Head(queue), answer |-> out.answer], Stored)
    BY <1>0, <2>1 DEF Telling, Told
  <2> QED
    BY <1>0, <2>1, <2>2, <2>3 DEF AuditInv, Telling
<1>7. CASE ServiceDies
  <2>1. memory' = EmptyStore(Gold) /\ Stored' = Stored /\ told' = told
    BY <1>7 DEF ServiceDies, Stored
  <2> QED
    BY <2>1, EmptySound DEF AuditInv
<1>8. CASE \E c \in Calls : Call(c)
  BY <1>1, <1>8 DEF Call
<1>9. CASE UNCHANGED orderVars
  BY <1>1, <1>9 DEF orderVars
<1> QED
  BY <1>2, <1>3, <1>4, <1>5, <1>6, <1>7, <1>8, <1>9 DEF OrderNext, Calls

(* That is what AuditTellsTheOrder asks for.                               *)
LEMMA AuditInvTells == OrderInv /\ AuditInv => AuditTellsTheOrder
<1> SUFFICES ASSUME OrderInv, AuditInv, NEW d \in Drafts, NEW t \in Accepted,
                    t.call = Creation(d)
             PROVE  LET o == OrderNamed(Stored, d.id)
                    IN  /\ EffectsOnce(Stored, d.id)
                        /\ EffectsOf(Stored, d, o)
                        /\ WithdrawalFirst(Stored, d, o)
                        /\ VersionsFollow(Stored, d, o)
                        /\ ValidStore(Stored, Gold)
  BY DEF AuditTellsTheOrder
<1>1. Tells(Stored, d) /\ Sound(Stored) /\ StoreOK(Stored)
  BY DEF AuditInv, Accepted, Told, Sound
<1>2. PICK o \in Stored.orders : o.id = d.id /\ TellsOf(Stored, d, o)
  BY <1>1 DEF Tells
<1>3. OrderNamed(Stored, d.id) = o
  BY <1>1, <1>2 DEF OrderNamed, StoreOK
<1>4. ValidStore(Stored, Gold)
  <2>1. \A x \in Stored.orders : ValidOrder(x) /\ OrdersNamed(Stored, x.id) = {x}
    BY <1>1 DEF Sound, Fine, StoreOK, OrdersNamed
  <2>2. \A i \in DOMAIN Stored.audit : Stored.audit[i].policy
    BY <1>1, SeqShape DEF Sound
  <2>3. \A r, q \in Stored.requests : r.request = q.request => r = q
    BY <1>1 DEF StoreOK
  <2> QED
    BY <1>1, <2>1, <2>2, <2>3 DEF ValidStore, Sound
<1> QED
  BY <1>2, <1>3, <1>4 DEF TellsOf

(***************************************************************************)
(* Whatever commands come, in whatever order, repeated, refused or cut     *)
(* off, the audit trail in the file and the orders there tell one story:   *)
(* each effect once and with the cancellation, a withdrawal before it      *)
(* where the fulfilment was active, and versions without a gap.            *)
(***************************************************************************)
THEOREM TrailTellsTheOrder ==
  ASSUME OrdersAreNew, OrdersAreOpen
  PROVE  OrderSpec => []AuditTellsTheOrder
<1>1. OrderInv /\ [OrderNext]_orderVars => OrderInv'
  BY OrderInvNext
<1>2. OrderInv /\ AuditInv /\ [OrderNext]_orderVars => AuditInv'
  BY AuditInvNext
<1> QED
  BY <1>1, <1>2, OrderInvInit, AuditInvInit, AuditInvTells, PTL DEF OrderSpec
===============================================================================
