---------------------------- MODULE OrderService ----------------------------
(***************************************************************************)
(* A process that serves the orders of the Commerce task pack              *)
(* (calibration/gold-equivalent/src/order-service.ts): one file, one       *)
(* service that has it open, and clients that do not wait for each other.  *)
(*                                                                         *)
(* Calls are queued in the order in which they are made (#enqueue); the    *)
(* head computes its outcome from memory, replaces the file and only then  *)
(* becomes the memory and is answered (#commit).  The process may die      *)
(* between any two of these steps, and a write may fail.                   *)
(***************************************************************************)
EXTENDS OrderStore

CONSTANTS
  Drafts,      (* The orders that clients create, of one id.               *)
  OrderCommands, (* What clients ask of an order that exists.              *)
  MaxCalls,    (* Bound: calls that are made.                              *)
  MaxQueue     (* Bound: calls that wait at once.                          *)

(* Clients create orders that nothing has been withdrawn from or refunded  *)
(* of, and ask what the service has a method for.                          *)
OrdersAreNew ==
  /\ \A d \in Drafts : d \in Order /\ d.withdrawal = "none" /\ d.refund = "none"
  /\ \A c \in OrderCommands :
       /\ c.op \in {"cancel", "withdrawal", "refunded", "get", "audit", "retention"}
       /\ c.op = "withdrawal" => c.outcome \in Outcomes

(* Nor are they cancelled, or their coupons given back, before they exist. *)
OrdersAreOpen == \A d \in Drafts : d.status # "cancelled" /\ ~d.coupon.restored

VARIABLES
  serving,     (* A service has the file open.                             *)
  disk,        (* The file: empty until there is one.                      *)
  memory,      (* #state of the service.                                   *)
  queue,       (* Calls behind #tail, the head is under way.               *)
  writing,     (* What the head wants to commit, and whether the file has  *)
               (* been renamed; empty before the head has computed it.     *)
  told,        (* History: the calls that were answered, with the answer.  *)
  issued       (* Calls made so far.                                       *)

orderVars == <<serving, disk, memory, queue, writing, told, issued>>

Gold == {}

-----------------------------------------------------------------------------
(* Plausible regressions of the definitions below.                         *)

(* #commit assigns #state before it has persisted it. *)
BadPersistFails ==
  /\ serving /\ writing # <<>> /\ ~writing[1].durable
  /\ memory' = writing[1].outcome.store
  /\ queue' = Tail(queue) /\ writing' = <<>>
  /\ UNCHANGED <<serving, disk, told, issued>>

(* The error of #persist is swallowed: the call is answered by the outcome. *)
BadPersistSwallowed ==
  /\ serving /\ writing # <<>> /\ ~writing[1].durable
  /\ told' = told \cup {[call |-> Head(queue), answer |-> writing[1].outcome.answer]}
  /\ queue' = Tail(queue) /\ writing' = <<>>
  /\ UNCHANGED <<serving, disk, memory, issued>>

-----------------------------------------------------------------------------
OrderInit ==
  /\ serving = FALSE /\ disk = <<>> /\ memory = EmptyStore(Gold)
  /\ queue = <<>> /\ writing = <<>> /\ told = {} /\ issued = 0

(***************************************************************************)
(* open: a file that is not there is made; one that does not validate is   *)
(* refused, and the service stays down.                                    *)
(***************************************************************************)
OpenFile ==
  /\ ~serving
  /\ disk # <<>> => ValidStore(disk[1], Gold)
  /\ serving' = TRUE
  /\ memory' = IF disk = <<>> THEN EmptyStore(Gold) ELSE disk[1]
  /\ disk' = <<memory'>>
  /\ UNCHANGED <<queue, writing, told, issued>>

Call(c) ==
  /\ serving /\ issued < MaxCalls /\ Len(queue) < MaxQueue
  /\ queue' = Append(queue, c)
  /\ issued' = issued + 1
  /\ UNCHANGED <<serving, disk, memory, writing, told>>

Answer(c, answer) == told' = told \cup {[call |-> c, answer |-> answer]}

(***************************************************************************)
(* The head of the queue computes its outcome.  One that changes nothing   *)
(* is answered at once.                                                    *)
(***************************************************************************)
BeginCommit ==
  /\ serving /\ queue # <<>> /\ writing = <<>>
  /\ LET outcome == Operate(memory, Head(queue), Gold)
     IN  IF outcome.store = memory
         THEN /\ Answer(Head(queue), outcome.answer)
              /\ queue' = Tail(queue) /\ UNCHANGED writing
         ELSE /\ writing' = <<[outcome |-> outcome, durable |-> FALSE]>>
              /\ UNCHANGED <<queue, told>>
  /\ UNCHANGED <<serving, disk, memory, issued>>

(* #persist: a temporary file of a fresh name, renamed to the file.         *)
PersistState ==
  /\ serving /\ writing # <<>> /\ ~writing[1].durable
  /\ disk' = <<writing[1].outcome.store>>
  /\ writing' = [writing EXCEPT ![1].durable = TRUE]
  /\ UNCHANGED <<serving, memory, queue, told, issued>>

(* The call rejects, and the next one starts from the same memory.          *)
PersistFails ==
  /\ serving /\ writing # <<>> /\ ~writing[1].durable
  /\ queue' = Tail(queue) /\ writing' = <<>>
  /\ Answer(Head(queue), Throws)
  /\ UNCHANGED <<serving, disk, memory, issued>>

Deliver ==
  /\ serving /\ writing # <<>> /\ writing[1].durable
  /\ memory' = writing[1].outcome.store
  /\ Answer(Head(queue), writing[1].outcome.answer)
  /\ queue' = Tail(queue) /\ writing' = <<>>
  /\ UNCHANGED <<serving, disk, issued>>

(* The process dies: who waits for an answer never gets one.                *)
ServiceDies ==
  /\ serving /\ serving' = FALSE
  /\ queue' = <<>> /\ writing' = <<>> /\ memory' = EmptyStore(Gold)
  /\ UNCHANGED <<disk, told, issued>>

OrderNext ==
  \/ OpenFile
  \/ \E d \in Drafts : Call(Creation(d))
  \/ \E c \in OrderCommands : Call(c)
  \/ BeginCommit \/ PersistState \/ PersistFails \/ Deliver \/ ServiceDies

OrderSpec == OrderInit /\ [][OrderNext]_orderVars

-----------------------------------------------------------------------------
Stored == IF disk = <<>> THEN EmptyStore(Gold) ELSE disk[1]
Accepted == {t \in told : t.answer.form = "value"}
Asks(t) == t.call.op \in {"cancel", "withdrawal"}

(***************************************************************************)
(* What a client was told is in the file for good, across deaths of the    *)
(* process and failed writes: an accepted cancellation or withdrawal is on *)
(* record with the result it was answered with, a created order is there,  *)
(* a refund said to be settled is settled, no answer shows a version that  *)
(* the file has not reached, and a request that was accepted twice was     *)
(* told the same twice (#commit, #lookupReplay).                           *)
(***************************************************************************)
AnsweredIsKept ==
  /\ \A t \in Accepted : Asks(t) =>
       \E r \in Stored.requests :
         /\ r.request = t.call.request
         /\ r.print = Fingerprint(t.call)
         /\ r.result = t.answer.value[1]
  /\ \A t \in Accepted : t.call.op = "create" => OrdersNamed(Stored, t.call.draft.id) # {}
  /\ \A t \in Accepted : t.call.op = "refunded" =>
       \E o \in OrdersNamed(Stored, t.call.order) : o.refund = "refunded"
  /\ \A t \in Accepted : t.call.op = "get" /\ t.answer.value # <<>> =>
       \E o \in OrdersNamed(Stored, t.call.order) : t.answer.value[1].version <= o.version
  /\ \A t, u \in Accepted :
       Asks(t) /\ Asks(u) /\ t.call.request = u.call.request => t.answer = u.answer

(***************************************************************************)
(* The audit trail of the file and its orders tell one story, whatever     *)
(* commands came in whatever order, were repeated, refused or cut off:     *)
(* every effect happened at most once and only with the cancellation, the  *)
(* inventory was given back if it was held, the coupon only while it was   *)
(* eligible, the refund is what was paid, an active fulfilment was         *)
(* cancelled only after its provider completed a withdrawal, one that was  *)
(* handed off never, and the versions of the events follow each other from *)
(* that of the draft to that of the order (#finalizeCancellation,          *)
(* cancelOrder, resolveWithdrawal, markRefunded).                          *)
(***************************************************************************)
PlacesOf(store, id) == {i \in DOMAIN store.audit : store.audit[i].order = id}
Places(store, id, type) == {i \in PlacesOf(store, id) : store.audit[i].type = type}
Happened(store, id, type) == Places(store, id, type) # {}

Effects ==
  {"order_cancelled", "inventory_compensated", "coupon_restored", "refund_requested",
   "refund_completed", "withdrawal_completed"}

EffectsOnce(store, id) ==
  \A type \in Effects : \A i, j \in Places(store, id, type) : i = j

EffectsOf(store, d, o) ==
  LET Once(type) == Happened(store, d.id, type)
      cancelled == Once("order_cancelled")
  IN  /\ cancelled <=> o.status = "cancelled"
      /\ o.reserved = (d.reserved /\ ~cancelled)
      /\ Once("inventory_compensated") <=> cancelled /\ d.reserved
      /\ Once("coupon_restored") <=>
           d.coupon.held /\ \E i \in Places(store, d.id, "order_cancelled") :
                              d.coupon.until >= store.audit[i].at
      /\ o.coupon.restored <=> Once("coupon_restored")
      /\ Once("refund_requested") <=> cancelled /\ d.status = "paid"
      /\ Once("refund_requested") => o.amount = d.paid
      /\ Once("refund_completed") <=> o.refund = "refunded"

WithdrawalFirst(store, d, o) ==
  /\ d.fulfillment = "handed_off" => o = d
  /\ d.fulfillment = "active" /\ o.status = "cancelled" =>
       /\ o.withdrawal = "completed"
       /\ \E i \in Places(store, d.id, "withdrawal_requested"),
             j \in Places(store, d.id, "withdrawal_completed"),
             k \in Places(store, d.id, "order_cancelled") : i < j /\ j < k

(* Events of one command have the versions of that command.                *)
VersionsFollow(store, d, o) ==
  \A j \in PlacesOf(store, d.id) :
    LET f == store.audit[j]
        earlier == {i \in PlacesOf(store, d.id) : i < j}
    IN  /\ earlier = {} => f.before = d.version
        /\ \A i \in earlier :
             LET e == store.audit[i]
             IN  \/ \E k \in earlier : i < k
                 \/ f.before = e.after
                 \/ <<f.before, f.after>> = <<e.before, e.after>>
        /\ f.after = o.version \/ \E k \in PlacesOf(store, d.id) : j < k

AuditTellsTheOrder ==
  \A d \in Drafts : (\E t \in Accepted : t.call = Creation(d)) =>
    LET o == OrderNamed(Stored, d.id)
    IN  /\ EffectsOnce(Stored, d.id)
        /\ EffectsOf(Stored, d, o)
        /\ WithdrawalFirst(Stored, d, o)
        /\ VersionsFollow(Stored, d, o)
        /\ ValidStore(Stored, Gold)

-----------------------------------------------------------------------------
(***************************************************************************)
(* The service implements an object that answers one call at a time: a     *)
(* call takes effect when the file is renamed, before the memory and its   *)
(* client know of it, on the store that the calls before it have left; it  *)
(* is answered by that effect or refused without one, and a death of the   *)
(* process forgets calls and no effect (#enqueue, #commit, #persist).      *)
(***************************************************************************)
Asked == OrderCommands \cup {Creation(d) : d \in Drafts}
GoldOperate(store, c) == Operate(store, c, Gold)
Owed == IF writing # <<>> /\ writing[1].durable THEN <<writing[1].outcome.answer>> ELSE <<>>

Object ==
  INSTANCE DurableObject WITH
    Calls <- Asked, Initial <- EmptyStore(Gold), Apply <- GoldOperate, Failure <- Throws,
    object <- Stored, waiting <- queue, owed <- Owed

ObjectSpec == Object!Spec
=============================================================================
