----------------------------- MODULE DurableObject -----------------------------
(***************************************************************************)
(* What a service that keeps one object in one file promises its clients:  *)
(* calls take effect one at a time and in the order in which they were     *)
(* made, each in one indivisible step and on all that was there before;    *)
(* who is told an answer is told that of the call's one effect.  Memory,   *)
(* the temporary file, its renaming and the opening of the file            *)
(* (OrderService) are invisible here.                                      *)
(***************************************************************************)
EXTENDS Sequences

CONSTANTS
  Calls,         (* What clients ask.                                      *)
  Initial,       (* The object before any call.                            *)
  Apply(_, _),   (* What a call does to an object: the object it leaves,   *)
                 (* as store, and its answer.                              *)
  Failure        (* The answer to a call that has had no effect.           *)

VARIABLES
  object,        (* The object.                                            *)
  waiting,       (* Calls that have not been answered, in order.           *)
  owed,          (* The answer of the first, once it has had its effect.   *)
  told           (* History: the calls that were answered, and how.        *)

objectVars == <<object, waiting, owed, told>>

Init == object = Initial /\ waiting = <<>> /\ owed = <<>> /\ told = {}

Ask(c) ==
  /\ waiting' = Append(waiting, c)
  /\ UNCHANGED <<object, owed, told>>

Tell(answer) ==
  /\ told' = told \cup {[call |-> Head(waiting), answer |-> answer]}
  /\ waiting' = Tail(waiting)

(***************************************************************************)
(* The call takes effect, and its answer is owed.                          *)
(***************************************************************************)
TakeEffect ==
  /\ waiting # <<>> /\ owed = <<>>
  /\ object' = Apply(object, Head(waiting)).store
  /\ owed' = <<Apply(object, Head(waiting)).answer>>
  /\ UNCHANGED <<waiting, told>>

Respond ==
  /\ waiting # <<>> /\ owed # <<>> /\ Tell(owed[1])
  /\ owed' = <<>> /\ UNCHANGED object

(***************************************************************************)
(* A call that changes nothing is answered as it is looked at.             *)
(***************************************************************************)
Look ==
  /\ waiting # <<>> /\ owed = <<>>
  /\ Apply(object, Head(waiting)).store = object
  /\ Tell(Apply(object, Head(waiting)).answer)
  /\ UNCHANGED <<object, owed>>

(***************************************************************************)
(* A call that has had no effect may be refused one.                       *)
(***************************************************************************)
Fail ==
  /\ waiting # <<>> /\ owed = <<>> /\ Tell(Failure)
  /\ UNCHANGED <<object, owed>>

(***************************************************************************)
(* Everybody who waits is forgotten, the object is not.                    *)
(***************************************************************************)
Forget == waiting' = <<>> /\ owed' = <<>> /\ UNCHANGED <<object, told>>

Next == (\E c \in Calls : Ask(c)) \/ TakeEffect \/ Respond \/ Look \/ Fail \/ Forget

Spec == Init /\ [][Next]_objectVars
===============================================================================
