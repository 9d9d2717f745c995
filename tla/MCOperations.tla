---------------------------- MODULE MCOperations ----------------------------
(* Profile installation, judge cohorts, Commerce deliveries, and the domain  *)
(* pack that deliveries are made from.  They share no state, so that a       *)
(* behaviour exercises one of them and leaves the others as they start.      *)
EXTENDS ProfileInstall, JudgeCohort, Delivery, AuthorPack, TLC

CONSTANTS
  c1, c2, c3, b1, b2

VARIABLE active

Draft(t, u, p, d, o, dorm, prop, w) ==
  [template |-> t, uses |-> u, preserves |-> p, dependencies |-> d, observed |-> o,
   dormant |-> dorm, proposed |-> prop, withdraws |-> w]
MCRequests ==
  {Draft("commerce", {c1}, p, d, (c1 :> {b1} @@ c2 :> {b2} @@ c3 :> o3), {}, {}, FALSE) :
     p \in {{}, {c3}}, d \in {{}, {<<c1, c2>>, <<c2, c3>>}}, o3 \in {{}, {b2}}}
   \cup
  {Draft("commerce", {c1, c2}, {}, {}, (c1 :> {b1} @@ c2 :> {b2} @@ c3 :> {}), {}, {}, FALSE)}
   \cup
  {Draft(t, {c1}, {c2}, {<<c1, c2>>}, (c1 :> {b1} @@ c2 :> {b2} @@ c3 :> {b1}), dorm, prop, w) :
     t \in {"commerce", "withdrawal"}, dorm \in {{}, {c2}}, prop \in {{}, {c1}, {c3}},
     w \in BOOLEAN}

(* A pack as one author and one operator build it, file by file: every       *)
(* beginning of it is a pack that one comes to from an empty one.            *)
Usual ==
  LET text == CHOOSE t \in Texts : TRUE
      x == CHOOSE c \in CandidateIds : TRUE
      y == CHOOSE c \in CandidateIds : c # x
      card == Pointer(<<"card", 1>>, [Artifact("card", 1, "proposed", {Source(text)}, {}, {}) EXCEPT !.vouched = TRUE])
      staged == Pointer(<<"candidates", x>>, card.value)
      confirmed == Pointer(<<"card", 2>>, Transition(staged))
      question == Pointer(<<"question", 1>>,
        [Artifact("question", 1, "open", {}, {}, {}) EXCEPT !.blocking = TRUE])
      interview == Pointer(<<"interview", 1>>,
        Artifact("interview", 1, "completed", {Source(text)}, {card, question}, {}))
      draft == Pointer(<<"candidates", y>>,
        Artifact("contract", 1, "candidate", {Source(text)}, {interview, confirmed}, {}))
  IN  <<Source(text), card, staged, confirmed, question, interview, draft,
        Pointer(<<"contract", 1>>, Transition(draft))>>

(* Installers, passes and calls of the author's tool have the same names, so *)
(* that one permutation serves them all.                                     *)
Symmetry == Permutations(Installers) \cup Permutations(Decisions)

OperationsInit ==
  /\ active \in {"profiles", "judges", "delivery", "authored"}
  /\ ProfileInit /\ (active # "profiles" => \A p \in Paths : dir[p] = {})
  /\ JudgeInit /\ (active # "judges" => ~started)
  /\ DeliveryInit /\ (active # "delivery" => request = CHOOSE r \in Requests : TRUE)
  /\ package = CHOOSE v \in Versions : TRUE
  /\ \E n \in 0..Len(Usual) :
       PackWith({Usual[i] : i \in 1..n}) /\ (active # "authored" => n = 0)
OperationsNext ==
  \/ active = "profiles" /\ ProfileNext /\ UNCHANGED <<active, jvars, vvars, avars>>
  \/ active = "judges" /\ JudgeNext /\ UNCHANGED <<active, pvars, vvars, avars>>
  \/ active = "delivery" /\ DeliveryNext /\ UNCHANGED <<active, pvars, jvars, avars>>
  \/ active = "authored" /\ PackNext /\ UNCHANGED <<active, pvars, jvars, vvars>>
OperationsSpec == OperationsInit /\ [][OperationsNext]_<<active, pvars, jvars, vvars, avars>>
=============================================================================
