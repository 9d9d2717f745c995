--------------------------- MODULE DomainAuthority ---------------------------
(***************************************************************************)
(* Operator authority over a domain pack: every invocation of the confirm  *)
(* command (src/domain/operator-authority.ts) takes a candidate that an    *)
(* author left in the pack, records an owner confirmation in the ledger    *)
(* outside the pack (confirmation-ledger.ts) and then places the confirmed *)
(* artifact in the pack.  The validate command (pack.ts) reads the pack    *)
(* and the ledger again, later and in another process.                     *)
(*                                                                         *)
(* A confirmation and the artifact it confirms are the same record here:   *)
(* the event carries the digest of its target, the artifact is the target  *)
(* with a pointer to the event.  A pointer with a digest is the value it   *)
(* points to.  Candidates are files that anybody may have written, and     *)
(* they may name artifacts that no operator ever confirmed.                *)
(***************************************************************************)
EXTENDS Naturals, FiniteSets

CONSTANTS
  Invocations,  \* runs of the confirm command, each by one process
  Stamps,       \* the pairs of occurredAt and operator of an invocation
  Never,        \* the stamp of a confirmation the ledger never held
  Claims,       \* claim ids, each with one evidence card
  Dependencies, \* what the claims of a draft may depend on
  MaxVersion    \* bound on contract versions

ASSUME AuthorityAssumption ==
  /\ Never \notin Stamps
  /\ Stamps # {}
  /\ Dependencies \subseteq SUBSET {n \in Claims \X Claims : n[1] # n[2]}
  /\ MaxVersion \in Nat

VARIABLES
  confirming,   \* the step each invocation is at, and the event it is making
  recorded,     \* whole events of the ledger
  opened,       \* ids of events that were created and not written
  placed,       \* whole artifacts of the pack
  half          \* paths of artifacts that were created and not written

dvars == <<confirming, recorded, opened, placed, half>>

Idle == [at |-> "idle", event |-> {}]
Over == [at |-> "over", event |-> {}]
ConfirmSteps == {"idle", "closed", "recording", "recorded", "placing", "over"}
Kinds == {"card", "question", "contract", "requirement"}

(* eventId leaves the actor out, so that two operators in the same         *)
(* millisecond make the same name.                                         *)
EventId(e) == <<e.of, e.stamp[1]>>

(* The artifact's path is its id and version; there is one contract, one   *)
(* question and one requirement, and only the contract has versions.       *)
Path(t) ==
  CASE t.kind = "card" -> <<"card", t.claim>>
    [] t.kind = "contract" -> <<"contract", t.version>>
    [] t.kind \in {"question", "requirement"} -> <<t.kind, 1>>

------------------------------------------------------------------------------

Card(k) == [kind |-> "card", claim |-> k]
Question == [kind |-> "question"]

(* What a candidate may name: an artifact whose event the ledger holds,    *)
(* whether or not the artifact was placed, or one with a pointer to an     *)
(* event that the ledger does not hold.                                    *)
Unfounded(t) == [of |-> t, stamp |-> Never]
Named(kind) == {e \in recorded : e.of.kind = kind}
NamedCards(k) == {e \in Named("card") : e.of.claim = k} \cup {Unfounded(Card(k))}

(* The decision question a requirement refers to, if it does. *)
Asked ==
  {{}} \cup {{[blocking |-> b, answer |-> {}]} : b \in BOOLEAN}
       \cup {{[blocking |-> TRUE, answer |-> {e}]} :
              e \in Named("question") \cup {Unfounded(Question)}}

Contract(v, claims, needs, after) ==
  [kind |-> "contract", version |-> v, claims |-> claims, needs |-> needs, after |-> after]

Requirement(base, names, asks) ==
  [kind |-> "requirement", base |-> base, names |-> names, asks |-> asks]

(* A set of claims without a first one to check is a cycle. *)
Acyclic(needs) ==
  \A S \in (SUBSET Claims) \ {{}} : \E k \in S : \A m \in S : <<k, m>> \notin needs

(* assertProductDomainContractSuccessor: no claim goes away, a retired one *)
(* stays as it is, and a claim changes by a declared transition only.      *)
(* What a claim says is what its card says.                                *)
Semantics(d, k) ==
  [life |-> d.claims[k].life, needs |-> {n \in d.needs : n[1] = k}]

BadSuccessor(p, d) ==
  /\ d.version = p.version + 1
  /\ \A k \in DOMAIN p.claims :
       /\ k \in DOMAIN d.claims
       /\ Semantics(d, k) # Semantics(p, k) => d.claims[k].moved
  /\ \A k \in DOMAIN d.claims : d.claims[k].moved => k \in DOMAIN p.claims
Successor(p, d) ==
  /\ d.version = p.version + 1
  /\ \A k \in DOMAIN p.claims :
       /\ k \in DOMAIN d.claims
       /\ p.claims[k].life = "retired" =>
            ~d.claims[k].moved /\ Semantics(d, k) = Semantics(p, k)
       /\ Semantics(d, k) # Semantics(p, k) => d.claims[k].moved
  /\ \A k \in DOMAIN d.claims : d.claims[k].moved => k \in DOMAIN p.claims

(* buildClaimDependencyGraph for one requirement. *)
GraphBuilds(base, t) ==
  /\ t.base = base
  /\ t.names \subseteq DOMAIN base.of.claims
  /\ Acyclic(base.of.needs)

BadClosureHolds(t) ==
  CASE t.kind \in {"card", "question"} -> TRUE
    [] t.kind = "contract" ->
         /\ \A k \in DOMAIN t.claims : t.claims[k].card \in recorded
         /\ \A p \in t.after : p \in recorded /\ Successor(p.of, t)
    [] t.kind = "requirement" ->
         /\ t.base \in recorded
         /\ \A q \in t.asks : q.answer \subseteq recorded
         /\ GraphBuilds(t.base, t)

(* preflightAuthorityClosure.  Sources and interviews are bytes that may   *)
(* drift at any time: to refuse over them is to take no step.              *)
ClosureHolds(t) ==
  CASE t.kind \in {"card", "question"} -> TRUE
    [] t.kind = "contract" ->
         /\ \A k \in DOMAIN t.claims : t.claims[k].card \in recorded
         /\ \A p \in t.after : p \in recorded /\ Successor(p.of, t)
    [] t.kind = "requirement" ->
         /\ t.base \in recorded
         /\ \A q \in t.asks :
              IF q.answer = {} THEN ~q.blocking ELSE q.answer \subseteq recorded
         /\ GraphBuilds(t.base, t)

------------------------------------------------------------------------------

(* Earlier invocations have confirmed some cards, perhaps the question and *)
(* a first contract over these cards.                                      *)
Earlier(t) == [of |-> t, stamp |-> CHOOSE s \in Stamps : TRUE]

FirstClaims(known, retired) ==
  [k \in known |-> [card |-> Earlier(Card(k)), moved |-> FALSE,
                    life |-> IF k \in retired THEN "retired" ELSE "active"]]

FirstContracts(known) ==
  {Contract(1, FirstClaims(known, retired), needs, {}) :
     retired \in SUBSET known, needs \in Dependencies \cap SUBSET (known \X known)}

AuthorityInit ==
  /\ confirming = [i \in Invocations |-> Idle]
  /\ \E known \in SUBSET Claims, asked \in SUBSET {Question} :
       \E first \in {{}} \cup {{c} : c \in FirstContracts(known)} :
         /\ known = {} => first = {}
         /\ recorded = {Earlier(t) : t \in {Card(k) : k \in known} \cup asked \cup first}
  /\ placed = recorded
  /\ opened = {}
  /\ half = {}

(* The candidate is read and planned, its path and its closure are         *)
(* checked.  One step: what the checks ask for is never taken away again,  *)
(* and the exclusive writes below check the path once more.                *)
Plan(i, t) ==
  /\ confirming[i] = Idle
  /\ Path(t) \notin half
  /\ ClosureHolds(t)
  /\ \E s \in Stamps :
       LET e == [of |-> t, stamp |-> s]
       IN  /\ \A p \in placed : Path(p.of) = Path(t) => p = e
           /\ confirming' = [confirming EXCEPT ![i] = [at |-> "closed", event |-> {e}]]
  /\ UNCHANGED <<recorded, opened, placed, half>>

PlanCard(i) == \E k \in Claims : Plan(i, Card(k))

PlanQuestion(i) == Plan(i, Question)

DraftClaims(S, cards, moved, retired) ==
  [k \in S |-> [card |-> cards[k], moved |-> k \in moved,
                life |-> IF k \in retired THEN "retired" ELSE "active"]]

(* validateContractCandidate: version 1 has no predecessor and declares no *)
(* transition, a dependency is another claim of the draft.                 *)
PlanContract(i) ==
  /\ confirming[i] = Idle
  /\ \E after \in {{}} \cup {{p} : p \in Named("contract")}, S \in (SUBSET Claims) \ {{}} :
      \E v \in IF after = {} THEN {1} ELSE 2..MaxVersion,
         cards \in [S -> UNION {NamedCards(k) : k \in S}],
         retired \in SUBSET S,
         moved \in IF after = {} THEN {{}} ELSE SUBSET S,
         needs \in Dependencies \cap SUBSET (S \X S) :
        /\ \A k \in S : cards[k] \in NamedCards(k)
        /\ Plan(i, Contract(v, DraftClaims(S, cards, moved, retired), needs, after))

PlanRequirement(i) ==
  /\ confirming[i] = Idle
  /\ \E base \in Named("contract"), names \in SUBSET Claims, asks \in Asked :
       Plan(i, Requirement(base, names, asks))

Go(i, to) == confirming' = [confirming EXCEPT ![i] = to]
At(i, step, e) == confirming[i] = [at |-> step, event |-> {e}]

(* OwnerConfirmationLedger.write: an exclusive creation, then the bytes.   *)
(* The same bytes may be there already.                                    *)
CreateEvent(i) ==
  \E e \in confirming[i].event :
    /\ At(i, "closed", e)
    /\ IF EventId(e) \in opened \cup {EventId(f) : f \in recorded}
         THEN /\ Go(i, IF e \in recorded THEN [at |-> "recorded", event |-> {e}] ELSE Over)
              /\ UNCHANGED opened
         ELSE /\ Go(i, [at |-> "recording", event |-> {e}])
              /\ opened' = opened \cup {EventId(e)}
    /\ UNCHANGED <<recorded, placed, half>>

WriteEvent(i) ==
  \E e \in confirming[i].event :
    /\ At(i, "recording", e)
    /\ Go(i, [at |-> "recorded", event |-> {e}])
    /\ opened' = opened \ {EventId(e)}
    /\ recorded' = recorded \cup {e}
    /\ UNCHANGED <<placed, half>>

(* writeImmutable; on failure the command reports that it is incomplete. *)
CreateArtifact(i) ==
  \E e \in confirming[i].event :
    /\ At(i, "recorded", e)
    /\ IF Path(e.of) \in half \cup {Path(p.of) : p \in placed}
         THEN Go(i, Over) /\ UNCHANGED half
         ELSE /\ Go(i, [at |-> "placing", event |-> {e}])
              /\ half' = half \cup {Path(e.of)}
    /\ UNCHANGED <<recorded, opened, placed>>

WriteArtifact(i) ==
  \E e \in confirming[i].event :
    /\ At(i, "placing", e)
    /\ Go(i, Over)
    /\ half' = half \ {Path(e.of)}
    /\ placed' = placed \cup {e}
    /\ UNCHANGED <<recorded, opened>>

(* The command's process dies, or a write fails half way. *)
Crash(i) ==
  /\ confirming[i].at \notin {"idle", "over"}
  /\ Go(i, Over)
  /\ UNCHANGED <<recorded, opened, placed, half>>

AuthorityNext ==
  \E i \in Invocations :
    \/ PlanCard(i) \/ PlanQuestion(i) \/ PlanContract(i) \/ PlanRequirement(i)
    \/ CreateEvent(i) \/ WriteEvent(i) \/ CreateArtifact(i) \/ WriteArtifact(i)
    \/ Crash(i)

AuthoritySpec == AuthorityInit /\ [][AuthorityNext]_dvars

------------------------------------------------------------------------------

(* The contracts that a reader of the ledger or of a pack can come to. *)
Known == Named("contract") \cup (UNION {e.of.after : e \in Named("contract")})

(* The contracts before contract c, c included (readPredecessorChain):     *)
(* those in every set that has c and, with a contract, its predecessor.    *)
History(c) ==
  {d \in Known : \A chain \in SUBSET Known :
     c \in chain /\ (\A e \in chain : e.of.after \cap Known \subseteq chain) => d \in chain}

(* validateDomainPack over a manifest that lists this requirement, its     *)
(* base contract and every event of the ledger.  The event of an artifact  *)
(* is read again, and every artifact has to be at its own path.            *)
InPack(e) == e \in placed /\ e \in recorded

PackContract(d) ==
  /\ InPack(d)
  /\ \A k \in DOMAIN d.of.claims :
       InPack(d.of.claims[k].card) /\ d.of.claims[k].card.of.claim = k
  /\ \A p \in d.of.after : Successor(p.of, d.of)

PackRequirement(r) ==
  InPack(r) /\ \A q \in r.of.asks : \A e \in q.answer : InPack(e)

PackAccepts(c, r) ==
  (\A d \in History(c) : PackContract(d)) /\ PackRequirement(r) /\ GraphBuilds(c, r.of)

(* requestedClosure: the claims connected with the requirement. *)
RequestedClosure(c, r) ==
  {k \in DOMAIN c.of.claims :
     \A S \in SUBSET DOMAIN c.of.claims :
       /\ r.of.names \subseteq S
       /\ \A n \in c.of.needs : n[1] \in S <=> n[2] \in S
       => k \in S}

(* buildDomainTruthReadiness: the requirement binding, and the colour in   *)
(* the light of further cards the manifest lists.                          *)
Binding(r) ==
  CASE \E q \in r.of.asks : q.answer = {} /\ q.blocking -> "fail"
    [] /\ \E q \in r.of.asks : q.answer = {}
       /\ \A q \in r.of.asks : q.answer = {} => ~q.blocking -> "warning"
    [] \A q \in r.of.asks : q.answer # {} -> "pass"

Readiness(c, r, cards) ==
  LET about == {d \in cards : d.claim \in RequestedClosure(c, r) /\ d.status # "confirmed"}
  IN  CASE Binding(r) = "fail" \/ \E d \in about : d.severe -> "red"
        [] Binding(r) # "fail" /\ (\A d \in about : ~d.severe)
             /\ (Binding(r) = "warning" \/ about # {}) -> "yellow"
        [] Binding(r) = "pass" /\ about = {} -> "green"
------------------------------------------------------------------------------

IsEvent(e) == e.of.kind \in Kinds /\ e.stamp \in Stamps

(* Every variable has its type; what is written is some invocation's. *)
AuthorityTypeOK ==
  /\ \A i \in Invocations :
       /\ confirming[i].at \in ConfirmSteps
       /\ \A e \in confirming[i].event : IsEvent(e)
       /\ confirming[i].event = {} <=> confirming[i].at \in {"idle", "over"}
  /\ \A e \in recorded : IsEvent(e)
  /\ placed \subseteq recorded
  /\ \A x \in opened : x \notin {EventId(e) : e \in recorded}
  /\ \A x \in half : x \notin {Path(e.of) : e \in placed}

(* Whatever the operators did and wherever a command died, a contract they *)
(* confirmed rests on confirmed cards and on confirmed contracts all the   *)
(* way back, still has each claim one of these had, and a claim that was   *)
(* retired in any of them still says the same and is still retired.        *)
HistoryIsKept ==
  \A d \in Named("contract") : \A c \in History(d) :
    /\ c \in recorded
    /\ \A k \in DOMAIN c.of.claims :
         /\ c.of.claims[k].card \in recorded
         /\ c.of.claims[k].card.of.claim = k
         /\ k \in DOMAIN d.of.claims
         /\ c.of.claims[k].life = "retired" => Semantics(d.of, k) = Semantics(c.of, k)

(* What operators confirmed, validation accepts: once the artifacts that a *)
(* confirmed requirement leads to are in place, the pack passes, and no    *)
(* question of the requirement makes its readiness red; a severe card that *)
(* awaits confirmation does when the requirement is about its claim.       *)
ConfirmedPackValidates ==
  \A r \in placed : r.of.kind = "requirement" =>
    LET c == r.of.base
        cards(d) == {d.of.claims[k].card : k \in DOMAIN d.of.claims}
        pending(k) == {[claim |-> k, status |-> "proposed", severe |-> TRUE]}
    IN  History(c) \cup (UNION {cards(d) : d \in History(c)})
          \cup (UNION {q.answer : q \in r.of.asks}) \subseteq placed
        => /\ PackAccepts(c, r)
           /\ Readiness(c, r, {}) # "red"
           /\ \A k \in r.of.names : Readiness(c, r, pending(k)) = "red"
==============================================================================
