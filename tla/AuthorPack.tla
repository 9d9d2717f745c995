----------------------------- MODULE AuthorPack -----------------------------
(***************************************************************************)
(* The author's tool over a domain pack (src/author-bridge/                *)
(* domain-artifact.ts) beside the operator's confirm command               *)
(* (src/domain/operator-authority.ts), on the same directory.  The tool    *)
(* snapshots sources, writes interviews, cards, questions and candidates   *)
(* and stages cards and questions for confirmation; it places a file by a  *)
(* link to a temporary one, so that it is there whole or not at all.  The  *)
(* confirm command records its event and then places what the event        *)
(* confirms, created first and written after.  The readers of the pack are *)
(* the tool itself, the command, and later the validator of pack.ts.       *)
(*                                                                         *)
(* A pointer with a digest is a path with the value it ought to hold.  One *)
(* product with one source, card, interview, question, contract and        *)
(* requirement, and one snapshot that is an artifact's JSON; what the      *)
(* claims of a contract may say, and the ledger's own files, are in        *)
(* DomainAuthority, the evidence of stage attempts in ForwardEvidence.     *)
(***************************************************************************)
EXTENDS Naturals, Sequences, FiniteSets

CONSTANTS
  ToolCalls,   \* calls of the tool that can be open at a time
  Texts,       \* the bytes the source may have
  CandidateIds,  \* candidate ids
  MaxRevision, \* bound on revisions and versions
  MaxMade,     \* bound on the calls that were let through
  MaxPlanned   \* bound on the confirmations that were

ASSUME RevisionsAssumption == MaxRevision \in Nat

VARIABLES
  pack,        \* what each path holds
  twice,       \* paths with the temporary file's link beside their own
  ledger,      \* what owner confirmation events confirm
  tool,        \* the file that each open call is placing
  confirm,     \* the artifact that the confirm command is placing
  made,        \* how many calls were let through
  planned      \* how many confirmations were

avars == <<pack, twice, ledger, tool, confirm, made, planned>>

Pointer(r, v) == [ref |-> r, value |-> v]
Rest == [at |-> "rest", file |-> {}]

(* A file that was created and not written. *)
Torn == [kind |-> "torn"]

Artifact(kind, n, status, sources, rests, before) ==
  [kind |-> kind, n |-> n, status |-> status, sources |-> sources, rests |-> rests,
   before |-> before, blocking |-> FALSE, vouched |-> FALSE, marked |-> FALSE]

(* The path of an artifact's identity and version; drafts of a contract    *)
(* and of a requirement only have candidate paths.                         *)
Path(a) == <<a.kind, a.n>>
IsCandidate(r) == r[1] = "candidates"
IsCanonical(p) == p.ref = Path(p.value)

(* What it takes an owner to say. *)
Conferred == {"confirmed", "resolved", "issued", "owner_confirmed"}
Confirms == [card |-> "confirmed", question |-> "resolved",
             contract |-> "issued", requirement |-> "owner_confirmed"]

(* The pack with a file placed. *)
With(r, v) == [q \in DOMAIN pack \cup {r} |-> IF q = r THEN v ELSE pack[q]]

Holds(p) == p.ref \in DOMAIN pack /\ pack[p.ref] = p.value
(* verifyDomainSourceRef asks for a file with one link. *)
SourcesHold(a) == \A p \in a.sources : Holds(p) /\ p.ref \notin twice
About(a, kind) == {p \in a.rests : p.value.kind = kind}

------------------------------------------------------------------------------

(* Whatever kind it has, only a later revision has a predecessor, and only *)
(* what an owner said points to an event.  A card is confirmed if it is    *)
(* vouched for: one of its authorities is more than domain knowledge.      *)
Parses(a) ==
  /\ a.n = 1 <=> a.before = {}
  /\ a.marked <=> a.status \in Conferred
  /\ a.kind = "card" /\ a.status = "confirmed" => a.vouched

(* assertPredecessor looks at the value, and not at its path. *)
Follows(a) ==
  \A p \in a.before : Holds(p) /\ p.value.kind = a.kind /\ p.value.n = a.n - 1

CardHolds(a) == a.status # "confirmed" /\ SourcesHold(a) /\ Follows(a)

QuestionHolds(a) == a.status = "open" /\ Follows(a)

InterviewHolds(a) ==
  /\ SourcesHold(a) /\ Follows(a)
  /\ \A p \in a.rests : Holds(p) /\ IsCanonical(p)
  /\ \A p \in About(a, "contract") : p.value.status = "issued"

BadContractHolds(a) ==
  /\ \A p \in About(a, "interview") :
       Holds(p) /\ IsCanonical(p) /\ p.value.sources = a.sources
  /\ SourcesHold(a)
  /\ \A p \in a.before :
       /\ Holds(p) /\ IsCanonical(p)
       /\ p.value.status = "issued" /\ p.value.n = a.n - 1
  /\ \A p \in About(a, "card") :
       /\ Holds(p) /\ IsCanonical(p)
       /\ p.value.status = "confirmed" /\ SourcesHold(p.value)
ContractHolds(a) ==
  /\ \A p \in About(a, "interview") :
       /\ Holds(p) /\ IsCanonical(p)
       /\ p.value.status = "completed" /\ p.value.sources = a.sources
  /\ SourcesHold(a)
  /\ \A p \in a.before :
       /\ Holds(p) /\ IsCanonical(p)
       /\ p.value.status = "issued" /\ p.value.n = a.n - 1
  /\ \A p \in About(a, "card") :
       /\ Holds(p) /\ IsCanonical(p)
       /\ p.value.status = "confirmed" /\ SourcesHold(p.value)

RequirementHolds(a) ==
  /\ a.status = "draft" /\ SourcesHold(a) /\ Follows(a)
  /\ \A p \in a.rests : Holds(p) /\ IsCanonical(p)
  /\ \A p \in About(a, "contract") : p.value.status = "issued"

ArtifactHolds(a) ==
  CASE a.kind = "card" -> CardHolds(a)
    [] a.kind = "question" -> QuestionHolds(a)
    [] a.kind = "interview" -> InterviewHolds(a)
    [] a.kind = "contract" -> ContractHolds(a)
    [] a.kind = "requirement" -> RequirementHolds(a)

(* assertArtifactRef. *)
WrittenAt(a, r) ==
  IF a.kind \in {"contract", "requirement"} THEN IsCandidate(r) ELSE r = Path(a)

------------------------------------------------------------------------------

SourcePath == <<"sources", 1>>
Source(t) == Pointer(SourcePath, [kind |-> "source", text |-> t])
CandidatePaths == {<<"candidates", x>> : x \in CandidateIds}

(* A card that says it is confirmed, and is nowhere in the pack. *)
Forged ==
  LET a == [Artifact("card", 1, "confirmed", {Source(t) : t \in Texts}, {}, {})
              EXCEPT !.marked = TRUE, !.vouched = TRUE]
  IN  Pointer(Path(a), a)

(* JSON that a caller may hand over as a source: that of a file of the     *)
(* pack, and of the card.                                                  *)
DocumentPath == <<"sources", 2>>
Documents == {Forged.value} \cup ({pack[r] : r \in DOMAIN pack \ {SourcePath}} \ {Torn})

Pointers(kind) ==
  {p \in {Pointer(r, pack[r]) : r \in DOMAIN pack} : p.value # Torn /\ p.value.kind = kind}
    \cup (IF kind = "card" THEN {Forged} ELSE {})

AtMostOne(S) == {{}} \cup {{x} : x \in S}

Resting(c) == tool[c] = Rest /\ made < MaxMade

(* writeImmutable begins.  A path that is taken ends the call at once: the *)
(* same bytes are as good as written, others are refused.                  *)
PlaceFile(c, r, v) ==
  /\ r \notin DOMAIN pack
  /\ tool' = [tool EXCEPT ![c] = [at |-> "writing", file |-> {Pointer(r, v)}]]
  /\ made' = made + 1
  /\ UNCHANGED <<pack, twice, ledger, confirm, planned>>

(* executeSnapshot: the bytes are the caller's, or those of a file of the  *)
(* workspace, whatever they say.                                           *)
SnapshotSource(c) ==
  /\ Resting(c)
  /\ \/ \E t \in Texts : PlaceFile(c, SourcePath, Source(t).value)
     \/ \E v \in Documents : PlaceFile(c, DocumentPath, v)

(* executeWrite.  A refusal leaves no trace.  The checks read the pack at  *)
(* several points; what they find there is never taken away again.         *)
WriteArtifact(c, value) ==
  LET a == [value EXCEPT !.marked = value.status \in Conferred]
  IN  /\ Parses(a)
      /\ ArtifactHolds(a)
      /\ \E r \in CandidatePaths \cup {Path(a)} : WrittenAt(a, r) /\ PlaceFile(c, r, a)

(* What the author may ask to have written. *)
WriteCard(c) ==
  /\ Resting(c)
  /\ \E n \in 1..MaxRevision, status \in {"proposed", "conflicted", "confirmed"},
        vouched \in BOOLEAN, t \in Texts, before \in AtMostOne(Pointers("card")) :
       WriteArtifact(c, [Artifact("card", n, status, {Source(t)}, {}, before)
                           EXCEPT !.vouched = vouched])

WriteQuestion(c) ==
  /\ Resting(c)
  /\ \E n \in 1..MaxRevision, status \in {"open", "resolved"}, blocking \in BOOLEAN,
        before \in AtMostOne(Pointers("question")) :
       WriteArtifact(c, [Artifact("question", n, status, {}, {}, before) EXCEPT !.blocking = blocking])

WriteInterview(c) ==
  /\ Resting(c)
  /\ \E n \in 1..MaxRevision, status \in {"draft", "completed"}, t \in Texts,
        cards \in AtMostOne(Pointers("card")), questions \in AtMostOne(Pointers("question")),
        base \in AtMostOne(Pointers("contract")), before \in AtMostOne(Pointers("interview")) :
       WriteArtifact(c, Artifact("interview", n, status, {Source(t)},
                                 cards \cup questions \cup base, before))

(* The snapshot's digest is taken from the interview. *)
WriteContract(c) ==
  /\ Resting(c)
  /\ \E n \in 1..MaxRevision, i \in Pointers("interview"), card \in Pointers("card"),
        before \in AtMostOne(Pointers("contract")) :
       WriteArtifact(c, Artifact("contract", n, "candidate", i.value.sources, {i, card}, before))

WriteRequirement(c) ==
  /\ Resting(c)
  /\ \E n \in 1..MaxRevision, status \in {"draft", "owner_confirmed"}, t \in Texts,
        base \in Pointers("contract"), questions \in AtMostOne(Pointers("question")),
        before \in AtMostOne(Pointers("requirement")) :
       WriteArtifact(c, Artifact("requirement", n, status, {Source(t)},
                                 {base} \cup questions, before))

(* executeStage. *)
StageCandidate(c) ==
  /\ Resting(c)
  /\ \E p \in Pointers("card") \cup Pointers("question"), r \in CandidatePaths :
       /\ Holds(p) /\ IsCanonical(p)
       /\ ArtifactHolds(p.value)
       /\ p.value.status \in {"proposed", "unresolved", "open"}
       /\ PlaceFile(c, r, p.value)

BadLink(c) ==
  \E p \in tool[c].file :
    /\ tool[c].at = "writing"
    /\ pack' = With(p.ref, p.value)
    /\ twice' = twice \cup {p.ref}
    /\ tool' = [tool EXCEPT ![c].at = "linked"]
    /\ UNCHANGED <<ledger, confirm, made, planned>>

(* writeImmutable goes on: who links first has the path, and to find the   *)
(* same bytes there is as good as to have written them.                    *)
Link(c) ==
  \E p \in tool[c].file :
    /\ tool[c].at = "writing"
    /\ IF p.ref \in DOMAIN pack
         THEN /\ tool' = [tool EXCEPT ![c] = Rest]
              /\ UNCHANGED <<pack, twice>>
         ELSE /\ pack' = With(p.ref, p.value)
              /\ twice' = twice \cup {p.ref}
              /\ tool' = [tool EXCEPT ![c].at = "linked"]
    /\ UNCHANGED <<ledger, confirm, made, planned>>

(* The temporary file goes; a failure to remove it is passed over. *)
Unlink(c) ==
  \E p \in tool[c].file :
    /\ tool[c].at = "linked"
    /\ tool' = [tool EXCEPT ![c] = Rest]
    /\ twice' \in {twice, twice \ {p.ref}}
    /\ UNCHANGED <<pack, ledger, confirm, made, planned>>

(* The calls run in one process. *)
SessionDies ==
  /\ \E c \in ToolCalls : tool[c] # Rest
  /\ tool' = [c \in ToolCalls |-> Rest]
  /\ UNCHANGED <<pack, twice, ledger, confirm, made, planned>>

------------------------------------------------------------------------------

(* The artifact without what the confirmation adds to it. *)
Target(a) ==
  [a EXCEPT !.marked = FALSE, !.status = IF a.kind = "contract" THEN "candidate" ELSE @]
Backed(a) == a.marked /\ Target(a) \in ledger

(* planAuthorityTransition: a card or a question gets a revision after the *)
(* candidate, a draft is what is confirmed.  What comes of it is parsed.   *)
Transition(p) ==
  LET a == p.value
      confirmed == [a EXCEPT !.status = Confirms[a.kind], !.marked = TRUE]
  IN  IF a.kind \in {"card", "question"}
        THEN [confirmed EXCEPT !.n = a.n + 1, !.before = {p}]
        ELSE confirmed
Confirmable(a) ==
  \/ a.kind \in {"card", "question"} /\ a.status \in {"proposed", "unresolved", "open"}
  \/ a.kind \in {"contract", "requirement"} /\ a.status \in {"candidate", "draft"}

AsksOpenly(a) == \E p \in About(a, "question") : p.value.status = "open" /\ p.value.blocking

(* preflightAuthorityClosure, questions that still block aside. *)
ClosureHolds(a) ==
  CASE a.kind = "card" -> SourcesHold(a)
    [] a.kind = "question" -> TRUE
    [] a.kind = "contract" ->
         /\ \A p \in About(a, "interview") :
              /\ Holds(p) /\ p.value.status = "completed"
              /\ p.value.sources = a.sources /\ SourcesHold(p.value)
         /\ \A p \in a.before : Holds(p) /\ Backed(p.value) /\ p.value.n = a.n - 1
         /\ \A p \in About(a, "card") :
              Holds(p) /\ p.value.status = "confirmed" /\ SourcesHold(p.value) /\ Backed(p.value)
    [] a.kind = "requirement" ->
         /\ SourcesHold(a)
         /\ \A p \in a.rests : Holds(p) /\ (p.value.status \in Conferred => Backed(p.value))
         /\ \A p \in About(a, "contract") : p.value.status = "issued"

PlanConfirm ==
  /\ confirm = Rest /\ planned < MaxPlanned
  /\ \E r \in DOMAIN pack \cap CandidatePaths :
       LET a == pack[r]
           b == Transition(Pointer(r, a))
       IN  /\ Confirmable(a) /\ Parses(b)
           /\ Path(b) \in DOMAIN pack => Holds(Pointer(Path(b), b))
           /\ ClosureHolds(a) /\ ~AsksOpenly(a)
           /\ confirm' = [at |-> "planned", file |-> {Pointer(Path(b), b)}]
  /\ planned' = planned + 1
  /\ UNCHANGED <<pack, twice, ledger, tool, made>>

RecordEvent ==
  \E p \in confirm.file :
    /\ confirm.at = "planned"
    /\ ledger' = ledger \cup {Target(p.value)}
    /\ confirm' = [confirm EXCEPT !.at = "recorded"]
    /\ UNCHANGED <<pack, twice, tool, made, planned>>

(* An exclusive creation; a path that is taken leaves the confirmation     *)
(* incomplete, unless it holds the same artifact.                          *)
CreateConfirmed ==
  \E p \in confirm.file :
    /\ confirm.at = "recorded"
    /\ IF p.ref \in DOMAIN pack
         THEN confirm' = Rest /\ UNCHANGED pack
         ELSE /\ pack' = With(p.ref, Torn)
              /\ confirm' = [confirm EXCEPT !.at = "created"]
    /\ UNCHANGED <<twice, ledger, tool, made, planned>>

WriteConfirmed ==
  \E p \in confirm.file :
    /\ confirm.at = "created"
    /\ pack' = [pack EXCEPT ![p.ref] = p.value]
    /\ confirm' = Rest
    /\ UNCHANGED <<twice, ledger, tool, made, planned>>

CommandDies ==
  /\ confirm # Rest
  /\ confirm' = Rest
  /\ UNCHANGED <<pack, twice, ledger, tool, made, planned>>

------------------------------------------------------------------------------

(* Of a pack with these files, of which nobody has one open.               *)
PackWith(files) ==
  /\ pack = [r \in {p.ref : p \in files} |-> (CHOOSE p \in files : p.ref = r).value]
  /\ ledger = {Target(p.value) : p \in {q \in files : q.value.kind # "source" /\ q.value.marked}}
  /\ twice = {}
  /\ tool = [c \in ToolCalls |-> Rest]
  /\ confirm = Rest
  /\ made = 0 /\ planned = 0

(* An author begins with nothing. *)
PackInit == PackWith({})

PackNext ==
  \/ \E c \in ToolCalls :
       \/ SnapshotSource(c)
       \/ WriteCard(c) \/ WriteQuestion(c) \/ WriteInterview(c)
       \/ WriteContract(c) \/ WriteRequirement(c)
       \/ StageCandidate(c) \/ Link(c) \/ Unlink(c)
  \/ SessionDies
  \/ PlanConfirm \/ RecordEvent \/ CreateConfirmed \/ WriteConfirmed \/ CommandDies

PackSpec == PackInit /\ [][PackNext]_avars

------------------------------------------------------------------------------

(* readPredecessorChain: p and all that went before it. *)
Past(p) ==
  LET back[n \in 0..MaxRevision] ==
        IF n = 0 THEN {p} ELSE UNION {q.value.before : q \in back[n - 1]}
  IN  UNION {back[n] : n \in 0..MaxRevision}

Contiguous(q) ==
  \A b \in q.value.before :
    /\ b.value.kind = q.value.kind /\ b.value.n = q.value.n - 1
    /\ \/ IsCanonical(b)
       \/ q.value.kind \in {"card", "question", "requirement"} /\ IsCandidate(b.ref)

(* assertOwnerConfirmation, at the only path that such an artifact may have. *)
Authorized(q) == q.value.status \in Conferred => IsCanonical(q) /\ Backed(q.value)

(* What a contract, a requirement and an interview rest on. *)
Founded(q) ==
  LET a == q.value
      used == CASE a.kind = "interview" -> a.rests \ About(a, "contract")
                [] a.kind # "interview" -> a.rests
  IN  /\ \A p \in used : Holds(p) /\ Authorized(p)
      /\ a.kind = "contract" =>
           /\ \A p \in About(a, "interview") :
                /\ IsCanonical(p) /\ p.value.status = "completed"
                /\ p.value.sources = a.sources
           /\ \A p \in About(a, "card") : p.value.status = "confirmed"
      /\ a.kind = "requirement" => \A p \in About(a, "contract") : Backed(p.value)

(* validateDomainPack of a manifest that lists the artifact and what it    *)
(* rests on, link counts aside.                                            *)
Validates(p) ==
  \A q \in Past(p) :
    /\ Holds(q) /\ Contiguous(q) /\ Authorized(q) /\ Founded(q)
    /\ \A s \in q.value.sources : Holds(s)

------------------------------------------------------------------------------

(* Whatever calls and confirmations overlap and whichever process dies,    *)
(* what the tool let into the candidates the confirm command can still     *)
(* take: the tool's checks (validateArtifact) are at least those of the    *)
(* command (preflightAuthorityClosure), and what they saw stays as it was. *)
(* Four things may stand in its way, of which the tool warns in none: a    *)
(* question that still blocks, a path that somebody else has taken, a      *)
(* second link that a dead call left on the source, and a card that        *)
(* nothing but domain knowledge vouches for, which may be staged and does  *)
(* not parse once it is confirmed.                                         *)
StagedIsConfirmable ==
  SourcePath \notin twice =>
    \A r \in DOMAIN pack \cap CandidatePaths :
      /\ Confirmable(pack[r]) /\ ClosureHolds(pack[r])
      /\ \/ pack[r].kind = "card" /\ ~pack[r].vouched
         \/ Parses(Transition(Pointer(r, pack[r])))

FromDocument(p) == \E q \in Past(p) : \E b \in q.value.before : b.ref = DocumentPath

(* Every whole artifact at its canonical path, whether the tool or the     *)
(* command has placed it, passes the checks that validateDomainPack makes  *)
(* of it, of its predecessors and of what it rests on; what it rests on    *)
(* has such a path itself.  Except one that goes back to a snapshot: the   *)
(* tool takes a predecessor from any path (assertPredecessor), and the     *)
(* validator none from sources/ (readPredecessorChain).                    *)
WrittenPackValidates ==
  \A r \in DOMAIN pack \ ({SourcePath, DocumentPath} \cup CandidatePaths) :
    LET p == Pointer(r, pack[r])
    IN  pack[r] # Torn => IsCanonical(p) /\ (FromDocument(p) \/ Validates(p))
==============================================================================
