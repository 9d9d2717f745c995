------------------------ MODULE ExposureLedger_proofs ------------------------
(***************************************************************************)
(* Proofs about ExposureLedger, for every set of Suites, arms and          *)
(* identities.                                                             *)
(***************************************************************************)
EXTENDS ExposureLedger, TLAPS

Measuring == {"ready", "measuring", "publishing", "cleaning", "done", "failed"}

NotYetLinking == TurnedAway \cup {"start", "confirming", "reserving"}

(***************************************************************************)
(* The inductive invariant.  Its core is LinkedPrefix and LinkedOnly: the  *)
(* files a Suite owns are exactly the first link[s] - 1 of its three.      *)
(***************************************************************************)
LinkedPrefix ==
  \A s \in Suites : \A k \in Slot : k < link[s] => reserved[PathOf(s, k)] = s

LinkedOnly ==
  \A p \in Path : reserved[p] # NoSuite =>
    p = PathOf(reserved[p], p[1]) /\ p[1] < link[reserved[p]]

LinkMatchesLabel ==
  \A s \in Suites :
    /\ pc[s] \in Measuring => link[s] = 4
    /\ pc[s] \in NotYetLinking => link[s] = 1
    /\ pc[s] \in {"linking", "refused"} => link[s] \in Slot

SeenByHolders ==
  \A e \in seen : e.bucket = "holdout" => link[e.suite] = 4

CurrentSeen ==
  /\ \A s \in Suites : current[s] \subseteq seen
  /\ records \subseteq seen

RefusedByAnother ==
  \A s \in Suites : pc[s] = "refused" => reserved[PathOf(s, link[s])] \notin {NoSuite, s}

IInv ==
  /\ TypeOK
  /\ LinkedPrefix
  /\ LinkedOnly
  /\ LinkMatchesLabel
  /\ SeenByHolders
  /\ CurrentSeen
  /\ RefusedByAnother

-----------------------------------------------------------------------------
(***************************************************************************)
(* An episode belongs to a Suite, and a holdout episode is about the       *)
(* holdout of that Suite.                                                  *)
(***************************************************************************)
LEMMA EpisodeFacts ==
  ASSUME NEW e \in Episode
  PROVE  /\ e.suite \in Suites
         /\ e \in EpisodesOf(e.suite)
         /\ e.bucket = "holdout" => e.task = Holdout[e.suite]
         /\ e.bucket # "holdout" => e.task \in Practice[e.suite]
         /\ e.task \in Identity
<1>1. PICK s \in Suites : e \in EpisodesOf(s)
  BY DEF Episode
<1>2. /\ e.suite = s
      /\ e.bucket = "holdout" => e.task = Holdout[s]
      /\ e.bucket # "holdout" => e.task \in Practice[s]
  BY <1>1 DEF EpisodesOf
<1>3. QED
  BY <1>1, <1>2, LedgerAssumption

(***************************************************************************)
(* The k-th reservation file of a Suite is a file, of kind k.              *)
(***************************************************************************)
LEMMA PathFacts ==
  ASSUME NEW s \in Suites, NEW k \in Slot
  PROVE  /\ PathOf(s, k) \in Path
         /\ PathOf(s, k)[1] = k
<1>1. Holdout[s] \in Identity
  BY LedgerAssumption
<1>2. Holdout[s][k] \in Evidence
  BY <1>1 DEF Identity
<1>3. QED
  BY <1>2 DEF PathOf, Path

-----------------------------------------------------------------------------
(***************************************************************************)
(* The type invariant of the ledger and its clients holds.                 *)
(***************************************************************************)
LEMMA InitTypeOK == Init => TypeOK
<1> SUFFICES ASSUME Init PROVE TypeOK
  OBVIOUS
<1>1. \A s \in Suites : EpisodesOf(s) \subseteq Episode
  BY DEF Episode
<1>2. todo \in [Suites -> SUBSET Episode]
  BY <1>1 DEF Init
<1>3. QED
  BY <1>2 DEF Init, TypeOK, Labels

LEMMA StepTypeOK ==
  ASSUME TypeOK, LinkMatchesLabel, NEW s \in Suites, Step(s)
  PROVE  TypeOK'
<1> USE DEF TypeOK, Goto, Labels, Ended
<1>1. CASE Preflight(s)
  BY <1>1 DEF Preflight, Unexposed
<1>2. CASE Confirm(s)
  BY <1>2 DEF Confirm
<1>3. CASE CheckFreshness(s)
  BY <1>3 DEF CheckFreshness, Unexposed
<1>4. CASE LinkReservation(s)
  <2>1. link' \in [Suites -> 1..4]
    BY <1>4 DEF LinkReservation, LinkMatchesLabel, Slot
  <2>2. QED
    BY <1>4, <2>1 DEF LinkReservation
<1>5. CASE RefuseReservation(s)
  BY <1>5 DEF RefuseReservation
<1>6. ASSUME NEW e \in EpisodesOf(s), StartEpisode(s, e) PROVE TypeOK'
  <2>1. e \in Episode
    BY DEF Episode
  <2>2. QED
    BY <1>6, <2>1 DEF StartEpisode
<1>7. CASE FailSuite(s)
  BY <1>7 DEF FailSuite
<1>8. CASE WriteTemporary(s)
  BY <1>8 DEF WriteTemporary
<1>9. CASE LinkRecord(s)
  BY <1>9 DEF LinkRecord
<1>10. CASE RemoveTemporary(s)
  BY <1>10 DEF RemoveTemporary
<1>11. CASE FinishSuite(s)
  BY <1>11 DEF FinishSuite
<1>12. CASE Crash(s)
  BY <1>12 DEF Crash
<1>13. QED
  BY <1>1, <1>2, <1>3, <1>4, <1>5, <1>6, <1>7, <1>8, <1>9, <1>10, <1>11, <1>12 DEF Step

-----------------------------------------------------------------------------
(***************************************************************************)
(* Every step keeps the label of a Suite in line with its link counter.    *)
(***************************************************************************)
LEMMA StepLinkMatchesLabel ==
  ASSUME TypeOK, LinkMatchesLabel, NEW s \in Suites, Step(s)
  PROVE  LinkMatchesLabel'
<1> SUFFICES ASSUME NEW t \in Suites
             PROVE  /\ pc'[t] \in Measuring => link'[t] = 4
                    /\ pc'[t] \in NotYetLinking => link'[t] = 1
                    /\ pc'[t] \in {"linking", "refused"} => link'[t] \in Slot
  BY DEF LinkMatchesLabel
<1> USE DEF TypeOK, Goto, Measuring, NotYetLinking, TurnedAway, LinkMatchesLabel, Slot
<1>1. CASE Preflight(s)
  BY <1>1 DEF Preflight, Unexposed
<1>2. CASE Confirm(s)
  BY <1>2 DEF Confirm
<1>3. CASE CheckFreshness(s)
  BY <1>3 DEF CheckFreshness, Unexposed
<1>4. CASE LinkReservation(s)
  BY <1>4 DEF LinkReservation
<1>5. CASE RefuseReservation(s)
  BY <1>5 DEF RefuseReservation
<1>6. ASSUME NEW e \in EpisodesOf(s), StartEpisode(s, e)
      PROVE  LinkMatchesLabel'
  BY <1>6 DEF StartEpisode
<1>7. CASE FailSuite(s)
  BY <1>7 DEF FailSuite
<1>8. CASE WriteTemporary(s)
  BY <1>8 DEF WriteTemporary
<1>9. CASE LinkRecord(s)
  BY <1>9 DEF LinkRecord
<1>10. CASE RemoveTemporary(s)
  BY <1>10 DEF RemoveTemporary
<1>11. CASE FinishSuite(s)
  BY <1>11 DEF FinishSuite
<1>12. CASE Crash(s)
  BY <1>12 DEF Crash, Ended
<1>13. QED
  BY <1>1, <1>2, <1>3, <1>4, <1>5, <1>6, <1>7, <1>8, <1>9, <1>10, <1>11, <1>12 DEF Step

(***************************************************************************)
(* Only LinkReservation writes a reservation file or a link counter.       *)
(***************************************************************************)
LEMMA OtherStepsKeepLinks ==
  ASSUME NEW s \in Suites, Step(s), ~LinkReservation(s)
  PROVE  UNCHANGED <<reserved, link>>
BY DEF Step, Preflight, Confirm, CheckFreshness, Unexposed, RefuseReservation, StartEpisode,
       FailSuite, WriteTemporary, LinkRecord, RemoveTemporary, FinishSuite, Crash

(***************************************************************************)
(* What one successful link() does to the files and to the counters.       *)
(***************************************************************************)
LEMMA LinkEffect ==
  ASSUME TypeOK, LinkMatchesLabel, NEW s \in Suites, LinkReservation(s)
  PROVE  /\ link[s] \in Slot
         /\ link'[s] = link[s] + 1
         /\ \A t \in Suites : t # s => link'[t] = link[t]
         /\ PathOf(s, link[s]) \in Path
         /\ PathOf(s, link[s])[1] = link[s]
         /\ reserved[PathOf(s, link[s])] \in {NoSuite, s}
         /\ reserved'[PathOf(s, link[s])] = s
         /\ \A p \in Path : p # PathOf(s, link[s]) => reserved'[p] = reserved[p]
<1>1. link[s] \in Slot
  BY DEF LinkReservation, LinkMatchesLabel
<1>2. PathOf(s, link[s]) \in Path /\ PathOf(s, link[s])[1] = link[s]
  BY <1>1, PathFacts
<1>3. QED
  BY <1>1, <1>2 DEF LinkReservation, TypeOK

(***************************************************************************)
(* A reservation file never changes hands and a counter never goes back.   *)
(***************************************************************************)
LEMMA ReservationsPermanent ==
  ASSUME TypeOK, LinkMatchesLabel, NEW s \in Suites, Step(s)
  PROVE  /\ \A p \in Path : reserved[p] # NoSuite => reserved'[p] = reserved[p]
         /\ \A t \in Suites : link[t] <= link'[t]
<1>1. CASE LinkReservation(s)
  BY <1>1, LinkEffect DEF TypeOK, Slot
<1>2. CASE ~LinkReservation(s)
  BY <1>2, OtherStepsKeepLinks DEF TypeOK
<1>3. QED
  BY <1>1, <1>2

(***************************************************************************)
(* The files a Suite owns stay exactly the first link[s] - 1 of its three. *)
(***************************************************************************)
LEMMA StepLinked ==
  ASSUME TypeOK, LinkMatchesLabel, LinkedPrefix, LinkedOnly, NEW s \in Suites, Step(s)
  PROVE  LinkedPrefix' /\ LinkedOnly'
<1>1. CASE ~LinkReservation(s)
  BY <1>1, OtherStepsKeepLinks DEF LinkedPrefix, LinkedOnly, PathOf
<1>2. CASE LinkReservation(s)
  <2>1. ASSUME NEW t \in Suites, NEW k \in Slot, k < link'[t]
        PROVE  reserved'[PathOf(t, k)] = t
    <3>1. PathOf(t, k) \in Path
      BY PathFacts
    <3>2. CASE k < link[t]
      <4>1. reserved[PathOf(t, k)] = t
        BY <3>2 DEF LinkedPrefix
      <4>2. t # NoSuite
        BY LedgerAssumption
      <4>3. QED
        BY <3>1, <4>1, <4>2, ReservationsPermanent
    <3>3. CASE ~(k < link[t])
      <4>1. t = s /\ k = link[s]
        BY <1>2, <2>1, <3>3, LinkEffect DEF TypeOK, Slot
      <4>2. QED
        BY <1>2, <4>1, LinkEffect
    <3>4. QED
      BY <3>2, <3>3
  <2>2. ASSUME NEW p \in Path, reserved'[p] # NoSuite
        PROVE  p = PathOf(reserved'[p], p[1]) /\ p[1] < link'[reserved'[p]]
    <3>1. CASE p = PathOf(s, link[s])
      BY <1>2, <3>1, LinkEffect DEF Slot
    <3>2. CASE p # PathOf(s, link[s])
      <4>1. reserved'[p] = reserved[p]
        BY <1>2, <3>2, LinkEffect
      <4>2. p = PathOf(reserved[p], p[1]) /\ p[1] < link[reserved[p]]
        BY <2>2, <4>1 DEF LinkedOnly
      <4>3. reserved[p] \in Suites
        BY <2>2, <4>1 DEF TypeOK
      <4>4. p[1] \in Slot
        BY DEF Path
      <4>5. link[reserved[p]] <= link'[reserved[p]]
        BY <4>3, ReservationsPermanent
      <4>6. link[reserved[p]] \in 1..4 /\ link'[reserved[p]] \in 1..4
        BY <4>3, StepTypeOK DEF TypeOK
      <4>7. QED
        BY <4>1, <4>2, <4>4, <4>5, <4>6 DEF Slot
    <3>3. QED
      BY <3>1, <3>2
  <2>3. QED
    BY <2>1, <2>2 DEF LinkedPrefix, LinkedOnly, PathOf
<1>3. QED
  BY <1>1, <1>2

(***************************************************************************)
(* A Suite is refused because of a file of somebody else, and stays so.    *)
(***************************************************************************)
LEMMA StepRefusedByAnother ==
  ASSUME TypeOK, LinkMatchesLabel, RefusedByAnother, NEW s \in Suites, Step(s)
  PROVE  RefusedByAnother'
<1> SUFFICES ASSUME NEW t \in Suites, pc'[t] = "refused"
             PROVE  reserved'[PathOf(t, link'[t])] \notin {NoSuite, t}
  BY DEF RefusedByAnother, PathOf
<1>1. CASE pc[t] = "refused"
  <2>1. link[t] \in Slot
    BY <1>1 DEF LinkMatchesLabel
  <2>2. PathOf(t, link[t]) \in Path
    BY <2>1, PathFacts
  <2>3. reserved[PathOf(t, link[t])] \notin {NoSuite, t}
    BY <1>1 DEF RefusedByAnother
  <2>4. link'[t] = link[t]
    <3>1. CASE LinkReservation(s)
      BY <1>1, <3>1, LinkEffect DEF LinkReservation
    <3>2. CASE ~LinkReservation(s)
      BY <3>2, OtherStepsKeepLinks
    <3>3. QED
      BY <3>1, <3>2
  <2>5. QED
    BY <2>2, <2>3, <2>4, ReservationsPermanent
<1>2. CASE pc[t] # "refused"
  <2>1. s = t /\ RefuseReservation(s)
    BY <1>2 DEF Step, Preflight, Confirm, CheckFreshness, Unexposed, LinkReservation,
       RefuseReservation, StartEpisode, FailSuite, WriteTemporary, LinkRecord, RemoveTemporary,
       FinishSuite, Crash, Goto, TypeOK
  <2>2. QED
    BY <2>1 DEF RefuseReservation
<1>3. QED
  BY <1>1, <1>2

(***************************************************************************)
(* Holdouts are shown by Suites whose counter has passed the third file,   *)
(* and only episodes that were shown are recorded.                         *)
(***************************************************************************)
LEMMA StepSeen ==
  ASSUME TypeOK, LinkMatchesLabel, SeenByHolders, CurrentSeen, NEW s \in Suites, Step(s)
  PROVE  SeenByHolders' /\ CurrentSeen'
<1>1. ASSUME NEW e \in seen, e.bucket = "holdout"
      PROVE  link'[e.suite] = 4
  <2>1. e.suite \in Suites
    BY EpisodeFacts DEF TypeOK
  <2>2. link[e.suite] = 4
    BY <1>1 DEF SeenByHolders
  <2>3. link'[e.suite] \in 1..4
    BY <2>1, StepTypeOK DEF TypeOK
  <2>4. link[e.suite] <= link'[e.suite]
    BY <2>1, ReservationsPermanent
  <2>5. QED
    BY <2>2, <2>3, <2>4
<1>2. CASE \E e \in EpisodesOf(s) : StartEpisode(s, e)
  <2>1. PICK e \in EpisodesOf(s) : StartEpisode(s, e)
    BY <1>2
  <2>2. seen' = seen \cup {e}
    BY <2>1 DEF StartEpisode
  <2>3. e.suite = s
    BY DEF EpisodesOf
  <2>4. link'[s] = 4
    BY <2>1 DEF StartEpisode, LinkMatchesLabel, Measuring
  <2>5. SeenByHolders'
    BY <1>1, <2>2, <2>3, <2>4 DEF SeenByHolders
  <2>6. CurrentSeen'
    BY <2>1 DEF StartEpisode, CurrentSeen, TypeOK
  <2>7. QED
    BY <2>5, <2>6
<1>3. CASE ~\E e \in EpisodesOf(s) : StartEpisode(s, e)
  <2>1. seen' = seen
    BY <1>3 DEF Step, Preflight, Confirm, CheckFreshness, Unexposed, LinkReservation,
       RefuseReservation, FailSuite, WriteTemporary, LinkRecord, RemoveTemporary, FinishSuite,
       Crash
  <2>2. SeenByHolders'
    BY <1>1, <2>1 DEF SeenByHolders
  <2>3. CurrentSeen'
    BY <1>3 DEF Step, Preflight, Confirm, CheckFreshness, Unexposed, LinkReservation,
       RefuseReservation, FailSuite, WriteTemporary, LinkRecord, RemoveTemporary, FinishSuite,
       Crash, CurrentSeen, TypeOK
  <2>4. QED
    BY <2>2, <2>3
<1>4. QED
  BY <1>2, <1>3

-----------------------------------------------------------------------------
LEMMA InitIInv == Init => IInv
<1> SUFFICES ASSUME Init PROVE IInv
  OBVIOUS
<1>1. TypeOK
  BY InitTypeOK
<1>2. LinkedPrefix
  BY DEF Init, LinkedPrefix, Slot
<1>3. LinkedOnly
  BY DEF Init, LinkedOnly
<1>4. LinkMatchesLabel
  BY DEF Init, LinkMatchesLabel, Measuring, NotYetLinking, TurnedAway
<1>5. SeenByHolders /\ CurrentSeen /\ RefusedByAnother
  BY DEF Init, SeenByHolders, CurrentSeen, RefusedByAnother
<1>6. QED
  BY <1>1, <1>2, <1>3, <1>4, <1>5 DEF IInv

LEMMA NextIInv == IInv /\ [Next]_vars => IInv'
<1> SUFFICES ASSUME IInv, [Next]_vars PROVE IInv'
  OBVIOUS
<1>1. CASE Next
  <2>1. PICK s \in Suites : Step(s)
    BY <1>1 DEF Next
  <2>2. QED
    BY <2>1, StepTypeOK, StepLinkMatchesLabel, StepLinked, StepRefusedByAnother, StepSeen
       DEF IInv
<1>2. CASE UNCHANGED vars
  BY <1>2 DEF vars, IInv, TypeOK, LinkedPrefix, LinkedOnly, LinkMatchesLabel, SeenByHolders,
     CurrentSeen, RefusedByAnother, PathOf, EpisodesOf
<1>3. QED
  BY <1>1, <1>2

LEMMA IInvCorrect == Spec => []IInv
  BY InitIInv, NextIInv, PTL DEF Spec

(***************************************************************************)
(* Type correctness of the ledger and its clients.                         *)
(***************************************************************************)
THEOREM TypeCorrect == Spec => []TypeOK
<1>1. IInv => TypeOK
  BY DEF IInv
<1>2. QED
  BY <1>1, IInvCorrect, PTL

-----------------------------------------------------------------------------
(***************************************************************************)
(* A Suite whose counter has passed the third file owns its identity.      *)
(***************************************************************************)
LEMMA FullCounterOwns ==
  ASSUME IInv, NEW s \in Suites, link[s] = 4
  PROVE  Owns(s)
BY DEF IInv, LinkedPrefix, Owns, Slot

(***************************************************************************)
(* Two owners of overlapping identities are one Suite.                     *)
(***************************************************************************)
LEMMA OwnersDisjoint ==
  ASSUME NEW s \in Suites, NEW t \in Suites, Owns(s), Owns(t),
         Overlap(Holdout[s], Holdout[t])
  PROVE  s = t
<1>1. PICK k \in Slot : Holdout[s][k] = Holdout[t][k]
  BY DEF Overlap
<1>2. PathOf(s, k) = PathOf(t, k)
  BY <1>1 DEF PathOf
<1>3. QED
  BY <1>2 DEF Owns

(***************************************************************************)
(* Holdouts that share evidence are only ever shown by one Suite.          *)
(***************************************************************************)
THEOREM HoldoutSafety == Spec => []HoldoutShownByOneSuite
<1>1. IInv => HoldoutShownByOneSuite
  <2> SUFFICES ASSUME IInv, NEW e \in seen, NEW f \in seen,
                      e.bucket = "holdout", f.bucket = "holdout",
                      Overlap(e.task, f.task)
               PROVE  e.suite = f.suite
    BY DEF HoldoutShownByOneSuite
  <2>1. e \in Episode /\ f \in Episode
    BY DEF IInv, TypeOK
  <2>2. /\ e.suite \in Suites /\ e.task = Holdout[e.suite]
        /\ f.suite \in Suites /\ f.task = Holdout[f.suite]
    BY <2>1, EpisodeFacts
  <2>3. Owns(e.suite) /\ Owns(f.suite)
    BY <2>2, FullCounterOwns DEF IInv, SeenByHolders
  <2>4. QED
    BY <2>2, <2>3, OwnersDisjoint
<1>2. QED
  BY <1>1, IInvCorrect, PTL

(***************************************************************************)
(* A recorded holdout exposure is covered by its three reservations.       *)
(***************************************************************************)
THEOREM RecordsOwned == Spec => []HoldoutRecordsOwned
<1>1. IInv => HoldoutRecordsOwned
  <2> SUFFICES ASSUME IInv, NEW r \in records, r.bucket = "holdout"
               PROVE  Owns(r.suite)
    BY DEF HoldoutRecordsOwned
  <2>1. r \in seen /\ r \in Episode
    BY DEF IInv, CurrentSeen, TypeOK
  <2>2. r.suite \in Suites /\ link[r.suite] = 4
    BY <2>1, EpisodeFacts DEF IInv, SeenByHolders
  <2>3. QED
    BY <2>2, FullCounterOwns
<1>2. QED
  BY <1>1, IInvCorrect, PTL

(***************************************************************************)
(* A run that was declined or turned away owns no reservation file.        *)
(***************************************************************************)
THEOREM NothingConsumed == Spec => []TurnedAwayConsumesNothing
<1>1. IInv => TurnedAwayConsumesNothing
  <2> SUFFICES ASSUME IInv, NEW s \in Suites, pc[s] \in TurnedAway,
                      NEW p \in Path, reserved[p] = s
               PROVE  FALSE
    BY DEF TurnedAwayConsumesNothing
  <2>1. s # NoSuite
    BY LedgerAssumption
  <2>2. p[1] < link[s]
    BY <2>1 DEF IInv, LinkedOnly
  <2>3. link[s] = 1 /\ p[1] \in 1..3
    BY DEF IInv, LinkMatchesLabel, NotYetLinking, Path, Slot
  <2>4. QED
    BY <2>2, <2>3
<1>2. QED
  BY <1>1, IInvCorrect, PTL

(***************************************************************************)
(* The counter of a refused Suite names a file of a Suite that got         *)
(* strictly further.                                                       *)
(***************************************************************************)
LEMMA RefuserIsFurther ==
  ASSUME IInv, NEW s \in Suites, pc[s] = "refused"
  PROVE  \E t \in Suites : link[s] < link[t]
<1>1. link[s] \in Slot
  BY DEF IInv, LinkMatchesLabel
<1>2. PathOf(s, link[s]) \in Path /\ PathOf(s, link[s])[1] = link[s]
  BY <1>1, PathFacts
<1>3. reserved[PathOf(s, link[s])] \in Suites
  BY <1>2 DEF IInv, RefusedByAnother, TypeOK
<1>4. link[s] < link[reserved[PathOf(s, link[s])]]
  BY <1>2, <1>3 DEF IInv, LinkedOnly, RefusedByAnother
<1>5. QED
  BY <1>3, <1>4

(***************************************************************************)
(* Wherever a Suite has linked something, the holdout is owned or still    *)
(* (or, after a crash, for ever) in the hands of a linking Suite: the      *)
(* chain of refusals only climbs, and a fourth rung is ownership.          *)
(***************************************************************************)
THEOREM SomebodyWins == Spec => []SomeReserverWins
<1> DEFINE Settled(s) == Owns(s) \/ (pc[s] \in {"linking", "crashed"} /\ link[s] > 1)
<1>1. IInv => SomeReserverWins
  <2> SUFFICES ASSUME IInv, \A s \in Suites : ~Settled(s),
                      NEW s \in Suites, pc[s] = "refused"
               PROVE  FALSE
    BY DEF SomeReserverWins
  <2>1. ASSUME NEW t \in Suites, link[t] > 1
        PROVE  link[t] \in Slot /\ pc[t] = "refused"
    <3>1. link[t] \in 1..4 /\ pc[t] \in Labels
      BY DEF IInv, TypeOK
    <3>2. link[t] # 4
      BY FullCounterOwns
    <3>3. pc[t] \notin Measuring \cup NotYetLinking
      BY <2>1, <3>2 DEF IInv, LinkMatchesLabel
    <3>4. pc[t] \notin {"linking", "crashed"}
      BY <2>1
    <3>5. QED
      BY <3>1, <3>2, <3>3, <3>4 DEF Labels, Ended, Measuring, NotYetLinking, TurnedAway, Slot
  <2>2. link[s] \in Slot
    BY DEF IInv, LinkMatchesLabel
  <2>3. PICK t \in Suites : link[s] < link[t]
    BY RefuserIsFurther
  <2>4. link[t] \in 2..3 /\ pc[t] = "refused"
    BY <2>1, <2>2, <2>3 DEF IInv, TypeOK, Slot
  <2>5. PICK u \in Suites : link[t] < link[u]
    BY <2>4, RefuserIsFurther
  <2>6. link[u] = 3 /\ pc[u] = "refused"
    BY <2>1, <2>4, <2>5 DEF IInv, TypeOK, Slot
  <2>7. PICK w \in Suites : link[u] < link[w]
    BY <2>6, RefuserIsFurther
  <2>8. link[w] \in Slot
    BY <2>1, <2>6, <2>7 DEF IInv, TypeOK
  <2>9. QED
    BY <2>6, <2>7, <2>8 DEF Slot
<1>2. QED
  BY <1>1, IInvCorrect, PTL

-----------------------------------------------------------------------------
(***************************************************************************)
(* When no holdout evidence is practised, whatever overlaps a Suite's      *)
(* holdout and has been shown was shown by the owner of that evidence.     *)
(***************************************************************************)
LEMMA ShownOverlapIsOwned ==
  ASSUME IInv, BucketsDisjoint, NEW s \in Suites, NEW f \in seen,
         Overlap(Holdout[s], f.task)
  PROVE  /\ f.suite \in Suites
         /\ link[f.suite] = 4
         /\ Overlap(Holdout[s], Holdout[f.suite])
<1>1. f \in Episode
  BY DEF IInv, TypeOK
<1>2. f.suite \in Suites
  BY <1>1, EpisodeFacts
<1>3. f.bucket = "holdout"
  <2>1. SUFFICES ASSUME f.bucket # "holdout" PROVE FALSE
    OBVIOUS
  <2>2. f.task \in Practice[f.suite]
    BY <1>1, <2>1, EpisodeFacts
  <2>3. ~Overlap(f.task, Holdout[s])
    BY <1>2, <2>2 DEF BucketsDisjoint
  <2>4. QED
    BY <2>3 DEF Overlap
<1>4. f.task = Holdout[f.suite]
  BY <1>1, <1>3, EpisodeFacts
<1>5. QED
  BY <1>2, <1>3, <1>4 DEF IInv, SeenByHolders

(***************************************************************************)
(* A run that had evidence on record when it started is turned away or     *)
(* dies: its check sees the record, or cannot read the directory.          *)
(***************************************************************************)
Spent(s) ==
  /\ pc[s] \in {"start", "exposed", "unlistable", "crashed"}
  /\ RecordedExposure(s) /\ ~HoldoutShown(s)

LEMMA StepSpent ==
  ASSUME IInv, NEW s \in Suites, Spent(s), NEW t \in Suites, Step(t)
  PROVE  Spent(s)'
<1>1. TypeOK /\ pc \in [Suites -> Labels]
  BY DEF IInv, TypeOK
<1>2. records \subseteq records'
  BY DEF Step, Preflight, Confirm, CheckFreshness, Unexposed, LinkReservation, RefuseReservation,
     StartEpisode, FailSuite, WriteTemporary, LinkRecord, RemoveTemporary, FinishSuite, Crash
<1>3. RecordedExposure(s)'
  BY <1>2 DEF Spent, RecordedExposure
<1>4. pc'[s] \in {"start", "exposed", "unlistable", "crashed"}
  <2>1. CASE t # s
    BY <1>1, <2>1 DEF Step, Preflight, Confirm, CheckFreshness, Unexposed, LinkReservation,
       RefuseReservation, StartEpisode, FailSuite, WriteTemporary, LinkRecord, RemoveTemporary,
       FinishSuite, Crash, Goto, Spent
  <2>2. CASE t = s
    BY <1>1, <2>2 DEF Step, Preflight, Confirm, CheckFreshness, Unexposed, LinkReservation,
       RefuseReservation, StartEpisode, FailSuite, WriteTemporary, LinkRecord, RemoveTemporary,
       FinishSuite, Crash, Goto, Spent, Ended
  <2>3. QED
    BY <2>1, <2>2
<1>5. \A e \in seen' \ seen : e.suite = t /\ pc[t] = "ready"
  BY DEF Step, Preflight, Confirm, CheckFreshness, Unexposed, LinkReservation, RefuseReservation,
     StartEpisode, FailSuite, WriteTemporary, LinkRecord, RemoveTemporary, FinishSuite, Crash,
     EpisodesOf
<1>6. ~HoldoutShown(s)'
  BY <1>5 DEF Spent, HoldoutShown
<1>7. QED
  BY <1>3, <1>4, <1>6 DEF Spent

(***************************************************************************)
(* Evidence that is on record when a run starts is never shown to a model  *)
(* as that run's holdout, under whatever bucket and by whatever Suite it   *)
(* was exposed before (assertHoldoutUnexposed).  Nothing is assumed of     *)
(* the registries.                                                         *)
(***************************************************************************)
THEOREM RecordedIsSpent == Spec => RecordedEvidenceStaysSpent
<1> SUFFICES ASSUME NEW s \in Suites
             PROVE  Spec => [](pc[s] = "start" /\ RecordedExposure(s) => []~HoldoutShown(s))
  BY DEF RecordedEvidenceStaysSpent
<1>1. IInv /\ pc[s] = "start" /\ RecordedExposure(s) => Spent(s)
  <2> SUFFICES ASSUME IInv, pc[s] = "start", HoldoutShown(s) PROVE FALSE
    BY DEF Spent
  <2>1. link[s] = 4
    BY DEF HoldoutShown, IInv, SeenByHolders
  <2>2. link[s] = 1
    BY DEF IInv, LinkMatchesLabel, NotYetLinking
  <2>3. QED
    BY <2>1, <2>2
<1>2. IInv /\ Spent(s) /\ [Next]_vars => Spent(s)'
  <2> SUFFICES ASSUME IInv, Spent(s), [Next]_vars PROVE Spent(s)'
    OBVIOUS
  <2>1. CASE Next
    BY <2>1, StepSpent DEF Next
  <2>2. CASE UNCHANGED vars
    BY <2>2 DEF vars, Spent, RecordedExposure, HoldoutShown
  <2>3. QED
    BY <2>1, <2>2
<1>3. Spent(s) => ~HoldoutShown(s)
  BY DEF Spent
<1>4. QED
  BY <1>1, <1>2, <1>3, IInvCorrect, PTL DEF Spec

-----------------------------------------------------------------------------
(***************************************************************************)
(* The ledger implements the one-step gate: the third link of a Suite is   *)
(* the grant, an arm that starts is a show, everything else is invisible.  *)
(* The freshness that the listing saw still holds at the third link,       *)
(* because whoever showed the evidence since then owns a file of it.       *)
(***************************************************************************)
Granted == {s \in Suites : Owns(s)}

LEMMA StepGate ==
  ASSUME IInv, BucketsDisjoint, NEW s \in Suites, Step(s)
  PROVE  [Gate!Next]_<<Granted, seen>>
<1> USE DEF Granted
<1>0. TypeOK /\ LinkMatchesLabel /\ LinkedOnly
  BY DEF IInv
<1>1. CASE LinkReservation(s)
  <2>1. seen' = seen
    BY <1>1 DEF LinkReservation
  <2>2. \A t \in Suites : Owns(t) => \A k \in Slot : reserved'[PathOf(t, k)] = t
    <3>1. TAKE t \in Suites
    <3>2. HAVE Owns(t)
    <3>3. TAKE k \in Slot
    <3>4. PathOf(t, k) \in Path /\ t # NoSuite
      BY PathFacts, LedgerAssumption
    <3>5. QED
      BY <1>0, <3>2, <3>4, ReservationsPermanent DEF Owns
  <2>3. \A t \in Suites : t # s /\ (\A k \in Slot : reserved'[PathOf(t, k)] = t) => Owns(t)
    <3>1. TAKE t \in Suites
    <3>2. HAVE t # s /\ (\A k \in Slot : reserved'[PathOf(t, k)] = t)
    <3>3. ASSUME NEW k \in Slot
          PROVE  reserved[PathOf(t, k)] = t
      <4>1. PathOf(t, k) \in Path
        BY PathFacts
      <4>2. PathOf(t, k) # PathOf(s, link[s])
        BY <1>0, <1>1, <3>2, LinkEffect
      <4>3. QED
        BY <1>0, <1>1, <3>2, <4>1, <4>2, LinkEffect
    <3>4. QED
      BY <3>3 DEF Owns
  <2>4. Granted' = {t \in Suites : \A k \in Slot : reserved'[PathOf(t, k)] = t}
    BY DEF Owns, PathOf
  <2>5. CASE Owns(s) \/ ~(\A k \in Slot : reserved'[PathOf(s, k)] = s)
    <3>1. Granted' = Granted
      BY <2>2, <2>3, <2>4, <2>5
    <3>2. QED
      BY <2>1, <3>1
  <2>6. CASE ~Owns(s) /\ \A k \in Slot : reserved'[PathOf(s, k)] = s
    <3>1. Granted' = Granted \cup {s} /\ s \notin Granted
      BY <2>2, <2>3, <2>4, <2>6
    <3>2. ASSUME NEW t \in Suites, Owns(t)
          PROVE  ~Overlap(Holdout[s], Holdout[t])
      <4>1. SUFFICES ASSUME NEW k \in Slot, Holdout[s][k] = Holdout[t][k] PROVE FALSE
        BY DEF Overlap
      <4>2. PathOf(s, k) = PathOf(t, k)
        BY <4>1 DEF PathOf
      <4>3. s = t
        BY <2>2, <2>6, <3>2, <4>2
      <4>4. QED
        BY <2>6, <3>2, <4>3
    <3>3. ASSUME NEW f \in seen
          PROVE  ~Overlap(Holdout[s], f.task)
      <4>1. SUFFICES ASSUME Overlap(Holdout[s], f.task) PROVE FALSE
        OBVIOUS
      <4>2. /\ f.suite \in Suites
            /\ link[f.suite] = 4
            /\ Overlap(Holdout[s], Holdout[f.suite])
        BY <4>1, ShownOverlapIsOwned
      <4>3. Owns(f.suite)
        BY <4>2, FullCounterOwns
      <4>4. QED
        BY <3>2, <4>2, <4>3
    <3>4. Gate!Grant(s)
      BY <2>1, <3>1, <3>2, <3>3 DEF Gate!Grant, Gate!Overlap, Overlap, Slot
    <3>5. QED
      BY <3>4 DEF Gate!Next
  <2>7. QED
    BY <2>5, <2>6
<1>2. CASE \E e \in EpisodesOf(s) : StartEpisode(s, e)
  <2>1. PICK e \in EpisodesOf(s) : StartEpisode(s, e)
    BY <1>2
  <2>2. e \in Episode /\ e.suite = s
    BY DEF Episode, EpisodesOf
  <2>3. link[s] = 4
    BY <1>0, <2>1 DEF StartEpisode, LinkMatchesLabel, Measuring
  <2>4. Owns(s)
    BY <2>3, FullCounterOwns
  <2>5. Granted' = Granted
    BY <2>1 DEF StartEpisode, Owns, PathOf
  <2>6. seen' = seen \cup {e}
    BY <2>1 DEF StartEpisode
  <2>7. Gate!Show(e)
    BY <2>2, <2>4, <2>5, <2>6 DEF Gate!Show
  <2>8. QED
    BY <2>2, <2>7 DEF Gate!Next
<1>3. CASE ~LinkReservation(s) /\ ~\E e \in EpisodesOf(s) : StartEpisode(s, e)
  <2>1. UNCHANGED <<reserved, seen>>
    BY <1>3 DEF Step, Preflight, Confirm, CheckFreshness, Unexposed, RefuseReservation,
       FailSuite, WriteTemporary, LinkRecord, RemoveTemporary, FinishSuite, Crash
  <2>2. Granted' = Granted
    BY <2>1 DEF Owns, PathOf
  <2>3. QED
    BY <2>1, <2>2
<1>4. QED
  BY <1>1, <1>2, <1>3

THEOREM Refinement ==
  ASSUME BucketsDisjoint
  PROVE  Spec => GateSpec
<1>1. Init => Gate!Init
  <2> SUFFICES ASSUME Init PROVE Gate!Init
    OBVIOUS
  <2>1. ASSUME NEW s \in Suites
        PROVE  ~Owns(s)
    <3>1. 1 \in Slot
      BY DEF Slot
    <3>2. PathOf(s, 1) \in Path
      BY <3>1, PathFacts
    <3>3. reserved[PathOf(s, 1)] = NoSuite
      BY <3>2 DEF Init
    <3>4. QED
      BY <3>1, <3>3, LedgerAssumption DEF Owns
  <2>2. QED
    BY <2>1 DEF Init, Gate!Init
<1>2. IInv /\ [Next]_vars => [Gate!Next]_<<Granted, seen>>
  <2> SUFFICES ASSUME IInv, [Next]_vars PROVE [Gate!Next]_<<Granted, seen>>
    OBVIOUS
  <2>1. CASE Next
    BY <2>1, StepGate DEF Next
  <2>2. CASE UNCHANGED vars
    BY <2>2 DEF vars, Granted, Owns, PathOf
  <2>3. QED
    BY <2>1, <2>2
<1>3. QED
  BY <1>1, <1>2, IInvCorrect, PTL DEF Spec, GateSpec, Gate!Spec, Gate!gateVars, Granted

=============================================================================
