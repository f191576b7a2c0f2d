----------------------- MODULE OpportunityProofs ----------------------
(***************************************************************************)
(* What holds of cards and offers for any set of cards, any ladders and    *)
(* floors, any number of engine runs under way and any number of days.     *)
(* That a purchase closes a card once needs the strengthening              *)
(* AnchoredPastClosings: a live card was last written after every purchase *)
(* that has closed it, by whichever operation it came back to life.        *)
(***************************************************************************)
EXTENDS MCOpportunities, NatFacts, FiniteSetTheorems, SequenceTheorems, TLAPS

(* pick_rung returns a rung of the ladder the floor allows, or none.         *)
LEMMA PickRungType ==
    ASSUME NEW l \in SUBSET Nat, NEW b \in Basis
    PROVE  PickRung(l, b) \in Nat
<1> DEFINE S == {r \in l : Keeps(r, b)}
<1>1. CASE S = {}
  BY <1>1 DEF PickRung, NoRung
<1>2. CASE S # {}
  <2>1. PICK r \in S : \A q \in S : r <= q
    BY <1>2, LeastExists
  <2>2. \E r1 \in l : Keeps(r1, b) /\ \A q \in l : Keeps(q, b) => r1 <= q
    BY <2>1
  <2> QED
    BY <2>2 DEF PickRung
<1> QED
  BY <1>1, <1>2

(* upsert_offer keeps the row's type; it approves nothing that was not       *)
(* approved with the same rung and basis, and never proposes a rejected rung *)
(* again.                                                                    *)
LEMMA UpsertedFacts ==
    ASSUME NEW o \in [status : OfferStates, rung : Nat, basis : Basis],
           NEW rung \in Nat, NEW b \in Basis
    PROVE  /\ Upserted(o, rung, b) \in [status : OfferStates, rung : Nat, basis : Basis]
           /\ Upserted(o, rung, b).status = "approved" => Upserted(o, rung, b) = o
           /\ o.status = "rejected" /\ Upserted(o, rung, b).status \in {"suggested", "stale"}
                => Upserted(o, rung, b).rung # o.rung
  BY DEF Upserted, OfferStates, NoRung

(* The types of what _persist, _supersede_missing and _expire_overdue leave. *)
LEMMA EngineTypes ==
    ASSUME InboxTypeOK, NEW e \in Engines, NEW A \in SUBSET Cards, NEW O \in SUBSET Cards,
           NEW R \in SUBSET DOMAIN ReplacedBy, NEW D \in SUBSET Discounted,
           EngineCommit(e, A, O, R, D)
    PROVE  /\ offer' \in [Cards -> [status : OfferStates, rung : Nat, basis : Basis]]
           /\ \A c \in Cards : offer'[c] = offer[c]
                 \/ \E rung \in Nat, b \in Basis : offer'[c] = Upserted(offer[c], rung, b)
<1> DEFINE p == PickRung(engine[e].ladder, engine[e].basis)
           k == engine[e].basis
<1>1. k \in Basis /\ p \in Nat /\ NoRung \in Nat
  BY PickRungType DEF InboxTypeOK, NoRung
<1>2. offer' = [c \in Cards |-> IF c \notin A THEN offer[c]
                 ELSE Upserted(offer[c], IF c \in D THEN p ELSE NoRung, k)]
  BY DEF EngineCommit
<1> HIDE DEF p, k
<1>3. ASSUME NEW c \in Cards
      PROVE  /\ offer'[c] \in [status : OfferStates, rung : Nat, basis : Basis]
             /\ offer'[c] = offer[c]
                \/ \E rung \in Nat, b \in Basis : offer'[c] = Upserted(offer[c], rung, b)
  <2>1. offer[c] \in [status : OfferStates, rung : Nat, basis : Basis]
    BY DEF InboxTypeOK
  <2>2. CASE c \notin A
    BY <1>2, <2>1, <2>2
  <2>3. CASE c \in A
    <3> DEFINE rung == IF c \in D THEN p ELSE NoRung
    <3>1. rung \in Nat
      BY <1>1
    <3>2. offer'[c] = Upserted(offer[c], rung, k)
      BY <1>2, <2>3
    <3> HIDE DEF rung
    <3>3. Upserted(offer[c], rung, k) \in [status : OfferStates, rung : Nat, basis : Basis]
      BY <1>1, <2>1, <3>1, UpsertedFacts
    <3> QED
      BY <1>1, <3>1, <3>2, <3>3
  <2> QED
    BY <2>2, <2>3
<1> QED
  BY <1>2, <1>3

(* What a run writes are functions on the cards.                             *)
LEMMA EngineStatusDomain ==
    ASSUME NEW e, NEW A, NEW O, NEW R, NEW D, EngineCommit(e, A, O, R, D)
    PROVE  status' = [c \in Cards |-> status'[c]]
  BY DEF EngineCommit, Expired

LEMMA EngineAnchorDomain ==
    ASSUME NEW e, NEW A, NEW O, NEW R, NEW D, EngineCommit(e, A, O, R, D)
    PROVE  /\ anchor' = [c \in Cards |-> anchor'[c]]
           /\ known' = [c \in Cards |-> known'[c]]
           /\ reclosed' \subseteq Cards \cup reclosed
  BY DEF EngineCommit, Closing, AnchoredAt

(* What a run's purchase check asks of card c, seen before the transaction.  *)
Bought(e, c) == {d \in bought : anchor[c] < d /\ d <= engine[e].asOf}
Closes(e, A, O, c) ==
    /\ c \notin A /\ c \notin O
    /\ status[c] \in Live /\ c \in WithProduct /\ Bought(e, c) # {}
PutsAway(e, A, O, R, c) ==
    /\ c \notin A /\ c \notin O
    /\ status[c] \in Live
    /\ Closes(e, A, O, c) \/ status[c] = "open" \/ c \in R

(* The statuses a run leaves, card by card.                                  *)
LEMMA EngineStatus ==
    ASSUME InboxTypeOK, NEW e \in Engines, NEW A \in SUBSET Cards, NEW O \in SUBSET Cards,
           NEW R \in SUBSET DOMAIN ReplacedBy, NEW D \in SUBSET Discounted,
           EngineCommit(e, A, O, R, D), NEW c \in Cards
    PROVE  /\ c \in A => status'[c] = IF status[c] \in Human THEN status[c] ELSE "open"
           /\ PutsAway(e, A, O, R, c) => status'[c] = "superseded"
           /\ c \notin A /\ ~PutsAway(e, A, O, R, c) =>
                 \/ status'[c] = status[c]
                 \/ status'[c] = "expired" /\ status[c] \in Live /\ expires[c] < engine[e].asOf
           /\ status'[c] \in {status[c], "open", "superseded", "expired"}
<1> DEFINE asOf == engine[e].asOf
           opened == Persisted(status, A)
           anchored == AnchoredAt(anchor, A, asOf)
           fulfilled == {x \in Cards \ (A \cup O) : Fulfilled(opened, anchored, asOf, x)}
           closed == Superseded(opened, fulfilled)
           missing == {x \in Cards : Missing(closed, Seen(A, O), R, x)}
           lasting == [x \in Cards |-> IF x \in A THEN asOf + Ttl ELSE expires[x]]
           put == Superseded(closed, missing)
<1>1. status' = Expired(put, Overdue(put, lasting, asOf))
  BY DEF EngineCommit
<1>2. asOf \in Nat /\ Ttl \in Nat
  BY InboxAssumption DEF InboxTypeOK
<1>3. opened[c] = IF c \in A /\ status[c] \notin Human THEN "open" ELSE status[c]
  BY DEF Persisted
<1>4. c \in fulfilled <=> Closes(e, A, O, c)
  BY <1>3 DEF Fulfilled, Closes, Bought, AnchoredAt
<1>5. closed[c] = IF c \in fulfilled THEN "superseded" ELSE opened[c]
  BY DEF Superseded
<1>6. c \in missing <=> /\ c \notin A /\ c \notin O
                        /\ closed[c] \in Live
                        /\ closed[c] = "open" \/ c \in R
  BY DEF Missing, Seen
<1>7. put[c] = IF c \in missing THEN "superseded" ELSE closed[c]
  BY DEF Superseded
<1>8. status'[c] = IF put[c] \in Live /\ lasting[c] < asOf THEN "expired" ELSE put[c]
  BY <1>1 DEF Expired, Overdue
<1>9. lasting[c] = IF c \in A THEN asOf + Ttl ELSE expires[c]
  OBVIOUS
<1> HIDE DEF opened, anchored, fulfilled, closed, missing, lasting, put
<1>11. CASE c \in A
  <2>1. put[c] = IF status[c] \in Human THEN status[c] ELSE "open"
    BY <1>3, <1>4, <1>5, <1>6, <1>7, <1>11 DEF Closes
  <2>2. ~(lasting[c] < asOf)
    BY <1>2, <1>9, <1>11
  <2> QED
    BY <1>8, <1>11, <2>1, <2>2 DEF PutsAway
<1>12. CASE c \notin A /\ PutsAway(e, A, O, R, c)
  <2>1. put[c] = "superseded"
    BY <1>3, <1>4, <1>5, <1>6, <1>7, <1>12 DEF PutsAway, Live
  <2> QED
    BY <1>8, <1>12, <2>1 DEF Live
<1>13. CASE c \notin A /\ ~PutsAway(e, A, O, R, c)
  <2>1. put[c] = status[c]
    BY <1>3, <1>4, <1>5, <1>6, <1>7, <1>13 DEF PutsAway, Closes
  <2> QED
    BY <1>8, <1>9, <1>13, <2>1
<1> QED
  BY <1>11, <1>12, <1>13

(* The anchors and the history of closings a run leaves.                     *)
LEMMA EngineAnchor ==
    ASSUME InboxTypeOK, NEW e \in Engines, NEW A \in SUBSET Cards, NEW O \in SUBSET Cards,
           NEW R \in SUBSET DOMAIN ReplacedBy, NEW D \in SUBSET Discounted,
           EngineCommit(e, A, O, R, D), NEW c \in Cards
    PROVE  /\ anchor'[c] = IF c \in A \/ PutsAway(e, A, O, R, c) THEN engine[e].asOf ELSE anchor[c]
           /\ known'[c] = IF Closes(e, A, O, c) THEN known[c] \cup Bought(e, c) ELSE known[c]
           /\ c \in reclosed' <=> c \in reclosed \/ (Closes(e, A, O, c) /\ Bought(e, c) \subseteq known[c])
<1> DEFINE asOf == engine[e].asOf
           opened == Persisted(status, A)
           anchored == AnchoredAt(anchor, A, asOf)
           fulfilled == {x \in Cards \ (A \cup O) : Fulfilled(opened, anchored, asOf, x)}
           closed == Superseded(opened, fulfilled)
           missing == {x \in Cards : Missing(closed, Seen(A, O), R, x)}
           window == [x \in Cards |-> {d \in bought : anchored[x] < d /\ d <= asOf}]
<1>1. /\ anchor' = AnchoredAt(anchored, fulfilled \cup missing, asOf)
      /\ known' = [x \in Cards |-> IF x \in fulfilled THEN known[x] \cup window[x] ELSE known[x]]
      /\ reclosed' = reclosed \cup {x \in fulfilled : window[x] \subseteq known[x]}
  BY DEF EngineCommit, Closing
<1>2. opened[c] = IF c \in A /\ status[c] \notin Human THEN "open" ELSE status[c]
  BY DEF Persisted
<1>3. anchored[c] = IF c \in A THEN asOf ELSE anchor[c]
  BY DEF AnchoredAt
<1>4. c \in fulfilled <=> Closes(e, A, O, c)
  BY <1>2, <1>3 DEF Fulfilled, Closes, Bought
<1>5. closed[c] = IF c \in fulfilled THEN "superseded" ELSE opened[c]
  BY DEF Superseded
<1>6. c \in missing <=> /\ c \notin A /\ c \notin O
                        /\ closed[c] \in Live
                        /\ closed[c] = "open" \/ c \in R
  BY DEF Missing, Seen
<1>7. c \notin A => window[c] = Bought(e, c)
  BY <1>3 DEF Bought
<1>9. anchor'[c] = IF c \in fulfilled \cup missing THEN asOf ELSE anchored[c]
  BY <1>1 DEF AnchoredAt
<1> HIDE DEF opened, anchored, fulfilled, closed, missing, window
<1>11. c \in fulfilled \cup missing <=> PutsAway(e, A, O, R, c)
  BY <1>2, <1>4, <1>5, <1>6 DEF PutsAway, Live, Closes
<1>12. anchor'[c] = IF c \in A \/ PutsAway(e, A, O, R, c) THEN asOf ELSE anchor[c]
  BY <1>3, <1>9, <1>11
<1>13. /\ known'[c] = IF Closes(e, A, O, c) THEN known[c] \cup Bought(e, c) ELSE known[c]
       /\ c \in reclosed' <=> c \in reclosed \/ (Closes(e, A, O, c) /\ Bought(e, c) \subseteq known[c])
  BY <1>1, <1>4, <1>7 DEF Closes
<1> QED
  BY <1>12, <1>13

-----------------------------------------------------------------------------
(* The empty inbox.                                                          *)
LEMMA InitInboxInv == Init => InboxInv
<1> SUFFICES ASSUME Init PROVE InboxInv
  OBVIOUS
<1>1. InboxTypeOK
  BY InboxAssumption DEF Init, InboxTypeOK, Day, Idle, NoOffer, OfferStates, Never, NoRung,
                         Basis, NoBasis, NoSelection
<1>2. FilesOfThePast
  BY DEF Init, FilesOfThePast, Idle, Never
<1>3. AnchoredPastClosings /\ PurchaseClosesOnce
  BY DEF Init, AnchoredPastClosings, PurchaseClosesOnce
<1>4. GivenWasApproved /\ ApprovedAboveItsFloor
  BY DEF Init, GivenWasApproved, ApprovedAboveItsFloor, Sendable, NoOffer
<1>5. SelectedStands
  BY DEF Init, SelectedStands, NoSelection
<1> QED
  BY <1>1, <1>2, <1>3, <1>4, <1>5 DEF InboxInv

(* A run that only reads changes nothing but its own notes.                  *)
LEMMA EngineStartInv ==
    ASSUME InboxInv, NEW e \in Engines, NEW asOf \in Day, EngineStart(e, asOf)
    PROVE  InboxInv'
<1> USE DEF InboxInv
<1>1. asOf \in 0..MaxDay /\ asOf <= today
  BY InboxAssumption DEF EngineStart, Day, InboxTypeOK
<1>2. basis \in Basis /\ ladder \in SUBSET Nat
  BY InboxAssumption DEF InboxTypeOK, Basis
<1>3. engine' \in [Engines -> [asOf : 0..MaxDay, basis : Basis, ladder : SUBSET Nat]]
  BY <1>1, <1>2 DEF EngineStart, InboxTypeOK
<1>4. InboxTypeOK'
  BY <1>3 DEF EngineStart, InboxTypeOK, settingVars, cardVars, offerVars, closingVars, nightVars
<1>5. FilesOfThePast'
  BY <1>1 DEF EngineStart, FilesOfThePast, InboxTypeOK
<1>6. AnchoredPastClosings' /\ PurchaseClosesOnce'
  BY DEF EngineStart, AnchoredPastClosings, PurchaseClosesOnce, cardVars, closingVars
<1>7. GivenWasApproved' /\ ApprovedAboveItsFloor'
  BY DEF EngineStart, GivenWasApproved, ApprovedAboveItsFloor, Sendable, offerVars
<1>8. SelectedStands'
  BY DEF EngineStart, SelectedStands, cardVars, closingVars, nightVars
<1> QED
  BY <1>4, <1>5, <1>6, <1>7, <1>8

(* The transaction of a run.                                                 *)
LEMMA EngineCommitInv ==
    ASSUME InboxInv, NEW e \in Engines, NEW A \in SUBSET Cards, NEW O \in SUBSET Cards,
           NEW R \in SUBSET DOMAIN ReplacedBy, NEW D \in SUBSET Discounted,
           EngineCommit(e, A, O, R, D)
    PROVE  InboxInv'
<1> DEFINE asOf == engine[e].asOf
<1>0. InboxTypeOK
  BY DEF InboxInv
<1>1. asOf \in 0..MaxDay /\ asOf \in Nat /\ MaxDay \in Nat /\ Ttl \in Nat
  BY <1>0, InboxAssumption DEF InboxTypeOK
<1>8. ASSUME NEW c \in Cards
      PROVE  /\ anchor'[c] = IF c \in A \/ PutsAway(e, A, O, R, c) THEN asOf ELSE anchor[c]
             /\ known'[c] = IF Closes(e, A, O, c) THEN known[c] \cup Bought(e, c) ELSE known[c]
             /\ c \in reclosed' <=> c \in reclosed \/ (Closes(e, A, O, c) /\ Bought(e, c) \subseteq known[c])
  BY <1>0, EngineAnchor
<1>2. InboxTypeOK'
  <2>1. /\ today' = today /\ bought' = bought /\ basis' = basis /\ ladder' = ladder /\ decided' = decided
        /\ nightly' = nightly /\ overtaken' = overtaken
    BY DEF EngineCommit, settingVars, nightVars
  <2>2. engine' \in [Engines -> [asOf : 0..MaxDay, basis : Basis, ladder : SUBSET Nat]]
    BY <1>0, <1>1 DEF EngineCommit, InboxTypeOK, Idle, Never, Basis, NoBasis
  <2>3. status' \in [Cards -> {"none", "open", "expired", "superseded"} \cup Human]
    <3>1. \A c \in Cards : status'[c] \in {status[c], "open", "superseded", "expired"}
      BY <1>0, EngineStatus
    <3>2. status' = [x \in Cards |-> status'[x]]
      BY <1>0, EngineStatusDomain
    <3> QED
      BY <1>0, <3>1, <3>2 DEF InboxTypeOK
  <2>4. anchor' \in [Cards -> 0..MaxDay]
    <3>1. \A c \in Cards : anchor'[c] \in {asOf, anchor[c]}
      BY <1>0, EngineAnchor
    <3>2. anchor' = [x \in Cards |-> anchor'[x]]
      BY <1>0, EngineAnchorDomain
    <3> QED
      BY <1>0, <1>1, <3>1, <3>2 DEF InboxTypeOK
  <2>5. expires' \in [Cards -> Nat]
    <3>1. asOf + Ttl \in Nat
      BY <1>1
    <3> QED
      BY <1>0, <3>1 DEF EngineCommit, InboxTypeOK
  <2>6. lastAsOf' \in 0..MaxDay
    BY <1>1 DEF EngineCommit
  <2>8. offer' \in [Cards -> [status : OfferStates, rung : Nat, basis : Basis]]
    BY <1>0, EngineTypes
  <2>9. known' \in [Cards -> SUBSET Day]
    <3>1. ASSUME NEW c \in Cards PROVE known'[c] \in SUBSET Day
      <4>1. known[c] \in SUBSET Day /\ Bought(e, c) \in SUBSET Day
        BY <1>0 DEF InboxTypeOK, Bought
      <4>2. known'[c] \in {known[c], known[c] \cup Bought(e, c)}
        BY <1>8
      <4> QED
        BY <4>1, <4>2
    <3>2. known' = [x \in Cards |-> known'[x]]
      BY <1>0, EngineAnchorDomain
    <3> QED
      BY <3>1, <3>2
  <2>10. reclosed' \subseteq Cards /\ excused' \subseteq Cards
    <3>1. reclosed' \subseteq Cards \cup reclosed
      BY EngineAnchorDomain
    <3>2. reclosed \subseteq Cards /\ excused \subseteq Cards
      BY <1>0 DEF InboxTypeOK
    <3>3. excused' = excused \cup {c \in A : \E d \in known[c] : d > asOf}
      BY DEF EngineCommit
    <3> QED
      BY <3>1, <3>2, <3>3
  <2> QED
    BY <1>0, <2>1, <2>2, <2>3, <2>4, <2>5, <2>6, <2>8, <2>9, <2>10 DEF InboxTypeOK
<1>3. FilesOfThePast'
  BY <1>0 DEF EngineCommit, FilesOfThePast, InboxInv, InboxTypeOK, Idle, Never, Day
<1>4. excused' = excused \cup {c \in A : \E d \in known[c] : d > asOf}
  BY DEF EngineCommit
<1>5. AnchoredPastClosings'
  <2> SUFFICES ASSUME NEW c \in Cards, c \notin excused', status'[c] \in Live, NEW d \in known'[c]
               PROVE  d <= anchor'[c]
    BY DEF AnchoredPastClosings
  <2>1. c \notin excused
    BY <1>4
  <2>2. CASE c \in A
    <3>1. known'[c] = known[c] /\ anchor'[c] = asOf
      BY <1>8, <2>2 DEF Closes
    <3>2. d \in Nat
      BY <1>0, <3>1 DEF InboxTypeOK, Day
    <3>3. ~(d > asOf)
      BY <1>4, <2>2, <3>1
    <3> QED
      BY <1>1, <3>1, <3>2, <3>3
  <2>3. CASE c \notin A
    <3>1. ~PutsAway(e, A, O, R, c)
      BY <1>0, <2>3, EngineStatus DEF Live
    <3>2. ~Closes(e, A, O, c)
      BY <3>1 DEF PutsAway, Closes
    <3>3. anchor'[c] = anchor[c] /\ known'[c] = known[c]
      BY <1>8, <2>3, <3>1, <3>2
    <3>4. status'[c] = status[c]
      BY <1>0, <2>3, <3>1, EngineStatus DEF Live
    <3> QED
      BY <2>1, <3>3, <3>4 DEF InboxInv, AnchoredPastClosings
  <2> QED
    BY <2>2, <2>3
<1>6. PurchaseClosesOnce'
  <2> SUFFICES ASSUME NEW c, c \in reclosed', c \notin excused' PROVE FALSE
    BY DEF PurchaseClosesOnce
  <2>1. c \notin excused /\ c \notin reclosed
    BY <1>4 DEF InboxInv, PurchaseClosesOnce
  <2>2. c \in Cards
    BY <1>0, EngineAnchorDomain DEF InboxTypeOK
  <2>3. Closes(e, A, O, c) /\ Bought(e, c) \subseteq known[c]
    BY <1>8, <2>1, <2>2
  <2>4. PICK d \in Bought(e, c) : d \in known[c]
    BY <2>3 DEF Closes
  <2>5. d <= anchor[c]
    BY <2>1, <2>2, <2>3, <2>4 DEF InboxInv, AnchoredPastClosings, Closes
  <2>6. d \in Nat /\ anchor[c] \in Nat /\ anchor[c] < d
    BY <1>0, <2>2, <2>4 DEF Bought, InboxTypeOK, Day
  <2> QED
    BY <2>5, <2>6
<1>7. GivenWasApproved' /\ ApprovedAboveItsFloor'
  <2> SUFFICES ASSUME NEW c \in Cards, Sendable(c)'
               PROVE  offer'[c].rung = decided'[c] /\ Keeps(offer'[c].rung, offer'[c].basis)
    BY DEF GivenWasApproved, ApprovedAboveItsFloor
  <2>1. offer[c] \in [status : OfferStates, rung : Nat, basis : Basis]
    BY <1>0 DEF InboxTypeOK
  <2>2. offer'[c] = offer[c]
    <3>1. CASE offer'[c] = offer[c]
      BY <3>1
    <3>2. ASSUME NEW rung \in Nat, NEW b \in Basis, offer'[c] = Upserted(offer[c], rung, b)
          PROVE  offer'[c] = offer[c]
      BY <2>1, <3>2, UpsertedFacts DEF Sendable
    <3>3. offer'[c] = offer[c]
             \/ \E rung \in Nat, b \in Basis : offer'[c] = Upserted(offer[c], rung, b)
      BY <1>0, EngineTypes
    <3> QED
      BY <3>1, <3>2, <3>3
  <2>3. decided' = decided
    BY DEF EngineCommit
  <2> QED
    BY <2>2, <2>3 DEF InboxInv, GivenWasApproved, ApprovedAboveItsFloor, Sendable
<1>9. SelectedStands'
  BY DEF EngineCommit, Unlocked, NoSelection, SelectedStands, nightVars
<1> QED
  BY <1>2, <1>3, <1>5, <1>6, <1>7, <1>9 DEF InboxInv

(* The nightly job selects live cards, and nobody has decided on them yet.   *)
LEMMA SelectInv ==
    ASSUME InboxInv, SelectOverdue \/ SelectFulfilled
    PROVE  InboxInv'
<1> USE DEF InboxInv
<1>1. /\ UNCHANGED <<today, bought, settingVars, engine, cardVars, offerVars, closingVars>>
      /\ overtaken' = {}
  BY DEF SelectOverdue, SelectFulfilled, Select
<1>2. \/ nightly' = [by |-> "expiry", cards |-> Overdue(status, expires, today)]
      \/ nightly' = [by |-> "purchase", cards |-> {c \in Cards : Fulfilled(status, anchor, today, c)}]
  BY DEF SelectOverdue, SelectFulfilled, Select
<1>3. InboxTypeOK'
  <2>1. nightly' \in [by : {"nobody", "expiry", "purchase"}, cards : SUBSET Cards]
    BY <1>2 DEF Overdue
  <2> QED
    BY <1>1, <2>1 DEF InboxTypeOK, settingVars, cardVars, offerVars, closingVars
<1>4. FilesOfThePast' /\ AnchoredPastClosings' /\ PurchaseClosesOnce'
  BY <1>1 DEF FilesOfThePast, AnchoredPastClosings, PurchaseClosesOnce, cardVars, closingVars
<1>5. GivenWasApproved' /\ ApprovedAboveItsFloor'
  BY <1>1 DEF GivenWasApproved, ApprovedAboveItsFloor, Sendable, offerVars
<1>6. SelectedStands'
  <2>1. CASE nightly' = [by |-> "expiry", cards |-> Overdue(status, expires, today)]
    BY <1>1, <2>1 DEF SelectedStands, Overdue, Live, cardVars
  <2>2. CASE nightly' = [by |-> "purchase", cards |-> {c \in Cards : Fulfilled(status, anchor, today, c)}]
    BY <1>1, <2>2 DEF SelectedStands, Fulfilled, Live, AnchoredPastClosings, cardVars, closingVars
  <2> QED
    BY <1>2, <2>1, <2>2
<1> QED
  BY <1>3, <1>4, <1>5, <1>6

(* Expiry takes cards off the table and touches nothing else.                *)
LEMMA ExpireOverdueInv ==
    ASSUME InboxInv, ExpireOverdue
    PROVE  InboxInv'
<1> USE DEF InboxInv
<1>1. status' \in [Cards -> {"none", "open", "expired", "superseded"} \cup Human]
  BY DEF ExpireOverdue, Expired, InboxTypeOK
<1>2. \A c \in Cards : status'[c] \in Live => status'[c] = status[c]
  BY DEF ExpireOverdue, Expired, Live
<1>3. InboxTypeOK'
  BY <1>1 DEF ExpireOverdue, Release, NoSelection, InboxTypeOK, settingVars, offerVars, closingVars
<1>4. FilesOfThePast'
  BY DEF ExpireOverdue, FilesOfThePast
<1>5. AnchoredPastClosings' /\ PurchaseClosesOnce'
  BY <1>2 DEF ExpireOverdue, AnchoredPastClosings, PurchaseClosesOnce, closingVars
<1>6. GivenWasApproved' /\ ApprovedAboveItsFloor'
  BY DEF ExpireOverdue, GivenWasApproved, ApprovedAboveItsFloor, Sendable, offerVars
<1>7. SelectedStands'
  BY DEF ExpireOverdue, Release, NoSelection, SelectedStands
<1> QED
  BY <1>3, <1>4, <1>5, <1>6, <1>7

(* The nightly closing: a card closes for a purchase it had not seen.        *)
LEMMA CloseFulfilledInv ==
    ASSUME InboxInv, CloseFulfilled
    PROVE  InboxInv'
<1> USE DEF InboxInv
<1> DEFINE S == nightly.cards
           window == [c \in Cards |-> {d \in bought : anchor[c] < d /\ d <= today}]
<1>1. /\ status' = [c \in Cards |-> IF c \in S THEN "superseded" ELSE status[c]]
      /\ anchor' = [c \in Cards |-> IF c \in S THEN lastAsOf ELSE anchor[c]]
      /\ known' = [c \in Cards |-> IF c \in S THEN known[c] \cup window[c] ELSE known[c]]
      /\ reclosed' = reclosed \cup {c \in S : window[c] \subseteq known[c]}
      /\ excused' = excused
  BY DEF CloseFulfilled, Closing, Superseded, AnchoredAt
<1>2. /\ S \subseteq Cards
      /\ \A c \in Cards : window[c] \in SUBSET Day
      /\ \A c \in S : window[c] # {}
      /\ \A c \in S \ excused : \A d \in known[c] : d <= anchor[c]
      /\ \A c \in S : \A d \in window[c] : anchor[c] < d
  BY DEF CloseFulfilled, SelectedStands, InboxTypeOK
<1>3. UNCHANGED <<today, bought, settingVars, engine, expires, lastAsOf, offerVars>>
  BY DEF CloseFulfilled
<1>0. nightly' = NoSelection /\ overtaken' = {}
  BY DEF CloseFulfilled, Release
<1> HIDE DEF S, window
<1>4. InboxTypeOK'
  <2>1. status' \in [Cards -> {"none", "open", "expired", "superseded"} \cup Human]
    BY <1>1 DEF InboxTypeOK
  <2>2. anchor' \in [Cards -> 0..MaxDay]
    BY <1>1 DEF InboxTypeOK
  <2>3. known' \in [Cards -> SUBSET Day]
    BY <1>1, <1>2 DEF InboxTypeOK
  <2>4. reclosed' \subseteq Cards /\ excused' \subseteq Cards
    BY <1>1, <1>2 DEF InboxTypeOK
  <2> QED
    BY <1>0, <1>3, <2>1, <2>2, <2>3, <2>4 DEF InboxTypeOK, settingVars, offerVars, NoSelection
<1>5. FilesOfThePast'
  BY <1>3 DEF FilesOfThePast
<1>6. AnchoredPastClosings'
  BY <1>1 DEF AnchoredPastClosings, Live
<1>7. PurchaseClosesOnce'
  <2> SUFFICES ASSUME NEW c \in S, window[c] \subseteq known[c], c \notin excused
               PROVE  FALSE
    BY <1>1 DEF PurchaseClosesOnce
  <2>1. PICK d \in window[c] : d \in known[c]
    BY <1>2
  <2>2. d <= anchor[c] /\ anchor[c] < d
    BY <1>2, <2>1
  <2>3. d \in Nat /\ anchor[c] \in Nat
    BY <1>2, <2>1 DEF InboxTypeOK, Day
  <2> QED
    BY <2>2, <2>3
<1>8. GivenWasApproved' /\ ApprovedAboveItsFloor'
  BY <1>3 DEF GivenWasApproved, ApprovedAboveItsFloor, Sendable, offerVars
<1>9. SelectedStands'
  BY <1>0 DEF SelectedStands, NoSelection
<1> QED
  BY <1>4, <1>5, <1>6, <1>7, <1>8, <1>9

(* A card that comes back by hand is excused.                                *)
LEMMA ActInv ==
    ASSUME InboxInv, NEW c \in Cards, NEW to \in Human \cup {"open"}, Act(c, to)
    PROVE  InboxInv'
<1> USE DEF InboxInv
<1>1. excused \subseteq excused' /\ excused' \subseteq Cards
  BY DEF Act, InboxTypeOK
<1>2. InboxTypeOK'
  <2>1. status' \in [Cards -> {"none", "open", "expired", "superseded"} \cup Human]
    BY DEF Act, InboxTypeOK
  <2>2. overtaken' \subseteq Cards
    BY DEF Act, InboxTypeOK
  <2> QED
    BY <1>1, <2>1, <2>2 DEF Act, InboxTypeOK, settingVars, offerVars
<1>3. \A x \in Cards \ excused' : status'[x] \in Live => status[x] \in Live
  BY DEF Act, InboxTypeOK
<1>4. AnchoredPastClosings' /\ PurchaseClosesOnce'
  BY <1>1, <1>3 DEF Act, AnchoredPastClosings, PurchaseClosesOnce
<1>5. FilesOfThePast' /\ GivenWasApproved' /\ ApprovedAboveItsFloor'
  BY DEF Act, FilesOfThePast, GivenWasApproved, ApprovedAboveItsFloor, Sendable, offerVars
<1>6. SelectedStands'
  <2>1. CASE Unlocked
    BY <2>1 DEF Act, SelectedStands, Unlocked, NoSelection
  <2>2. CASE ~Unlocked
    <3>1. overtaken' = overtaken \cup {c} /\ \A x \in Cards \ {c} : status'[x] = status[x]
      BY <2>2 DEF Act, InboxTypeOK
    <3>2. nightly.cards \subseteq Cards
      BY DEF InboxTypeOK
    <3>3. \A x \in nightly.cards : status'[x] \in {"dismissed", "done"} => x \in overtaken'
      BY <3>1, <3>2 DEF SelectedStands
    <3>4. UNCHANGED <<today, bought, anchor, expires, known, nightly>> /\ excused \subseteq excused'
      BY <1>1 DEF Act
    <3> QED
      BY <3>3, <3>4 DEF SelectedStands
  <2> QED
    BY <2>1, <2>2
<1> QED
  BY <1>2, <1>4, <1>5, <1>6

(* An approval is checked against the floor of its day.                      *)
LEMMA ApproveOfferInv ==
    ASSUME InboxInv, NEW c \in Cards, ApproveOffer(c)
    PROVE  InboxInv'
<1> USE DEF InboxInv
<1>1. basis \in Basis /\ offer[c].rung \in Nat /\ Keeps(offer[c].rung, basis)
  BY InboxAssumption DEF ApproveOffer, Approvable, InboxTypeOK, Basis
<1>2. /\ offer' \in [Cards -> [status : OfferStates, rung : Nat, basis : Basis]]
      /\ decided' \in [Cards -> Nat]
  <2>1. /\ offer' = [offer EXCEPT ![c].status = "approved", ![c].basis = basis]
        /\ decided' = [decided EXCEPT ![c] = offer[c].rung]
    BY DEF ApproveOffer
  <2>2. /\ offer \in [Cards -> [status : OfferStates, rung : Nat, basis : Basis]]
        /\ decided \in [Cards -> Nat]
    BY DEF InboxTypeOK
  <2>3. "approved" \in OfferStates
    BY DEF OfferStates
  <2>4. offer' \in [Cards -> [status : OfferStates, rung : Nat, basis : Basis]]
    BY <1>1, <2>1, <2>2, <2>3
  <2>5. decided' \in [Cards -> Nat]
    BY <1>1, <2>1, <2>2
  <2> QED
    BY <2>4, <2>5
<1>3. InboxTypeOK'
  BY <1>2 DEF ApproveOffer, InboxTypeOK, settingVars, cardVars, closingVars, nightVars
<1>4. FilesOfThePast' /\ AnchoredPastClosings' /\ PurchaseClosesOnce' /\ SelectedStands'
  BY DEF ApproveOffer, FilesOfThePast, AnchoredPastClosings, PurchaseClosesOnce, SelectedStands,
         cardVars, closingVars, nightVars
<1>5. ASSUME NEW x \in Cards, offer'[x].status = "approved"
      PROVE  offer'[x].rung = decided'[x] /\ Keeps(offer'[x].rung, offer'[x].basis)
  <2>1. CASE x = c
    BY <1>1, <2>1 DEF ApproveOffer, InboxTypeOK
  <2>2. CASE x # c
    <3>1. offer'[x] = offer[x] /\ decided'[x] = decided[x]
      BY <2>2 DEF ApproveOffer, InboxTypeOK
    <3> QED
      BY <1>5, <3>1 DEF GivenWasApproved, ApprovedAboveItsFloor, Sendable
  <2> QED
    BY <2>1, <2>2
<1>6. GivenWasApproved' /\ ApprovedAboveItsFloor'
  BY <1>5 DEF GivenWasApproved, ApprovedAboveItsFloor, Sendable
<1> QED
  BY <1>3, <1>4, <1>6

(* A refusal or a rejection leaves nothing sendable on the card.             *)
LEMMA RefusalInv ==
    ASSUME InboxInv, NEW c \in Cards, RefuseApproval(c) \/ RejectOffer(c)
    PROVE  InboxInv'
<1> USE DEF InboxInv
<1>1. PICK s \in {"rejected", "stale"} : offer' = [offer EXCEPT ![c].status = s]
  BY DEF RefuseApproval, RejectOffer
<1>2. \A x \in Cards \ {c} : decided'[x] = decided[x]
  BY DEF RefuseApproval, RejectOffer, InboxTypeOK
<1>3. offer' \in [Cards -> [status : OfferStates, rung : Nat, basis : Basis]]
  BY <1>1 DEF InboxTypeOK, OfferStates
<1>4. decided' \in [Cards -> Nat]
  BY DEF RefuseApproval, RejectOffer, InboxTypeOK, NoRung
<1>5. UNCHANGED <<today, bought, settingVars, engine, cardVars, closingVars, nightVars>>
  BY DEF RefuseApproval, RejectOffer
<1>6. InboxTypeOK'
  BY <1>3, <1>4, <1>5 DEF InboxTypeOK, settingVars, cardVars, closingVars, nightVars
<1>7. FilesOfThePast' /\ AnchoredPastClosings' /\ PurchaseClosesOnce' /\ SelectedStands'
  BY <1>5 DEF FilesOfThePast, AnchoredPastClosings, PurchaseClosesOnce, SelectedStands,
              cardVars, closingVars, nightVars
<1>8. \A x \in Cards : offer'[x].status = "approved" => x # c /\ offer'[x] = offer[x]
  BY <1>1 DEF InboxTypeOK
<1>9. GivenWasApproved' /\ ApprovedAboveItsFloor'
  BY <1>2, <1>8 DEF GivenWasApproved, ApprovedAboveItsFloor, Sendable
<1> QED
  BY <1>6, <1>7, <1>9

(* Policy, purchases and time leave cards and offers alone.                  *)
LEMMA SurroundingsInv ==
    ASSUME InboxInv,
           \/ \E l \in Ladders, b \in Bases : SetPolicy(l, b)
           \/ \E d \in Day : Purchase(d)
           \/ NextDay
    PROVE  InboxInv'
<1> USE DEF InboxInv
<1>1. UNCHANGED <<engine, cardVars, offerVars, closingVars, nightVars>>
  BY DEF SetPolicy, Purchase, NextDay
<1>2. basis' \in Bases /\ ladder' \in Ladders
  BY DEF SetPolicy, Purchase, NextDay, InboxTypeOK, settingVars
<1>3. bought' \subseteq Day
  BY DEF SetPolicy, Purchase, NextDay, InboxTypeOK, settingVars
<1>4. today' \in Day /\ today <= today'
  BY InboxAssumption DEF SetPolicy, Purchase, NextDay, InboxTypeOK, settingVars, Day
<1>5. InboxTypeOK'
  BY <1>1, <1>2, <1>3, <1>4 DEF InboxTypeOK, cardVars, offerVars, closingVars, nightVars
<1>6. FilesOfThePast'
  <2> SUFFICES ASSUME NEW e \in Engines PROVE engine[e].asOf <= today'
    BY <1>1 DEF FilesOfThePast
  <2>1. engine[e].asOf \in Nat /\ today \in Nat /\ today' \in Nat /\ engine[e].asOf <= today
    BY <1>4 DEF InboxTypeOK, FilesOfThePast, Day
  <2> QED
    BY <1>4, <2>1
<1>7. AnchoredPastClosings' /\ PurchaseClosesOnce' /\ GivenWasApproved' /\ ApprovedAboveItsFloor'
  BY <1>1 DEF AnchoredPastClosings, PurchaseClosesOnce, GivenWasApproved, ApprovedAboveItsFloor,
              Sendable, cardVars, offerVars, closingVars
<1>8. SelectedStands'
  <2>1. bought \subseteq bought'
    BY DEF SetPolicy, Purchase, NextDay
  <2>2. today \in Nat /\ today' \in Nat /\ bought \subseteq Nat /\ expires \in [Cards -> Nat]
    BY <1>4 DEF InboxTypeOK, Day
  <2>3. nightly.cards \subseteq Cards
    BY DEF InboxTypeOK
  <2>4. \A c \in nightly.cards : expires[c] < today => expires[c] < today'
    BY <1>4, <2>2, <2>3
  <2>5. \A d \in bought : d <= today => d \in bought' /\ d <= today'
    BY <1>4, <2>1, <2>2
  <2> QED
    BY <1>1, <2>4, <2>5 DEF SelectedStands, cardVars, closingVars, nightVars
<1> QED
  BY <1>5, <1>6, <1>7, <1>8

(* Every operation preserves the invariant.                                  *)
LEMMA InboxInvStep == InboxInv /\ [Next]_vars => InboxInv'
<1> SUFFICES ASSUME InboxInv, [Next]_vars PROVE InboxInv'
  OBVIOUS
<1>1. CASE UNCHANGED vars
  BY <1>1 DEF vars, settingVars, cardVars, offerVars, closingVars, nightVars, InboxInv, InboxTypeOK,
              FilesOfThePast, AnchoredPastClosings, PurchaseClosesOnce, GivenWasApproved,
              ApprovedAboveItsFloor, Sendable, SelectedStands
<1>2. ASSUME NEW e \in Engines, EngineStep(e) PROVE InboxInv'
  BY <1>2, EngineStartInv, EngineCommitInv DEF EngineStep
<1>3. ASSUME NEW c \in Cards,
             \/ \E to \in Human \cup {"open"} : Act(c, to)
             \/ ApproveOffer(c) \/ RefuseApproval(c) \/ RejectOffer(c)
      PROVE  InboxInv'
  BY <1>3, ActInv, ApproveOfferInv, RefusalInv
<1> QED
  BY <1>1, <1>2, <1>3, SelectInv, ExpireOverdueInv, CloseFulfilledInv, SurroundingsInv DEF Next

(* The inductive invariant holds of every reachable inbox.                   *)
THEOREM InboxInvariant == Spec => []InboxInv
  BY InitInboxInv, InboxInvStep, PTL DEF Spec

(* The columns of cards and offers keep their vocabularies.                  *)
THEOREM TypeCorrect == Spec => []InboxTypeOK
<1>1. InboxInv => InboxTypeOK
  BY DEF InboxInv
<1> QED
  BY <1>1, InboxInvariant, PTL

(* Neither a run nor the nightly job closes a card twice for one purchase    *)
(* (_close_fulfilled), unless the card came back by hand or by an old file.  *)
THEOREM ClosedOncePerPurchase == Spec => []PurchaseClosesOnce
<1>1. InboxInv => PurchaseClosesOnce
  BY DEF InboxInv
<1> QED
  BY <1>1, InboxInvariant, PTL

(* A sendable discount is the rung a person approved last (upsert_offer      *)
(* against decide_offer).                                                    *)
THEOREM OnlyApprovedIsSent == Spec => []GivenWasApproved
<1>1. InboxInv => GivenWasApproved
  BY DEF InboxInv
<1> QED
  BY <1>1, InboxInvariant, PTL

(* A sendable discount kept the margin above the floor it was checked with.  *)
THEOREM SentAboveItsFloor == Spec => []ApprovedAboveItsFloor
<1>1. InboxInv => ApprovedAboveItsFloor
  BY DEF InboxInv
<1> QED
  BY <1>1, InboxInvariant, PTL

-----------------------------------------------------------------------------
(* What a step may never do.                                                 *)

(* Who changes a status: a run, one of the nightly transactions, or a hand.  *)
LEMMA StatusChanges ==
    ASSUME InboxInv, [Next]_vars, NEW c \in Cards, status'[c] # status[c], ~ByHand(c)
    PROVE  \/ \E e \in Engines, A, O \in SUBSET Cards, R \in SUBSET DOMAIN ReplacedBy,
                 D \in SUBSET Discounted : EngineCommit(e, A, O, R, D)
           \/ ExpireOverdue
           \/ CloseFulfilled
<1>1. ASSUME UNCHANGED status PROVE FALSE
  BY <1>1
<1>2. ASSUME NEW x \in Cards, NEW to \in Human \cup {"open"}, Act(x, to) PROVE FALSE
  <2>1. x # c
    BY <1>2 DEF ByHand
  <2> QED
    BY <1>2, <2>1 DEF Act, InboxInv, InboxTypeOK
<1>3. ASSUME \/ \E e \in Engines, asOf \in Day : EngineStart(e, asOf)
             \/ SelectOverdue \/ SelectFulfilled
      PROVE  UNCHANGED status
  BY <1>3 DEF EngineStart, SelectOverdue, SelectFulfilled, Select, cardVars
<1>4. ASSUME NEW x \in Cards, ApproveOffer(x) \/ RefuseApproval(x) \/ RejectOffer(x)
      PROVE  UNCHANGED status
  BY <1>4 DEF ApproveOffer, RefuseApproval, RejectOffer, cardVars
<1>5. ASSUME \/ \E l \in Ladders, b \in Bases : SetPolicy(l, b)
             \/ \E d \in Day : Purchase(d)
             \/ NextDay
      PROVE  UNCHANGED status
  BY <1>5 DEF SetPolicy, Purchase, NextDay, cardVars
<1>6. UNCHANGED vars => UNCHANGED status
  BY DEF vars, cardVars
<1> QED
  BY <1>1, <1>2, <1>3, <1>4, <1>5, <1>6 DEF Next, EngineStep

(* What a person dismissed or did stays so until a hand changes it, or the    *)
(* nightly job that had selected the card before.                            *)
THEOREM DecisionsStand == Spec => DecisionStands
<1>1. ASSUME InboxInv, [Next]_vars, NEW c \in Cards,
             status[c] \in {"dismissed", "done"}, status'[c] # status[c], ~ByHand(c)
      PROVE  WritesTonight /\ c \in overtaken
  <2>1. status[c] \notin Live /\ status[c] \in Human /\ InboxTypeOK
    BY <1>1 DEF Live, Human, InboxInv
  <2>2. ASSUME NEW e \in Engines, NEW A \in SUBSET Cards, NEW O \in SUBSET Cards,
               NEW R \in SUBSET DOMAIN ReplacedBy, NEW D \in SUBSET Discounted,
               EngineCommit(e, A, O, R, D)
        PROVE  FALSE
    <3>1. ~PutsAway(e, A, O, R, c)
      BY <2>1 DEF PutsAway
    <3> QED
      BY <1>1, <2>1, <2>2, <3>1, EngineStatus
  <2>3. ASSUME ExpireOverdue \/ CloseFulfilled
        PROVE  WritesTonight /\ c \in overtaken
    <3>1. c \in nightly.cards
      BY <1>1, <2>3 DEF ExpireOverdue, Expired, CloseFulfilled, Superseded
    <3>2. c \in overtaken
      BY <1>1, <3>1 DEF InboxInv, SelectedStands
    <3>3. WritesTonight
      BY <2>3 DEF ExpireOverdue, CloseFulfilled, Release, WritesTonight, Unlocked, NoSelection
    <3> QED
      BY <3>2, <3>3
  <2> QED
    BY <1>1, <2>2, <2>3, StatusChanges
<1>2. InboxInv /\ [Next]_vars
        => [\A c \in Cards : status[c] \in {"dismissed", "done"} /\ status'[c] # status[c]
                => ByHand(c) \/ (WritesTonight /\ c \in overtaken)]_vars
  BY <1>1
<1> QED
  BY <1>2, InboxInvariant, PTL DEF Spec, DecisionStands

(* No step but a person's proposes a rejected rung again.                    *)
THEOREM RejectionsStand == Spec => RejectionStands
<1>1. ASSUME InboxInv, [Next]_vars, NEW c \in Cards, offer[c].status = "rejected",
             offer'[c].status \in {"suggested", "stale"}
      PROVE  offer'[c].rung # offer[c].rung
  <2>1. offer[c] \in [status : OfferStates, rung : Nat, basis : Basis] /\ InboxTypeOK
    BY <1>1 DEF InboxInv, InboxTypeOK
  <2>2. offer'[c] # offer[c]
    BY <1>1
  <2>3. ASSUME NEW e \in Engines, NEW A \in SUBSET Cards, NEW O \in SUBSET Cards,
               NEW R \in SUBSET DOMAIN ReplacedBy, NEW D \in SUBSET Discounted,
               EngineCommit(e, A, O, R, D)
        PROVE  offer'[c].rung # offer[c].rung
    <3>1. PICK rung \in Nat, b \in Basis : offer'[c] = Upserted(offer[c], rung, b)
      BY <2>1, <2>2, <2>3, EngineTypes
    <3>2. offer[c].status = "rejected" /\ Upserted(offer[c], rung, b).status \in {"suggested", "stale"}
             => Upserted(offer[c], rung, b).rung # offer[c].rung
      BY <2>1, UpsertedFacts
    <3> QED
      BY <1>1, <3>1, <3>2
  <2>4. ASSUME NEW x \in Cards, ApproveOffer(x) \/ RefuseApproval(x) \/ RejectOffer(x)
        PROVE  FALSE
    BY <1>1, <2>1, <2>2, <2>4 DEF ApproveOffer, RefuseApproval, RejectOffer, InboxTypeOK
  <2>5. ASSUME \/ \E e \in Engines, asOf \in Day : EngineStart(e, asOf)
               \/ SelectOverdue \/ SelectFulfilled \/ ExpireOverdue \/ CloseFulfilled
               \/ \E x \in Cards, to \in Human \cup {"open"} : Act(x, to)
               \/ \E l \in Ladders, b \in Bases : SetPolicy(l, b)
               \/ \E d \in Day : Purchase(d)
               \/ NextDay
               \/ UNCHANGED vars
        PROVE  FALSE
    <3>1. UNCHANGED offer
      BY <2>5 DEF EngineStart, SelectOverdue, SelectFulfilled, Select, ExpireOverdue, CloseFulfilled,
                  Act, SetPolicy, Purchase, NextDay, vars, offerVars
    <3> QED
      BY <2>2, <3>1
  <2> QED
    BY <1>1, <2>3, <2>4, <2>5 DEF Next, EngineStep
<1>2. InboxInv /\ [Next]_vars
        => [\A c \in Cards : offer[c].status = "rejected"
                /\ offer'[c].status \in {"suggested", "stale"}
                => offer'[c].rung # offer[c].rung]_vars
  BY <1>1
<1> QED
  BY <1>2, InboxInvariant, PTL DEF Spec, RejectionStands

(* The ceiling of the inbox puts no card away (still_valid).                 *)
THEOREM CeilingPutsNothingAway == Spec => ValidCardsStay
<1>1. ASSUME InboxInv, NEW c \in Cards, status'[c] = "superseded", status[c] # "superseded"
      PROVE  ~FindsValid(c)
  <2>1. SUFFICES ASSUME NEW e \in Engines, NEW A \in SUBSET Cards, NEW O \in SUBSET Cards,
                        NEW R \in SUBSET DOMAIN ReplacedBy, NEW D \in SUBSET Discounted,
                        c \in A \cup O, EngineCommit(e, A, O, R, D)
                 PROVE  FALSE
    BY DEF FindsValid
  <2>2. ~PutsAway(e, A, O, R, c)
    BY <2>1 DEF PutsAway
  <2> QED
    BY <1>1, <2>1, <2>2, EngineStatus DEF InboxInv, Human
<1>2. InboxInv /\ [Next]_vars
        => [\A c \in Cards : status'[c] = "superseded" /\ status[c] # "superseded"
                => ~FindsValid(c)]_vars
  BY <1>1
<1> QED
  BY <1>2, InboxInvariant, PTL DEF Spec, ValidCardsStay

(* Work a person has accepted is put away for a purchase or a replacement    *)
(* only, and expires past its date only.                                     *)
THEOREM AcceptedWorkStands == Spec => AcceptedWorkKept
<1> DEFINE Kept(c) ==
           /\ status'[c] \in {status[c], "superseded", "expired"}
           /\ status'[c] = "superseded" =>
                 \/ c \in WithProduct /\ \E d \in bought : d > anchor[c]
                 \/ Replaces(c)
           /\ status'[c] = "expired" => expires[c] < today
<1>1. ASSUME InboxInv, [Next]_vars, NEW c \in Cards, status[c] \in {"accepted", "snoozed"}, ~ByHand(c)
      PROVE  Kept(c)
  <2>1. CASE status'[c] = status[c]
    BY <1>1, <2>1
  <2>2. CASE status'[c] # status[c]
    <3>1. InboxTypeOK /\ FilesOfThePast /\ status[c] \in Human /\ status[c] # "open"
      BY <1>1 DEF InboxInv, Human
    <3>2. anchor[c] \in Nat /\ expires[c] \in Nat /\ today \in Nat /\ bought \subseteq Nat
      BY <3>1 DEF InboxTypeOK, Day
    <3>3. ASSUME NEW e \in Engines, NEW A \in SUBSET Cards, NEW O \in SUBSET Cards,
                 NEW R \in SUBSET DOMAIN ReplacedBy, NEW D \in SUBSET Discounted,
                 EngineCommit(e, A, O, R, D)
          PROVE  Kept(c)
      <4>1. c \notin A
        BY <2>2, <3>1, <3>3, EngineStatus
      <4>2. CASE PutsAway(e, A, O, R, c)
        <5>1. status'[c] = "superseded" /\ (Closes(e, A, O, c) \/ c \in R)
          <6>1. status'[c] = "superseded"
            BY <3>1, <3>3, <4>2, EngineStatus
          <6> QED
            BY <3>1, <4>2, <6>1 DEF PutsAway
        <5>3. ASSUME EndsRun(c, FALSE) PROVE \E f \in Engines, B, P \in SUBSET Cards : Closes(f, B, P, c)
          <6>1. PICK f \in Engines, B \in SUBSET Cards, P \in SUBSET Cards,
                     Q \in SUBSET DOMAIN ReplacedBy, E \in SUBSET Discounted :
                         (c \in Q) = FALSE /\ EngineCommit(f, B, P, Q, E)
            BY <5>3 DEF EndsRun
          <6>2. c \notin B
            BY <2>2, <3>1, <6>1, EngineStatus
          <6>3. PutsAway(f, B, P, Q, c)
            BY <2>2, <3>1, <5>1, <6>1, <6>2, EngineStatus
          <6> QED
            BY <3>1, <6>1, <6>3 DEF PutsAway
        <5>4. ASSUME NEW f \in Engines, NEW B \in SUBSET Cards, NEW P \in SUBSET Cards, Closes(f, B, P, c)
              PROVE  c \in WithProduct /\ \E d \in bought : d > anchor[c]
          <6>1. PICK d \in bought : anchor[c] < d
            BY <5>4 DEF Closes, Bought
          <6> QED
            BY <3>2, <5>4, <6>1 DEF Closes
        <5>5. CASE EndsRun(c, FALSE)
          BY <5>1, <5>3, <5>4, <5>5
        <5>6. CASE ~EndsRun(c, FALSE)
          BY <3>3, <5>1, <5>6 DEF EndsRun, Replaces
        <5> QED
          BY <5>5, <5>6
      <4>3. CASE ~PutsAway(e, A, O, R, c)
        <5>1. status'[c] = "expired" /\ expires[c] < engine[e].asOf
          BY <2>2, <3>1, <3>3, <4>1, <4>3, EngineStatus
        <5>2. engine[e].asOf \in Nat /\ engine[e].asOf <= today
          BY <3>1 DEF FilesOfThePast, InboxTypeOK
        <5> QED
          BY <3>2, <5>1, <5>2
      <4> QED
        BY <4>2, <4>3
    <3>4. ASSUME ExpireOverdue PROVE Kept(c)
      <4>1. status'[c] = "expired" /\ c \in nightly.cards
        BY <2>2, <3>4 DEF ExpireOverdue, Expired
      <4> QED
        BY <1>1, <3>4, <4>1 DEF ExpireOverdue, InboxInv, SelectedStands
    <3>5. ASSUME CloseFulfilled PROVE Kept(c)
      <4>1. status'[c] = "superseded" /\ c \in nightly.cards
        BY <2>2, <3>5 DEF CloseFulfilled, Superseded
      <4>2. c \in WithProduct /\ \E d \in bought : anchor[c] < d
        BY <1>1, <3>5, <4>1 DEF CloseFulfilled, InboxInv, SelectedStands
      <4> QED
        BY <3>2, <4>1, <4>2
    <3> QED
      BY <1>1, <2>2, <3>3, <3>4, <3>5, StatusChanges
  <2> QED
    BY <2>1, <2>2
<1>2. InboxInv /\ [Next]_vars
        => [\A c \in Cards : status[c] \in {"accepted", "snoozed"} /\ ~ByHand(c) => Kept(c)]_vars
  BY <1>1
<1> QED
  BY <1>2, InboxInvariant, PTL DEF Spec, AcceptedWorkKept

-----------------------------------------------------------------------------
(* No card is closed twice for one purchase, and what a campaign may send is  *)
(* approved and above its floor, for any cards, ladders, caps and engines.   *)
THEOREM InboxIsSound == Spec => []InboxSound
<1>1. InboxInv => InboxSound
  BY DEF InboxInv, InboxSound
<1> QED
  BY <1>1, InboxInvariant, PTL

(* Decisions, accepted work and rejections stand against every run, and       *)
(* against a nightly job unless they fall between its reading and writing.   *)
THEOREM WorkOfPeopleStands == Spec => PeopleDecide
  BY DecisionsStand, AcceptedWorkStands, RejectionsStand DEF PeopleDecide


-----------------------------------------------------------------------------
(* One run of the engine, for any plans, cadences, worlds and failures.      *)

Outcome == {"block", "skip", "pass"}

(* The phases of the run, and what its filters know.                         *)
RunPhases ==
    /\ runPhase \in {"read", "filter", "done"}
    /\ IsFiniteSet(Filtered)
    /\ todo \cap Filtered = {}
    /\ taken \in [Buckets -> Int]
    /\ runPhase = "read" =>
          todo = {} /\ Filtered = {} /\ kept = {} /\ taken = [b \in Buckets |-> 0]
    /\ runPhase # "read" => \E w \in Worlds, f \in Failures : context = Context(w, f)

(* How the chain may have ended for a candidate: accepted, with its capacity *)
(* counted; turned away or pushed out by the cap; over the capacity; or      *)
(* stopped by a filter that looks at it alone.                               *)
NoteEnds(n) ==
    /\ n \in Seq(Outcome)
    /\ \/ /\ BlockedIn(n) = {} /\ Len(n) = CapacityAt
          /\ n[CapacityAt] = IF context.capacity = Unknown THEN "skip" ELSE "pass"
       \/ BlockedIn(n) = {ConflictAt} /\ Len(n) \in {ConflictAt, CapacityAt}
       \/ BlockedIn(n) = {CapacityAt} /\ Len(n) = CapacityAt /\ context.capacity # Unknown
       \/ \E i \in 1..8 : BlockedIn(n) = {i} /\ Len(n) = i
NotesEnd == \A c \in Filtered : NoteEnds(notes[c])

CapOf(b) == IF b = "relationship" THEN 1 ELSE OpenCap

(* A slot holds candidates of its own, no more than its cap; who is accepted *)
(* has one.                                                                  *)
SlotsHold ==
    /\ \A c \in todo \cup Filtered : Key(c) \in DOMAIN slots
    /\ \A k \in DOMAIN slots :
          /\ IsFiniteSet(slots[k]) /\ Cardinality(slots[k]) <= CapOf(k[2])
          /\ slots[k] \subseteq Filtered
          /\ \A h \in slots[k] : Key(h) = k
    /\ \A c \in Accepted : c \in slots[Key(c)]

(* A cap that has turned a candidate away stays exhausted.                   *)
CapsStayFull == \A c \in Filtered : ConflictAt \in BlockedIn(notes[c]) => Full(c)

(* A capacity that has turned a candidate away stays used up.                *)
CapacityUsedUp ==
    \A c \in Filtered : CapacityAt \in BlockedIn(notes[c])
        => context.capacity # Unknown /\ taken[Bucket(c)] = context.capacity

(* What is filtered is worth at least what is left.                          *)
ByFallingValue == \A c \in Filtered, d \in todo : d.value <= c.value

RunInv ==
    /\ RunPhases /\ NotesEnd /\ SlotsHold /\ CapsStayFull /\ CapacityUsedUp /\ ByFallingValue
    /\ CapacityKept /\ RemindersFirst /\ OneReminderPerPair

(* The eight filters that look at one candidate alone leave eight notes.     *)
LEMMA ChainNotesType ==
    ASSUME NEW c, NEW x
    PROVE  ChainNotes(c, x) \in Seq(Outcome) /\ Len(ChainNotes(c, x)) = 8
<1>1. \A blocks, skips : Verdict(blocks, skips) \in Outcome
  BY DEF Verdict, Outcome
<1>2. /\ Eligibility(c) \in Outcome /\ Consent(c, x) \in Outcome /\ Fatigue(c, x) \in Outcome
      /\ Compatibility(c, x) \in Outcome /\ Inventory(c, x) \in Outcome
      /\ MarginFloor(c, x) \in Outcome /\ OfferPolicy(c, x) \in Outcome /\ Uplift(c, x) \in Outcome
  BY <1>1, Zenon DEF Eligibility, Consent, Fatigue, Compatibility, Inventory, MarginFloor, OfferPolicy,
                     Uplift
<1> QED
  BY <1>2 DEF ChainNotes

(* The notes of a candidate that the cap and the capacity have judged too.   *)
LEMMA FullNote ==
    ASSUME NEW n \in Seq(Outcome), Len(n) = 8, BlockedIn(n) = {},
           NEW t \in Seq(Outcome), Len(t) = 2, t[1] = "pass"
    PROVE  /\ n \o t \in Seq(Outcome) /\ Len(n \o t) = CapacityAt
           /\ (n \o t)[CapacityAt] = t[2]
           /\ BlockedIn(n \o t) = IF t[2] = "block" THEN {CapacityAt} ELSE {}
<1> DEFINE m == n \o t
<1>0. m = n \o t
  OBVIOUS
<1> HIDE DEF m
<1>2. m \in Seq(Outcome) /\ Len(m) = 10
  <2>1. m \in Seq(Outcome) /\ Len(m) = Len(n) + Len(t)
    BY <1>0, ConcatProperties
  <2> QED
    BY <2>1
<1>3. \A i \in 1..10 : m[i] = IF i <= 8 THEN n[i] ELSE t[i - 8]
  <2>1. \A i \in 1..(Len(n) + Len(t)) : m[i] = IF i <= Len(n) THEN n[i] ELSE t[i - Len(n)]
    BY <1>0, ConcatProperties
  <2> QED
    BY <2>1
<1>4. m[9] = "pass" /\ m[10] = t[2] /\ \A i \in 1..8 : m[i] = n[i]
  BY <1>3
<1>5. DOMAIN m = 1..10 /\ DOMAIN n = 1..8
  BY <1>2, LenProperties
<1>6. \A i \in 1..8 : n[i] # "block"
  BY <1>5 DEF BlockedIn
<1>7. \A i : i \in BlockedIn(m) <=> i = 10 /\ t[2] = "block"
  BY <1>4, <1>5, <1>6 DEF BlockedIn
<1> QED
  BY <1>2, <1>4, <1>7 DEF m, CapacityAt

(* The notes of a candidate the cap turns away.                              *)
LEMMA CrowdedNote ==
    ASSUME NEW n \in Seq(Outcome), Len(n) = 8, BlockedIn(n) = {},
           NEW t \in Seq(Outcome), Len(t) = 1, t[1] = "block"
    PROVE  n \o t \in Seq(Outcome) /\ Len(n \o t) = ConflictAt /\ BlockedIn(n \o t) = {ConflictAt}
<1> DEFINE m == n \o t
<1>0. m = n \o t
  OBVIOUS
<1> HIDE DEF m
<1>2. m \in Seq(Outcome) /\ Len(m) = 9
  <2>1. m \in Seq(Outcome) /\ Len(m) = Len(n) + Len(t)
    BY <1>0, ConcatProperties
  <2> QED
    BY <2>1
<1>3. \A i \in 1..9 : m[i] = IF i <= 8 THEN n[i] ELSE t[i - 8]
  <2>1. \A i \in 1..(Len(n) + Len(t)) : m[i] = IF i <= Len(n) THEN n[i] ELSE t[i - Len(n)]
    BY <1>0, ConcatProperties
  <2> QED
    BY <2>1
<1>4. m[9] = "block" /\ \A i \in 1..8 : m[i] = n[i]
  BY <1>3
<1>5. DOMAIN m = 1..9 /\ DOMAIN n = 1..8
  BY <1>2, LenProperties
<1>6. \A i \in 1..8 : n[i] # "block"
  BY <1>5 DEF BlockedIn
<1>7. \A i : i \in BlockedIn(m) <=> i = 9
  BY <1>4, <1>5, <1>6 DEF BlockedIn
<1> QED
  BY <1>2, <1>7 DEF m, ConflictAt

(* The notes of a candidate a filter of its own stops: the first that blocks *)
(* is the last.                                                              *)
LEMMA StoppedNote ==
    ASSUME NEW n \in Seq(Outcome), Len(n) = 8, BlockedIn(n) # {}
    PROVE  LET first == CHOOSE i \in BlockedIn(n) : \A j \in BlockedIn(n) : i <= j IN
           \E i \in 1..8 : /\ SubSeq(n, 1, first) \in Seq(Outcome)
                           /\ Len(SubSeq(n, 1, first)) = i /\ BlockedIn(SubSeq(n, 1, first)) = {i}
<1> DEFINE first == CHOOSE i \in BlockedIn(n) : \A j \in BlockedIn(n) : i <= j
           m == SubSeq(n, 1, first)
<1>1. DOMAIN n = 1..8 /\ n \in [1..8 -> Outcome]
  BY LenProperties
<1>2. BlockedIn(n) \subseteq 1..8
  BY <1>1 DEF BlockedIn
<1>3. PICK i \in BlockedIn(n) : \A j \in BlockedIn(n) : i <= j
  BY <1>2, LeastExists
<1>4. first \in BlockedIn(n) /\ \A j \in BlockedIn(n) : first <= j
  BY <1>3
<1> HIDE DEF first
<1>5. first \in 1..8 /\ n[first] = "block"
  BY <1>2, <1>4 DEF BlockedIn
<1>6. \A k \in 1..first : n[k] \in Outcome
  BY <1>1, <1>5
<1>7. /\ m \in Seq(Outcome) /\ Len(m) = first
      /\ \A k \in 1..first : m[k] = n[k]
  BY <1>5, <1>6, SubSeqProperties
<1>8. DOMAIN m = 1..first
  BY <1>7, LenProperties
<1> HIDE DEF m
<1>9. \A k \in 1..first : n[k] = "block" => k = first
  BY <1>1, <1>4, <1>5 DEF BlockedIn
<1>10. BlockedIn(m) = {first}
  BY <1>5, <1>7, <1>8, <1>9 DEF BlockedIn
<1> QED
  BY <1>5, <1>7, <1>10 DEF m, first


(* The notes of a candidate that is pushed out of its slot.                  *)
LEMMA PushedNote ==
    ASSUME NEW n \in Seq(Outcome), Len(n) = CapacityAt, BlockedIn(n) = {}
    PROVE  LET m == [n EXCEPT ![ConflictAt] = "block"] IN
           m \in Seq(Outcome) /\ Len(m) = CapacityAt /\ BlockedIn(m) = {ConflictAt}
<1> DEFINE m == [n EXCEPT ![ConflictAt] = "block"]
<1>1. n \in [1..10 -> Outcome] /\ DOMAIN n = 1..10
  BY LenProperties DEF CapacityAt
<1>2. m \in [1..10 -> Outcome] /\ DOMAIN m = 1..10 /\ \A i \in 1..10 : m[i] = IF i = 9 THEN "block" ELSE n[i]
  BY <1>1 DEF ConflictAt, Outcome
<1>3. m \in Seq(Outcome) /\ Len(m) = 10
  BY ExceptSeq DEF ConflictAt, CapacityAt, Outcome
<1>4. \A i \in 1..10 : n[i] # "block"
  BY <1>1 DEF BlockedIn
<1> HIDE DEF m
<1>5. \A i : i \in BlockedIn(m) <=> i = 9
  BY <1>2, <1>4 DEF BlockedIn
<1> QED
  BY <1>3, <1>5 DEF m, ConflictAt, CapacityAt

(* What the filters know of the operator's capacity is a number, or nothing. *)
LEMMA CapacityKnown ==
    ASSUME RunPhases, runPhase # "read"
    PROVE  context.capacity \in Nat \cup {Unknown}
<1>1. PICK w \in Worlds, f \in Failures : context = Context(w, f)
  BY DEF RunPhases
<1> QED
  BY <1>1, RunAssumption DEF Context, Read

(* Who has a note after the candidate c has been given one.                  *)
LEMMA NoteAdded ==
    ASSUME NEW c, NEW s, notes' = Noted(notes, c, s)
    PROVE  /\ Filtered' = Filtered \cup {c}
           /\ notes'[c] = s
           /\ \A d \in Filtered \ {c} : notes'[d] = notes[d]
  BY DEF Noted, Filtered

(* What every filtering keeps: the order, and the candidates themselves.     *)
LEMMA Refiltered ==
    ASSUME RunInv, NEW c \in todo, runPhase = "filter", Foremost(c), FilterRest(c),
           Filtered' = Filtered \cup {c}, taken' \in [Buckets -> Int]
    PROVE  /\ RunPhases' /\ ByFallingValue' /\ OneReminderPerPair'
           /\ runPhase' = runPhase /\ context' = context /\ todo' \cup Filtered' = todo \cup Filtered
           /\ c \notin Filtered
<1> USE DEF RunInv
<1>1. runPhase' = runPhase /\ context' = context /\ kept' = kept /\ todo' = todo \ {c}
  BY DEF FilterRest
<1>2. c \notin Filtered /\ todo' \cup Filtered' = todo \cup Filtered
  BY <1>1 DEF RunPhases
<1>3. IsFiniteSet(Filtered')
  BY FS_AddElement DEF RunPhases
<1>4. RunPhases'
  BY <1>1, <1>2, <1>3 DEF RunPhases
<1>5. ByFallingValue'
  BY <1>1 DEF ByFallingValue, Foremost
<1>6. OneReminderPerPair'
  BY <1>2 DEF OneReminderPerPair
<1> QED
  BY <1>1, <1>2, <1>4, <1>5, <1>6

(* A candidate that is rejected without being counted changes nothing else.  *)
LEMMA RejectedInv ==
    ASSUME RunInv, NEW c \in todo, runPhase = "filter", Foremost(c), FilterRest(c),
           NEW s, notes' = Noted(notes, c, s), UNCHANGED <<slots, taken>>,
           NoteEnds(s), BlockedIn(s) # {}, CapacityAt \notin BlockedIn(s),
           ConflictAt \in BlockedIn(s) => Full(c) /\ Yielding(c) = {} /\ Len(s) = ConflictAt
    PROVE  RunInv'
<1> USE DEF RunInv
<1>1. /\ Filtered' = Filtered \cup {c} /\ notes'[c] = s
      /\ \A d \in Filtered \ {c} : notes'[d] = notes[d]
  BY NoteAdded
<1>2. /\ RunPhases' /\ ByFallingValue' /\ OneReminderPerPair'
      /\ runPhase' = runPhase /\ context' = context /\ todo' \cup Filtered' = todo \cup Filtered
      /\ c \notin Filtered
  BY <1>1, Refiltered DEF RunPhases
<1>3. slots' = slots /\ taken' = taken
  OBVIOUS
<1>4. \A d \in Filtered : notes'[d] = notes[d]
  BY <1>1, <1>2
<1>5. Accepted' = Accepted
  BY <1>1, <1>4 DEF Accepted
<1>6. NotesEnd'
  <2>1. \A n : NoteEnds(n) => NoteEnds(n)'
    BY <1>2 DEF NoteEnds
  <2>2. \A d \in Filtered' : NoteEnds(notes'[d])
    BY <1>1, <1>4 DEF NotesEnd
  <2>3. ASSUME NEW d \in Filtered' PROVE NoteEnds(notes[d])'
    <3>1. PICK n : n = notes'[d] /\ NoteEnds(n)
      BY <2>2, <2>3
    <3>2. NoteEnds(n)'
      BY <2>1, <3>1
    <3> QED
      BY <3>1, <3>2 DEF NoteEnds
  <2> QED
    BY <2>3 DEF NotesEnd
<1>7. SlotsHold'
  BY <1>1, <1>2, <1>3, <1>5 DEF SlotsHold
<1>8. CapsStayFull'
  BY <1>1, <1>3, <1>4 DEF CapsStayFull, Full
<1>9. CapacityUsedUp'
  BY <1>1, <1>2, <1>3, <1>4 DEF CapacityUsedUp
<1>10. CapacityKept'
  BY <1>1, <1>2, <1>3, <1>4, <1>5 DEF CapacityKept
<1>11. RemindersFirst'
  <2> SUFFICES ASSUME NEW x \in Filtered', ConflictAt \in BlockedIn(notes'[x])
               PROVE  /\ x.kind = "cycle" =>
                            ~\E d \in Accepted : d.customer = x.customer /\ d.kind \in CrossSell
                      /\ Len(notes'[x]) = CapacityAt =>
                            \E d \in Accepted : d.customer = x.customer /\ d.kind = "cycle"
    BY <1>5 DEF RemindersFirst
  <2>1. CASE x \in Filtered
    BY <1>4, <2>1 DEF RemindersFirst
  <2>2. CASE x = c
    <3>1. Yielding(c) = {} /\ Len(notes'[x]) # CapacityAt
      BY <1>1, <2>2 DEF ConflictAt, CapacityAt
    <3>2. ASSUME c.kind = "cycle", NEW d \in Accepted, d.customer = c.customer, d.kind \in CrossSell
          PROVE  FALSE
      <4>1. Key(d) = Key(c)
        BY <3>2 DEF Key, Bucket, IsRapport, CrossSell
      <4>2. d \in slots[Key(c)] /\ BlockedIn(notes[d]) = {}
        BY <4>1 DEF SlotsHold, Accepted
      <4> QED
        BY <3>1, <3>2, <4>2 DEF Yielding
    <3> QED
      BY <2>2, <3>1, <3>2
  <2> QED
    BY <1>1, <2>1, <2>2
<1> QED
  BY <1>2, <1>6, <1>7, <1>8, <1>9, <1>10, <1>11


(* Swapping one element of a finite set for a new one keeps its size.        *)
LEMMA SwapKeepsSize ==
    ASSUME NEW S, IsFiniteSet(S), NEW h \in S, NEW c, c \notin S
    PROVE  IsFiniteSet((S \ {h}) \cup {c}) /\ Cardinality((S \ {h}) \cup {c}) = Cardinality(S)
<1>1. /\ IsFiniteSet(S \ {h}) /\ Cardinality(S \ {h}) = Cardinality(S) - 1
      /\ Cardinality(S) \in Nat
  BY FS_RemoveElement, FS_CardinalityType
<1>2. c \notin S \ {h}
  OBVIOUS
<1>3. /\ IsFiniteSet((S \ {h}) \cup {c})
      /\ Cardinality((S \ {h}) \cup {c}) = Cardinality(S \ {h}) + 1
  BY <1>1, <1>2, FS_AddElement
<1> QED
  BY <1>1, <1>3

(* What CapacityKept says while the filters run with a capacity.             *)
LEMMA Counted ==
    ASSUME RunInv, runPhase = "filter", context.capacity \in Nat, NEW b \in Buckets
    PROVE  /\ taken[b] = Cardinality({c \in Accepted : Bucket(c) = b})
           /\ taken[b] <= context.capacity /\ taken[b] \in Int
           /\ IsFiniteSet({c \in Accepted : Bucket(c) = b})
           /\ \A c \in Filtered, d \in Accepted :
                 Bucket(c) = b /\ Bucket(d) = b /\ CapacityAt \in BlockedIn(notes[c])
                     => c.value <= d.value \/ d.kind = "cycle"
<1>1. context.capacity # Unknown
  BY RunAssumption
<1>2. IsFiniteSet({c \in Accepted : Bucket(c) = b})
  <2>1. {c \in Accepted : Bucket(c) = b} \subseteq Filtered
    BY DEF Accepted
  <2> QED
    BY <2>1, FS_Subset DEF RunInv, RunPhases
<1> QED
  BY <1>1, <1>2 DEF RunInv, RunPhases, CapacityKept

(* filter_conflict with a free slot.                                         *)
LEMMA TakeSlotInv ==
    ASSUME RunInv, NEW c \in todo, runPhase = "filter", Foremost(c), FilterRest(c), TakeSlot(c)
    PROVE  RunInv'
<1> USE DEF RunInv
<1> DEFINE q == Capacity(c, taken)
           k == Key(c)
           n == ChainNotes(c, context)
           t == <<"pass", q>>
           s == n \o t
<1>1. q \in Outcome
  BY DEF Capacity, Outcome
<1>2. n \in Seq(Outcome) /\ Len(n) = 8 /\ BlockedIn(n) = {} /\ ~Full(c)
  BY ChainNotesType DEF TakeSlot, Clear
<1>3. notes' = Noted(notes, c, s) /\ slots' = [slots EXCEPT ![k] = @ \cup {c}] /\ taken' = CountTaken(c, taken)
  BY DEF TakeSlot, Outcomes
<1> HIDE DEF n, q
<1>4. t \in Seq(Outcome) /\ Len(t) = 2 /\ t[1] = "pass" /\ t[2] = q
  BY <1>1 DEF Outcome
<1> HIDE DEF t
<1>5. /\ s \in Seq(Outcome) /\ Len(s) = CapacityAt /\ s[CapacityAt] = q
      /\ BlockedIn(s) = IF q = "block" THEN {CapacityAt} ELSE {}
  BY <1>2, <1>4, FullNote
<1> HIDE DEF s
<1>6. /\ Filtered' = Filtered \cup {c} /\ notes'[c] = s
      /\ \A d \in Filtered \ {c} : notes'[d] = notes[d]
  BY <1>3, NoteAdded
<1>7. Bucket(c) \in Buckets
  BY DEF Bucket, Buckets
<1>8. /\ taken' \in [Buckets -> Int]
      /\ taken' = IF q = "pass" THEN [taken EXCEPT ![Bucket(c)] = taken[Bucket(c)] + 1] ELSE taken
  BY <1>3, <1>7 DEF CountTaken, RunPhases, q
<1>9. /\ RunPhases' /\ ByFallingValue' /\ OneReminderPerPair'
      /\ runPhase' = runPhase /\ context' = context /\ todo' \cup Filtered' = todo \cup Filtered
      /\ c \notin Filtered
  BY <1>6, <1>8, Refiltered
<1>10. \A d \in Filtered : notes'[d] = notes[d]
  BY <1>6, <1>9
<1>11. Accepted' = IF q = "block" THEN Accepted ELSE Accepted \cup {c}
  BY <1>5, <1>6, <1>10 DEF Accepted
<1>12. context.capacity \in Nat \cup {Unknown}
  BY CapacityKnown
<1>13. /\ q = "skip" <=> context.capacity = Unknown
       /\ q = "block" => context.capacity \in Nat /\ taken[Bucket(c)] >= context.capacity
       /\ q = "pass" => context.capacity \in Nat /\ ~(taken[Bucket(c)] >= context.capacity)
  BY <1>12 DEF Capacity, q
<1>14. NoteEnds(s)
  <2>1. CASE q = "block"
    BY <1>5, <1>13, <2>1, RunAssumption DEF NoteEnds
  <2>2. CASE q # "block"
    BY <1>1, <1>5, <1>13, <2>2 DEF NoteEnds, Outcome
  <2> QED
    BY <2>1, <2>2
<1>15. NotesEnd'
  BY <1>6, <1>9, <1>10, <1>14 DEF NotesEnd, NoteEnds
<1>16. /\ k \in DOMAIN slots /\ IsFiniteSet(slots[k]) /\ c \notin slots[k]
       /\ Cardinality(slots[k]) \in Nat /\ SlotCap(c) = CapOf(k[2])
       /\ DOMAIN slots' = DOMAIN slots /\ slots'[k] = slots[k] \cup {c}
       /\ \A j \in DOMAIN slots \ {k} : slots'[j] = slots[j]
  BY <1>3, <1>9, FS_CardinalityType DEF SlotsHold, SlotCap, CapOf, Key, Bucket
<1>17. ~(Cardinality(slots[k]) >= CapOf(k[2])) /\ CapOf(k[2]) \in Nat
  BY <1>2, <1>16, RunAssumption DEF Full, CapOf
<1>18. IsFiniteSet(slots'[k]) /\ Cardinality(slots'[k]) = Cardinality(slots[k]) + 1
  BY <1>16, FS_AddElement
<1>19. SlotsHold'
  <2>1. \A x \in todo' \cup Filtered' : Key(x) \in DOMAIN slots'
    BY <1>9, <1>16 DEF SlotsHold
  <2>2. Cardinality(slots'[k]) <= CapOf(k[2])
    BY <1>16, <1>17, <1>18
  <2>3. ASSUME NEW j \in DOMAIN slots'
        PROVE  /\ IsFiniteSet(slots'[j]) /\ Cardinality(slots'[j]) <= CapOf(j[2])
               /\ slots'[j] \subseteq Filtered'
               /\ \A h \in slots'[j] : Key(h) = j
    BY <1>6, <1>16, <1>18, <2>2 DEF SlotsHold
  <2>4. ASSUME NEW x \in Accepted' PROVE x \in slots'[Key(x)]
    <3>1. CASE x = c
      BY <1>16, <3>1
    <3>2. CASE x # c
      <4>1. x \in Accepted /\ x \in Filtered
        BY <1>11, <3>2 DEF Accepted
      <4> QED
        BY <1>16, <4>1 DEF SlotsHold
    <3> QED
      BY <3>1, <3>2
  <2> QED
    BY <2>1, <2>3, <2>4 DEF SlotsHold
<1>20. \A x \in Filtered' : ConflictAt \in BlockedIn(notes'[x])
           => x \in Filtered /\ notes'[x] = notes[x] /\ Key(x) # k /\ slots'[Key(x)] = slots[Key(x)]
  <2> SUFFICES ASSUME NEW x \in Filtered', ConflictAt \in BlockedIn(notes'[x])
               PROVE  x \in Filtered /\ notes'[x] = notes[x] /\ Key(x) # k /\ slots'[Key(x)] = slots[Key(x)]
    OBVIOUS
  <2>1. x # c /\ x \in Filtered /\ notes'[x] = notes[x]
    BY <1>5, <1>6, <1>10 DEF ConflictAt, CapacityAt
  <2>2. Full(x) /\ SlotCap(x) = CapOf(Key(x)[2])
    BY <2>1 DEF CapsStayFull, SlotCap, CapOf, Key, Bucket
  <2>3. Key(x) # k
    BY <1>17, <2>2 DEF Full
  <2> QED
    BY <1>16, <2>1, <2>3 DEF SlotsHold
<1>21. CapsStayFull'
  BY <1>20 DEF CapsStayFull, Full
<1>22. CapacityUsedUp'
  <2> SUFFICES ASSUME NEW x \in Filtered', CapacityAt \in BlockedIn(notes'[x])
               PROVE  context.capacity # Unknown /\ taken'[Bucket(x)] = context.capacity
    BY <1>9 DEF CapacityUsedUp
  <2>1. CASE x \in Filtered
    <3>1. context.capacity # Unknown /\ taken[Bucket(x)] = context.capacity
      BY <1>10, <2>1 DEF CapacityUsedUp
    <3>2. q = "pass" => Bucket(x) # Bucket(c)
      BY <1>12, <1>13, <3>1
    <3> QED
      BY <1>7, <1>8, <3>1, <3>2 DEF RunPhases
  <2>2. CASE x = c
    <3>1. q = "block"
      BY <1>5, <1>6, <2>2
    <3>2. context.capacity \in Nat /\ taken[Bucket(c)] >= context.capacity
      BY <1>13, <3>1
    <3>3. taken[Bucket(c)] <= context.capacity
      BY <1>7, <3>2, Counted
    <3> QED
      BY <1>7, <1>8, <2>2, <3>1, <3>2, <3>3, RunAssumption DEF RunPhases
  <2> QED
    BY <1>6, <2>1, <2>2
<1>23. RemindersFirst'
  <2> SUFFICES ASSUME NEW x \in Filtered', ConflictAt \in BlockedIn(notes'[x])
               PROVE  /\ x.kind = "cycle" =>
                            ~\E d \in Accepted' : d.customer = x.customer /\ d.kind \in CrossSell
                      /\ Len(notes'[x]) = CapacityAt =>
                            \E d \in Accepted' : d.customer = x.customer /\ d.kind = "cycle"
    BY DEF RemindersFirst
  <2>1. x \in Filtered /\ notes'[x] = notes[x] /\ Key(x) # k
    BY <1>20
  <2>2. ASSUME x.kind = "cycle", NEW d \in Accepted', d.customer = x.customer, d.kind \in CrossSell
        PROVE  FALSE
    <3>1. Key(d) = Key(x)
      BY <2>2 DEF Key, Bucket, IsRapport, CrossSell
    <3>2. d \in Accepted
      BY <1>11, <2>1, <3>1
    <3> QED
      BY <2>1, <2>2, <3>2 DEF RemindersFirst
  <2>3. Accepted \subseteq Accepted'
    BY <1>11
  <2> QED
    BY <2>1, <2>2, <2>3 DEF RemindersFirst
<1>24. CapacityKept'
  <2> SUFFICES ASSUME context.capacity # Unknown, NEW b \in Buckets
               PROVE  LET inside == {x \in Accepted' : Bucket(x) = b} IN
                      /\ taken'[b] = Cardinality(inside) /\ taken'[b] <= context.capacity
                      /\ \A x \in Filtered', d \in inside :
                            Bucket(x) = b /\ CapacityAt \in BlockedIn(notes'[x])
                                => taken'[b] = context.capacity /\ (x.value <= d.value \/ d.kind = "cycle")
    BY <1>9 DEF CapacityKept
  <2> DEFINE old == {x \in Accepted : Bucket(x) = b}
             new == {x \in Accepted' : Bucket(x) = b}
  <2>1. context.capacity \in Nat
    BY <1>12
  <2>2. /\ taken[b] = Cardinality(old) /\ taken[b] <= context.capacity /\ taken[b] \in Int
        /\ IsFiniteSet(old)
    BY <2>1, Counted
  <2>3. ASSUME q = "pass", Bucket(c) = b
        PROVE  taken'[b] = Cardinality(new) /\ taken'[b] <= context.capacity
    <3>1. new = old \cup {c} /\ c \notin old
      BY <1>9, <1>11, <2>3 DEF Accepted
    <3>2. Cardinality(new) = Cardinality(old) + 1
      BY <2>2, <3>1, FS_AddElement
    <3>3. taken'[b] = taken[b] + 1
      BY <1>8, <2>3 DEF RunPhases
    <3>4. taken[b] + 1 <= context.capacity
      BY <1>13, <2>1, <2>2, <2>3
    <3> QED
      BY <2>2, <3>2, <3>3, <3>4
  <2>4. ASSUME ~(q = "pass" /\ Bucket(c) = b)
        PROVE  taken'[b] = Cardinality(new) /\ taken'[b] <= context.capacity
    <3>1. q # "skip" /\ new = old
      BY <1>11, <1>13, <1>1, <2>4 DEF Outcome
    <3>2. taken'[b] = taken[b]
      BY <1>8, <2>4 DEF RunPhases
    <3> QED
      BY <2>2, <3>1, <3>2
  <2>5. ASSUME NEW x \in Filtered', NEW d \in new, Bucket(x) = b, CapacityAt \in BlockedIn(notes'[x])
        PROVE  taken'[b] = context.capacity /\ (x.value <= d.value \/ d.kind = "cycle")
    <3>1. taken'[b] = context.capacity
      BY <1>9, <1>22, <2>5 DEF CapacityUsedUp
    <3>2. CASE x = c
      <4>1. q = "block" /\ d \in Filtered
        BY <1>5, <1>6, <1>11, <2>5, <3>2 DEF Accepted
      <4> QED
        BY <3>1, <3>2, <4>1 DEF ByFallingValue
    <3>3. CASE x # c
      <4>1. x \in Filtered /\ CapacityAt \in BlockedIn(notes[x])
        BY <1>6, <1>10, <2>5, <3>3
      <4>2. taken[b] = context.capacity
        BY <2>5, <4>1 DEF CapacityUsedUp
      <4>3. ~(q = "pass" /\ Bucket(c) = b)
        BY <1>13, <2>1, <4>2
      <4>4. d \in Accepted
        BY <1>11, <1>13, <1>1, <4>3 DEF Outcome
      <4> QED
        BY <2>1, <2>5, <3>1, <4>1, <4>4, Counted
    <3> QED
      BY <3>2, <3>3
  <2> QED
    BY <2>3, <2>4, <2>5
<1> QED
  BY <1>9, <1>15, <1>19, <1>21, <1>22, <1>23, <1>24


(* filter_conflict for a reminder: its slot is taken from the cheapest       *)
(* cross-selling, and _yield_slot gives its capacity back first, so that the *)
(* capacity used is what it was.                                             *)
LEMMA TakeOverInv ==
    ASSUME RunInv, NEW c \in todo, runPhase = "filter", Foremost(c), FilterRest(c),
           NEW h \in slots[Key(c)], TakeOver(c, h)
    PROVE  RunInv'
<1> USE DEF RunInv
<1> DEFINE free == GivenBack(h)
           q == Capacity(c, free)
           k == Key(c)
           n == ChainNotes(c, context)
           t == <<"pass", q>>
           s == n \o t
           f == [notes EXCEPT ![h][ConflictAt] = "block"]
           pushed == [notes[h] EXCEPT ![ConflictAt] = "block"]
<1>1. n \in Seq(Outcome) /\ Len(n) = 8 /\ BlockedIn(n) = {} /\ Full(c)
  BY ChainNotesType DEF TakeOver, Clear
<1>2. notes' = Noted(f, c, s) /\ slots' = [slots EXCEPT ![k] = (@ \ {h}) \cup {c}] /\ taken' = CountTaken(c, free)
  BY DEF TakeOver, Outcomes
<1>3. c.kind = "cycle" /\ h.kind \in CrossSell /\ BlockedIn(notes[h]) = {}
  BY DEF TakeOver, Yielding
<1>4. k \in DOMAIN slots /\ h \in Filtered /\ Key(h) = k /\ c \notin Filtered /\ h # c
  BY DEF SlotsHold, RunPhases
<1>5. Bucket(c) = "money" /\ "money" \in Buckets /\ Bucket(h) = "money" /\ h.customer = c.customer
  BY <1>3, <1>4 DEF Bucket, IsRapport, Buckets, CrossSell, Key
<1>6. h \in Accepted
  BY <1>3, <1>4 DEF Accepted
<1>7. /\ notes[h] \in Seq(Outcome) /\ Len(notes[h]) = CapacityAt
      /\ notes[h][CapacityAt] = IF context.capacity = Unknown THEN "skip" ELSE "pass"
  BY <1>3, <1>4 DEF NotesEnd, NoteEnds
<1>8. context.capacity \in Nat \cup {Unknown}
  BY CapacityKnown
<1>9. taken \in [Buckets -> Int]
  BY DEF RunPhases
<1>10. /\ context.capacity = Unknown => q = "skip" /\ free = taken
       /\ context.capacity # Unknown =>
             q = "pass" /\ free = [taken EXCEPT !["money"] = taken["money"] - 1]
  <2>1. CASE context.capacity = Unknown
    BY <1>7, <2>1 DEF GivenBack, Capacity
  <2>2. CASE context.capacity # Unknown
    <3>1. free = [taken EXCEPT !["money"] = taken["money"] - 1]
      BY <1>7, <2>2 DEF GivenBack
    <3>2. free["money"] = taken["money"] - 1 /\ taken["money"] \in Int
      BY <1>5, <1>9, <3>1
    <3>3. taken["money"] <= context.capacity /\ context.capacity \in Nat
      BY <1>5, <1>8, <2>2, Counted
    <3>4. ~(free["money"] >= context.capacity)
      BY <3>2, <3>3
    <3> HIDE DEF free
    <3>5. q = "pass"
      BY <1>5, <2>2, <3>4 DEF Capacity
    <3> QED
      BY <2>2, <3>1, <3>5
  <2> QED
    BY <2>1, <2>2
<1> HIDE DEF n
<1>11. taken' = taken
  <2>1. taken' = IF q = "pass" THEN [free EXCEPT !["money"] = free["money"] + 1] ELSE free
    BY <1>2, <1>5 DEF CountTaken
  <2> HIDE DEF free, q
  <2>2. CASE context.capacity = Unknown
    BY <1>10, <2>1, <2>2
  <2>3. CASE context.capacity # Unknown
    <3>1. free = [taken EXCEPT !["money"] = taken["money"] - 1]
      BY <1>10, <2>3
    <3>2. free["money"] + 1 = taken["money"] /\ free \in [Buckets -> Int]
      BY <1>5, <1>9, <3>1
    <3>3. taken' = [free EXCEPT !["money"] = taken["money"]]
      BY <1>10, <2>1, <2>3, <3>2
    <3> QED
      BY <1>5, <1>9, <3>1, <3>3
  <2> QED
    BY <2>2, <2>3
<1> HIDE DEF free, q
<1>12. t \in Seq(Outcome) /\ Len(t) = 2 /\ t[1] = "pass" /\ t[2] = q
  BY <1>10 DEF Outcome
<1> HIDE DEF t
<1>13. s \in Seq(Outcome) /\ Len(s) = CapacityAt /\ s[CapacityAt] = q /\ BlockedIn(s) = {}
  BY <1>1, <1>10, <1>12, FullNote
<1> HIDE DEF s
<1>14. pushed \in Seq(Outcome) /\ Len(pushed) = CapacityAt /\ BlockedIn(pushed) = {ConflictAt}
  BY <1>3, <1>7, PushedNote
<1>15. DOMAIN f = Filtered /\ f[h] = pushed /\ \A d \in Filtered \ {h} : f[d] = notes[d]
  BY <1>4 DEF Filtered
<1> HIDE DEF pushed, f
<1>16. /\ Filtered' = Filtered \cup {c} /\ notes'[c] = s /\ notes'[h] = pushed
       /\ \A d \in Filtered \ {h} : notes'[d] = notes[d]
  BY <1>2, <1>4, <1>15 DEF Noted, Filtered
<1>17. /\ RunPhases' /\ ByFallingValue' /\ OneReminderPerPair'
       /\ runPhase' = runPhase /\ context' = context /\ todo' \cup Filtered' = todo \cup Filtered
  BY <1>9, <1>11, <1>16, Refiltered
<1>18. Accepted' = (Accepted \ {h}) \cup {c}
  <2>1. ASSUME NEW x \in Filtered' PROVE BlockedIn(notes'[x]) = {} <=> x \in (Accepted \ {h}) \cup {c}
    BY <1>4, <1>13, <1>14, <1>16, <2>1 DEF Accepted
  <2>2. Accepted \cup {c} \subseteq Filtered'
    BY <1>16 DEF Accepted
  <2> QED
    BY <2>1, <2>2 DEF Accepted
<1>19. NoteEnds(s) /\ NoteEnds(pushed)
  BY <1>10, <1>13, <1>14 DEF NoteEnds
<1>20. NotesEnd'
  BY <1>16, <1>17, <1>19 DEF NotesEnd, NoteEnds
<1>21. /\ DOMAIN slots' = DOMAIN slots /\ slots'[k] = (slots[k] \ {h}) \cup {c}
       /\ \A j \in DOMAIN slots \ {k} : slots'[j] = slots[j]
       /\ IsFiniteSet(slots[k]) /\ c \notin slots[k]
  BY <1>2, <1>4 DEF SlotsHold
<1>22. IsFiniteSet(slots'[k]) /\ Cardinality(slots'[k]) = Cardinality(slots[k])
  BY <1>21, SwapKeepsSize
<1>23. \A j \in DOMAIN slots : Cardinality(slots'[j]) = Cardinality(slots[j])
  BY <1>21, <1>22
<1>24. SlotsHold'
  <2>1. \A x \in todo' \cup Filtered' : Key(x) \in DOMAIN slots'
    BY <1>17, <1>21 DEF SlotsHold
  <2>2. ASSUME NEW j \in DOMAIN slots'
        PROVE  /\ IsFiniteSet(slots'[j]) /\ Cardinality(slots'[j]) <= CapOf(j[2])
               /\ slots'[j] \subseteq Filtered'
               /\ \A g \in slots'[j] : Key(g) = j
    BY <1>16, <1>21, <1>22, <1>23 DEF SlotsHold
  <2>3. ASSUME NEW x \in Accepted' PROVE x \in slots'[Key(x)]
    <3>1. CASE x = c
      BY <1>21, <3>1
    <3>2. CASE x # c
      <4>1. x \in Accepted /\ x \in Filtered /\ x # h
        BY <1>4, <1>18, <3>2 DEF Accepted
      <4> QED
        BY <1>21, <4>1 DEF SlotsHold
    <3> QED
      BY <3>1, <3>2
  <2> QED
    BY <2>1, <2>2, <2>3 DEF SlotsHold
<1>25. CapsStayFull'
  <2> SUFFICES ASSUME NEW x \in Filtered', ConflictAt \in BlockedIn(notes'[x])
               PROVE  Full(x)'
    BY DEF CapsStayFull
  <2>1. x \in Filtered /\ Full(x)
    <3>1. x # c
      BY <1>13, <1>16
    <3>2. Full(h)
      BY <1>1, <1>4, <1>5 DEF Full, SlotCap, IsRapport, Bucket
    <3> QED
      BY <1>16, <3>1, <3>2 DEF CapsStayFull
  <2> QED
    BY <1>23, <2>1 DEF Full, SlotsHold
<1>26. CapacityUsedUp'
  <2> SUFFICES ASSUME NEW x \in Filtered', CapacityAt \in BlockedIn(notes'[x])
               PROVE  context.capacity # Unknown /\ taken[Bucket(x)] = context.capacity
    BY <1>11, <1>17 DEF CapacityUsedUp
  <2>1. x # c /\ x # h
    BY <1>13, <1>14, <1>16 DEF ConflictAt, CapacityAt
  <2> QED
    BY <1>16, <2>1 DEF CapacityUsedUp
<1>27. RemindersFirst'
  <2> SUFFICES ASSUME NEW x \in Filtered', ConflictAt \in BlockedIn(notes'[x])
               PROVE  /\ x.kind = "cycle" =>
                            ~\E d \in Accepted' : d.customer = x.customer /\ d.kind \in CrossSell
                      /\ Len(notes'[x]) = CapacityAt =>
                            \E d \in Accepted' : d.customer = x.customer /\ d.kind = "cycle"
    BY DEF RemindersFirst
  <2>1. CASE x = h
    <3>1. x.kind # "cycle"
      BY <1>3, <2>1 DEF CrossSell
    <3>2. c \in Accepted' /\ c.customer = x.customer /\ c.kind = "cycle"
      BY <1>3, <1>5, <1>18, <2>1
    <3> QED
      BY <3>1, <3>2
  <2>2. CASE x # h
    <3>1. x \in Filtered /\ notes'[x] = notes[x]
      BY <1>13, <1>16, <2>2
    <3>2. ASSUME x.kind = "cycle", NEW d \in Accepted', d.customer = x.customer, d.kind \in CrossSell
          PROVE  FALSE
      <4>1. d # c
        BY <1>3, <3>2 DEF CrossSell
      <4> QED
        BY <1>18, <3>1, <3>2, <4>1 DEF RemindersFirst
    <3>3. ASSUME Len(notes'[x]) = CapacityAt
          PROVE  \E d \in Accepted' : d.customer = x.customer /\ d.kind = "cycle"
      <4>1. PICK d \in Accepted : d.customer = x.customer /\ d.kind = "cycle"
        BY <3>1, <3>3 DEF RemindersFirst
      <4>2. d # h
        BY <1>3, <4>1 DEF CrossSell
      <4> QED
        BY <1>18, <4>1, <4>2
    <3> QED
      BY <3>2, <3>3
  <2> QED
    BY <2>1, <2>2
<1>28. CapacityKept'
  <2> SUFFICES ASSUME context.capacity # Unknown, NEW b \in Buckets
               PROVE  LET inside == {x \in Accepted' : Bucket(x) = b} IN
                      /\ taken[b] = Cardinality(inside) /\ taken[b] <= context.capacity
                      /\ \A x \in Filtered', d \in inside :
                            Bucket(x) = b /\ CapacityAt \in BlockedIn(notes'[x])
                                => taken[b] = context.capacity /\ (x.value <= d.value \/ d.kind = "cycle")
    BY <1>11, <1>17 DEF CapacityKept
  <2> DEFINE old == {x \in Accepted : Bucket(x) = b}
             new == {x \in Accepted' : Bucket(x) = b}
  <2>1. context.capacity \in Nat
    BY <1>8
  <2>2. /\ taken[b] = Cardinality(old) /\ taken[b] <= context.capacity /\ taken[b] \in Int
        /\ IsFiniteSet(old)
    BY <2>1, Counted
  <2>3. Cardinality(new) = Cardinality(old)
    <3>1. CASE b = "money"
      <4>1. h \in old /\ c \notin old /\ new = (old \ {h}) \cup {c}
        BY <1>4, <1>5, <1>6, <1>18, <3>1 DEF Accepted
      <4> HIDE DEF old, new
      <4> QED
        BY <2>2, <4>1, SwapKeepsSize
    <3>2. CASE b # "money"
      <4>1. new = old
        BY <1>5, <1>18, <3>2
      <4> QED
        BY <4>1
    <3> QED
      BY <3>1, <3>2
  <2>4. ASSUME NEW x \in Filtered', NEW d \in new, Bucket(x) = b, CapacityAt \in BlockedIn(notes'[x])
        PROVE  taken[b] = context.capacity /\ (x.value <= d.value \/ d.kind = "cycle")
    <3>1. x \in Filtered /\ CapacityAt \in BlockedIn(notes[x])
      BY <1>13, <1>14, <1>16, <2>4 DEF ConflictAt, CapacityAt
    <3>2. taken[b] = context.capacity
      BY <2>4, <3>1 DEF CapacityUsedUp
    <3>3. CASE d = c
      BY <1>3, <3>2, <3>3
    <3>4. CASE d # c
      <4>1. d \in Accepted /\ Bucket(d) = b
        BY <1>18, <3>4
      <4> QED
        BY <2>1, <2>4, <3>1, <3>2, <4>1, Counted
    <3> QED
      BY <3>3, <3>4
  <2> QED
    BY <2>2, <2>3, <2>4
<1> QED
  BY <1>17, <1>20, <1>24, <1>25, <1>26, <1>27, <1>28


(* The chain of filters, whatever it makes of the candidate.                 *)
LEMMA FilterInv ==
    ASSUME RunInv, NEW c \in todo, Filter(c)
    PROVE  RunInv'
<1> DEFINE n == ChainNotes(c, context)
<1>1. runPhase = "filter" /\ Foremost(c) /\ FilterRest(c)
  BY DEF Filter
<1>2. n \in Seq(Outcome) /\ Len(n) = 8
  BY ChainNotesType
<1>3. CASE Stop(c)
  <2> DEFINE first == CHOOSE i \in BlockedIn(n) : \A j \in BlockedIn(n) : i <= j
             s == SubSeq(n, 1, first)
  <2>1. BlockedIn(n) # {} /\ notes' = Noted(notes, c, s) /\ UNCHANGED <<slots, taken>>
    BY <1>3 DEF Stop
  <2>2. PICK i \in 1..8 : s \in Seq(Outcome) /\ Len(s) = i /\ BlockedIn(s) = {i}
    BY <1>2, <2>1, StoppedNote
  <2> HIDE DEF s
  <2>3. NoteEnds(s)
    BY <2>2 DEF NoteEnds
  <2>4. BlockedIn(s) # {} /\ CapacityAt \notin BlockedIn(s) /\ ConflictAt \notin BlockedIn(s)
    BY <2>2 DEF ConflictAt, CapacityAt
  <2> QED
    BY <1>1, <2>1, <2>3, <2>4, RejectedInv
<1>4. CASE NoSlot(c)
  <2> DEFINE t == <<"block">>
             s == n \o t
  <2>1. /\ BlockedIn(n) = {} /\ Full(c) /\ Yielding(c) = {}
        /\ notes' = Noted(notes, c, s) /\ UNCHANGED <<slots, taken>>
    BY <1>4 DEF NoSlot, Clear, Outcomes
  <2>2. t \in Seq(Outcome) /\ Len(t) = 1 /\ t[1] = "block"
    BY DEF Outcome
  <2> HIDE DEF n, t
  <2>3. s \in Seq(Outcome) /\ Len(s) = ConflictAt /\ BlockedIn(s) = {ConflictAt}
    BY <1>2, <2>1, <2>2, CrowdedNote
  <2> HIDE DEF s
  <2>4. NoteEnds(s)
    BY <2>3 DEF NoteEnds
  <2>5. BlockedIn(s) # {} /\ CapacityAt \notin BlockedIn(s)
    BY <2>3 DEF ConflictAt, CapacityAt
  <2> QED
    BY <1>1, <2>1, <2>3, <2>4, <2>5, RejectedInv
<1>5. CASE TakeSlot(c)
  BY <1>1, <1>5, TakeSlotInv
<1>6. CASE \E h \in slots[Key(c)] : TakeOver(c, h)
  BY <1>1, <1>6, TakeOverInv
<1> QED
  BY <1>3, <1>4, <1>5, <1>6 DEF Filter

(* replace_champion_cycle leaves one reminder of a pair: the analysis has    *)
(* one, the due table has one, and the table's goes before the analysis's.   *)
LEMMA OneReminderGenerated ==
    ASSUME NEW plan \in Plans, NEW cadence \in Cadences, NEW whales \in Whales,
           NEW rapport \in FromWhales(whales), NEW challengers \in SUBSET FromCadence(cadence),
           NEW c \in ReplaceChampion(FromActionList(plan) \cup FromExpansionGap(plan) \cup rapport,
                                     challengers),
           NEW d \in ReplaceChampion(FromActionList(plan) \cup FromExpansionGap(plan) \cup rapport,
                                     challengers),
           c.kind = "cycle", d.kind = "cycle", c.customer = d.customer, c.product = d.product
    PROVE  c = d
<1>1. \A x \in rapport : x.kind = "rapport"
  <2>1. \E K : rapport = {Candidate(w.customer, NoProduct, "rapport", "future_whale", 0) : w \in K}
    BY Zenon DEF FromWhales
  <2>2. PICK K : rapport = {Candidate(w.customer, NoProduct, "rapport", "future_whale", 0) : w \in K}
    BY <2>1
  <2> QED
    BY <2>2 DEF Candidate
<1>2. \A x \in FromExpansionGap(plan) : x.kind = "expansion"
  BY DEF FromExpansionGap, Candidate
<1>3. \A x \in FromActionList(plan) : \E a \in plan.actions :
          x = Candidate(a.customer, a.product, a.kind, "action_list", a.value)
  BY DEF FromActionList
<1>4. \A x \in challengers : \E r \in cadence :
          x = Candidate(r.customer, r.product, "cycle", "replenish_personal",
                        (r.spend * r.probability) \div BP)
  BY DEF FromCadence
<1>5. \A x \in {c, d} : x \in challengers \/ (/\ x \in FromActionList(plan)
                                              /\ \A y \in challengers :
                                                    y.customer = x.customer => y.product # x.product)
  <2> SUFFICES ASSUME NEW x \in {c, d}, x \notin challengers
               PROVE  /\ x \in FromActionList(plan)
                      /\ \A y \in challengers : y.customer = x.customer => y.product # x.product
    OBVIOUS
  <2>1. /\ x \in FromActionList(plan) \cup FromExpansionGap(plan) \cup rapport
        /\ ~(/\ x.generator = "action_list" /\ x.kind = "cycle"
             /\ \E y \in challengers : y.customer = x.customer /\ y.product = x.product)
    BY DEF ReplaceChampion
  <2>2. x \in FromActionList(plan)
    BY <1>1, <1>2, <2>1
  <2>3. x.generator = "action_list"
    BY <1>3, <2>2 DEF Candidate
  <2> QED
    BY <2>1, <2>2, <2>3
<1>6. CASE c \in challengers /\ d \in challengers
  <2>1. PICK r \in cadence : c = Candidate(r.customer, r.product, "cycle", "replenish_personal",
                                           (r.spend * r.probability) \div BP)
    BY <1>4, <1>6
  <2>2. PICK s \in cadence : d = Candidate(s.customer, s.product, "cycle", "replenish_personal",
                                           (s.spend * s.probability) \div BP)
    BY <1>4, <1>6
  <2>3. r.customer = s.customer /\ r.product = s.product
    BY <2>1, <2>2 DEF Candidate
  <2>4. r = s
    BY <2>3, RunAssumption
  <2> QED
    BY <2>1, <2>2, <2>4
<1>7. CASE c \notin challengers /\ d \notin challengers
  <2>1. PICK a \in plan.actions : c = Candidate(a.customer, a.product, a.kind, "action_list", a.value)
    BY <1>3, <1>5, <1>7
  <2>2. PICK b \in plan.actions : d = Candidate(b.customer, b.product, b.kind, "action_list", b.value)
    BY <1>3, <1>5, <1>7
  <2>3. a.kind = "cycle" /\ b.kind = "cycle" /\ a.customer = b.customer /\ a.product = b.product
    BY <2>1, <2>2 DEF Candidate
  <2>4. a = b
    BY <2>3, RunAssumption
  <2> QED
    BY <2>1, <2>2, <2>4
<1> QED
  BY <1>5, <1>6, <1>7

(* _run_engine_locked up to its filters.                                     *)
LEMMA GenerateInv ==
    ASSUME RunInv, runPhase = "read", NEW plan \in Plans, NEW cadence \in Cadences,
           NEW whales \in Whales, NEW world \in Worlds, NEW failed \in Failures,
           Generate(plan, cadence, whales, world, failed)
    PROVE  RunInv'
<1> USE DEF RunInv
<1>1. PICK rapport \in FromWhales(whales), challengers \in SUBSET FromCadence(cadence) :
          todo' = ReplaceChampion(FromActionList(plan) \cup FromExpansionGap(plan) \cup rapport,
                                  challengers)
  BY DEF Generate
<1>2. /\ context' = Context(world, failed) /\ runPhase' = "filter"
      /\ notes' = notes /\ taken' = taken /\ kept' = kept
      /\ slots' = [k \in {<<c.customer, Bucket(c)>> : c \in todo'} |-> {}]
  BY DEF Generate
<1>3. Filtered = {} /\ Filtered' = {} /\ taken = [b \in Buckets |-> 0]
  BY <1>2 DEF RunPhases, Filtered
<1>4. RunPhases'
  BY <1>2, <1>3, FS_EmptySet DEF RunPhases
<1>5. Accepted' = {}
  BY <1>3 DEF Accepted
<1>6. /\ DOMAIN slots' = {Key(c) : c \in todo'} /\ \A k \in DOMAIN slots' : slots'[k] = {}
  BY <1>2 DEF Key
<1>7. \A b : CapOf(b) \in Nat
  BY RunAssumption DEF CapOf
<1>8. SlotsHold'
  <2>1. \A c \in todo' \cup Filtered' : Key(c) \in DOMAIN slots'
    BY <1>3, <1>6
  <2>2. ASSUME NEW k \in DOMAIN slots'
        PROVE  IsFiniteSet(slots'[k]) /\ Cardinality(slots'[k]) <= CapOf(k[2]) /\ slots'[k] = {}
    <3>1. CapOf(k[2]) \in Nat
      BY <1>7
    <3> QED
      BY <1>6, <3>1, FS_EmptySet
  <2> QED
    BY <1>5, <2>1, <2>2 DEF SlotsHold
<1>9. NotesEnd' /\ CapsStayFull' /\ CapacityUsedUp' /\ ByFallingValue' /\ RemindersFirst'
  BY <1>3 DEF NotesEnd, CapsStayFull, CapacityUsedUp, ByFallingValue, RemindersFirst
<1>10. OneReminderPerPair'
  BY <1>1, <1>3, OneReminderGenerated DEF OneReminderPerPair
<1>11. CapacityKept'
  <2>1. context'.capacity \in Nat \cup {Unknown}
    BY <1>2, <1>4, CapacityKnown, RunAssumption DEF Context, Read
  <2> SUFFICES ASSUME context'.capacity # Unknown, NEW b \in Buckets
               PROVE  taken'[b] = Cardinality({c \in Accepted' : Bucket(c) = b})
                      /\ taken'[b] <= context'.capacity
    BY <1>3, <1>5 DEF CapacityKept
  <2>2. {c \in Accepted' : Bucket(c) = b} = {} /\ taken'[b] = 0
    BY <1>2, <1>3, <1>5
  <2> QED
    BY <2>1, <2>2, FS_EmptySet
<1> QED
  BY <1>4, <1>8, <1>9, <1>10, <1>11

(* Before the run has read anything nothing is filtered.                     *)
LEMMA InitRunInv == RunInit => RunInv
<1> SUFFICES ASSUME RunInit PROVE RunInv
  OBVIOUS
<1>1. Filtered = {} /\ Accepted = {} /\ DOMAIN slots = {} /\ todo = {} /\ runPhase = "read"
  BY DEF RunInit, Nothing, Filtered, Accepted
<1>2. RunPhases
  BY <1>1, FS_EmptySet DEF RunPhases, RunInit
<1>3. SlotsHold /\ NotesEnd /\ CapsStayFull /\ CapacityUsedUp /\ ByFallingValue
  BY <1>1 DEF SlotsHold, NotesEnd, CapsStayFull, CapacityUsedUp, ByFallingValue
<1>4. CapacityKept /\ RemindersFirst /\ OneReminderPerPair
  BY <1>1 DEF CapacityKept, RemindersFirst, OneReminderPerPair
<1> QED
  BY <1>2, <1>3, <1>4 DEF RunInv

(* What the filters have left stays as it is when the ceiling cuts.          *)
LEMMA UntouchedInv ==
    ASSUME RunInv, UNCHANGED <<context, todo, notes, slots, taken>>,
           \/ runPhase' = runPhase /\ kept' = kept
           \/ runPhase = "filter" /\ runPhase' = "done"
    PROVE  RunInv'
<1> USE DEF RunInv
<1>1. /\ context' = context /\ todo' = todo /\ notes' = notes /\ slots' = slots /\ taken' = taken
      /\ Filtered' = Filtered /\ Accepted' = Accepted
  BY DEF Filtered, Accepted
<1>2. RunPhases'
  BY <1>1 DEF RunPhases
<1>3. NotesEnd'
  BY <1>1 DEF NotesEnd, NoteEnds
<1>4. SlotsHold'
  BY <1>1 DEF SlotsHold
<1>5. CapsStayFull' /\ CapacityUsedUp' /\ ByFallingValue'
  BY <1>1 DEF CapsStayFull, CapacityUsedUp, ByFallingValue, Full
<1>6. RemindersFirst' /\ OneReminderPerPair'
  BY <1>1 DEF RemindersFirst, OneReminderPerPair
<1>7. CapacityKept'
  BY <1>1 DEF CapacityKept
<1> QED
  BY <1>2, <1>3, <1>4, <1>5, <1>6, <1>7

(* Every step of the run preserves the invariant.                            *)
LEMMA RunInvStep == RunInv /\ [RunNext]_runVars => RunInv'
<1> SUFFICES ASSUME RunInv, [RunNext]_runVars PROVE RunInv'
  OBVIOUS
<1>1. CASE \E c \in todo : Filter(c)
  BY <1>1, FilterInv
<1>2. CASE /\ runPhase = "read"
           /\ \E plan \in Plans, cadence \in Cadences, whales \in Whales, world \in Worlds,
                 failed \in Failures : Generate(plan, cadence, whales, world, failed)
  BY <1>2, GenerateInv
<1>3. CASE Cut
  BY <1>3, UntouchedInv DEF Cut
<1>4. CASE UNCHANGED runVars
  BY <1>4, UntouchedInv DEF runVars
<1> QED
  BY <1>1, <1>2, <1>3, <1>4 DEF RunNext


(* The invariant holds of every state of a run.                              *)
THEOREM RunInvariant == RunSpec => []RunInv
  BY InitRunInv, RunInvStep, PTL DEF RunSpec

(* An accepted candidate has all ten notes, a rejected one exactly one that  *)
(* blocks; no cap is exceeded, no capacity lost; reminders go before         *)
(* cross-selling; and of a pair there is one reminder - for any plans, due   *)
(* tables, settings and failures (apply_filters, replace_champion_cycle).    *)
THEOREM RunKeepsItsRules == RunSpec => []RunSound
<1>1. ASSUME RunInv PROVE NotesComplete
  <2> SUFFICES ASSUME NEW c \in Filtered
               PROVE  IF c \in Accepted THEN Len(notes[c]) = CapacityAt
                      ELSE Cardinality(BlockedIn(notes[c])) = 1
    BY DEF NotesComplete
  <2>1. NoteEnds(notes[c])
    BY <1>1 DEF RunInv, NotesEnd
  <2>2. CASE BlockedIn(notes[c]) = {}
    BY <2>1, <2>2 DEF NoteEnds, Accepted
  <2>3. CASE BlockedIn(notes[c]) # {}
    <3>1. \E i : BlockedIn(notes[c]) = {i}
      BY <2>1, <2>3 DEF NoteEnds
    <3> QED
      BY <2>3, <3>1, FS_Singleton DEF Accepted
  <2> QED
    BY <2>2, <2>3
<1>2. ASSUME RunInv PROVE SlotsKept
  <2> SUFFICES ASSUME NEW c \in Filtered
               PROVE  Cardinality({d \in Accepted : Key(d) = Key(c)}) <= SlotCap(c)
    BY DEF SlotsKept
  <2> DEFINE inside == {d \in Accepted : Key(d) = Key(c)}
             slot == slots[Key(c)]
  <2>1. /\ IsFiniteSet(slot) /\ Cardinality(slot) <= CapOf(Key(c)[2]) /\ inside \subseteq slot
    BY <1>2 DEF RunInv, SlotsHold
  <2>2. CapOf(Key(c)[2]) = SlotCap(c) /\ SlotCap(c) \in Nat
    BY RunAssumption DEF CapOf, Key, Bucket, SlotCap
  <2> HIDE DEF inside, slot
  <2>3. Cardinality(inside) <= Cardinality(slot) /\ Cardinality(inside) \in Nat /\ Cardinality(slot) \in Nat
    BY <2>1, FS_Subset, FS_CardinalityType
  <2>4. Cardinality(inside) <= SlotCap(c)
    BY <2>1, <2>2, <2>3
  <2> QED
    BY <2>4 DEF inside
<1>3. RunInv => RunSound
  BY <1>1, <1>2 DEF RunInv, RunSound, FilteringSound
<1> QED
  BY <1>3, RunInvariant, PTL

(* Rounding to the nearest whole number, either way at a half: what is       *)
(* rounded up to a number is no more than a half below it.                   *)
LEMMA RoundedToHalf ==
    ASSUME NEW a \in Int, NEW b \in Nat \ {0}, NEW f \in Int
    PROVE  /\ Rounded(a, b) >= f => 2 * a >= (2 * f - 1) * b
           /\ 2 * a > (2 * f - 1) * b => Rounded(a, b) >= f
<1> DEFINE q == a \div b
           m == a % b
<1>1. q \in Int /\ m \in Int /\ a = b * q + m /\ 0 <= m /\ m < b
  OBVIOUS
<1>2. \/ Rounded(a, b) = q /\ 2 * m <= b
      \/ Rounded(a, b) = q + 1 /\ 2 * m >= b
  BY <1>1 DEF Rounded
<1> HIDE DEF q, m
<1>3. \A x \in Int, y \in Int : x >= y => b * x >= b * y
  OBVIOUS
<1>4. (2 * f - 1) * b = 2 * (b * f) - b /\ b * (q + 1) = b * q + b /\ b * (f - 1) = b * f - b
  BY <1>1
<1>5. b * q \in Int /\ b * f \in Int
  BY <1>1
<1>6. CASE Rounded(a, b) = q /\ 2 * m <= b
  <2>1. q >= f => 2 * a >= (2 * f - 1) * b
    <3>1. q >= f => b * q >= b * f
      BY <1>1, <1>3
    <3> QED
      BY <1>1, <1>4, <1>5, <3>1
  <2>2. q <= f - 1 => 2 * a <= (2 * f - 1) * b
    <3>1. q <= f - 1 => b * q <= b * f - b
      BY <1>1, <1>3, <1>4
    <3> QED
      BY <1>1, <1>4, <1>5, <1>6, <3>1
  <2> QED
    BY <1>1, <1>4, <1>5, <1>6, <2>1, <2>2
<1>7. CASE Rounded(a, b) = q + 1 /\ 2 * m >= b
  <2>1. q + 1 >= f => 2 * a >= (2 * f - 1) * b
    <3>1. q + 1 >= f => b * q + b >= b * f
      BY <1>1, <1>3, <1>4
    <3> QED
      BY <1>1, <1>4, <1>5, <1>7, <3>1
  <2>2. q + 1 <= f - 1 => 2 * a <= (2 * f - 1) * b
    <3>1. q + 1 <= f - 1 => b * q + b <= b * f - b
      BY <1>1, <1>3, <1>4
    <3> QED
      BY <1>1, <1>4, <1>5, <3>1
  <2> QED
    BY <1>1, <1>4, <1>5, <1>7, <2>1, <2>2
<1> QED
  BY <1>2, <1>6, <1>7


(* pick_rung: the rung it returns leaves the floor to half a basis point, and*)
(* no smaller rung leaves more.                                              *)
LEMMA SmallestRungKeeps ==
    ASSUME NEW l \in SUBSET (1..MaxRung), NEW m \in Int, NEW f \in Int
    PROVE  LET d == SmallestRung(l, m, f)
               Spare(r) == 2 * BP * (BP - r - (BP - m)) - (2 * f - 1) * (BP - r) IN
           /\ d # 0 => d \in l /\ Spare(d) >= 0
           /\ \A r \in l : Spare(r) > 0 => d # 0 /\ d <= r
<1> DEFINE d == SmallestRung(l, m, f)
           Spare(r) == 2 * BP * (BP - r - (BP - m)) - (2 * f - 1) * (BP - r)
           fits == {r \in l : r < BP /\ PostDiscountMargin(m, r) >= f}
<1>1. ASSUME NEW r \in l
      PROVE  /\ r \in Nat \ {0} /\ r < BP
             /\ PostDiscountMargin(m, r) >= f => Spare(r) >= 0
             /\ Spare(r) > 0 => PostDiscountMargin(m, r) >= f
  <2> DEFINE a == (m - r) * BP
             b == BP - r
  <2>1. r \in 1..5000
    BY DEF MaxRung
  <2>2. a \in Int /\ b \in Nat \ {0} /\ 2 * a = 2 * BP * (BP - r - (BP - m))
    BY <2>1 DEF BP
  <2>3. Spare(r) = 2 * a - (2 * f - 1) * b /\ (2 * f - 1) * b \in Int
    BY <2>1, <2>2 DEF BP
  <2>4. PostDiscountMargin(m, r) = Rounded(a, b)
    BY DEF PostDiscountMargin
  <2> HIDE DEF a, b, Spare
  <2>5. /\ Rounded(a, b) >= f => 2 * a >= (2 * f - 1) * b
        /\ 2 * a > (2 * f - 1) * b => Rounded(a, b) >= f
    BY <2>2, RoundedToHalf
  <2>6. /\ PostDiscountMargin(m, r) >= f => Spare(r) >= 0
        /\ Spare(r) > 0 => PostDiscountMargin(m, r) >= f
    <3> DEFINE x == (2 * f - 1) * b
    <3>1. x \in Int /\ Spare(r) = 2 * a - x /\ a \in Int
      BY <2>2, <2>3
    <3>2. (Rounded(a, b) >= f => 2 * a >= x) /\ (2 * a > x => Rounded(a, b) >= f)
      BY <2>5
    <3> HIDE DEF x
    <3> QED
      BY <2>4, <3>1, <3>2
  <2> QED
    BY <2>1, <2>6 DEF BP
<1>2. d = IF fits = {} THEN 0 ELSE CHOOSE r \in fits : \A s \in fits : r <= s
  BY DEF SmallestRung
<1> HIDE DEF Spare, d
<1>3. CASE fits = {}
  <2>1. d = 0
    BY <1>2, <1>3
  <2>2. \A r \in l : ~(Spare(r) > 0)
    BY <1>1, <1>3
  <2> QED
    BY <2>1, <2>2 DEF Spare, d
<1>4. CASE fits # {}
  <2>1. fits \subseteq Nat
    BY <1>1
  <2>2. \E r \in fits : \A s \in fits : r <= s
    <3> HIDE DEF fits
    <3> QED
      BY <1>4, <2>1, LeastExists
  <2>3. d \in fits /\ \A s \in fits : d <= s
    <3> HIDE DEF fits
    <3> QED
      BY <1>2, <1>4, <2>2
  <2>4. d # 0 /\ d \in l /\ Spare(d) >= 0
    BY <1>1, <2>3
  <2>5. \A r \in l : Spare(r) > 0 => d <= r
    BY <1>1, <2>3
  <2> QED
    BY <2>4, <2>5 DEF Spare, d
<1> QED
  BY <1>3, <1>4

(* What build_context takes from the settings and the registers.             *)
LEMMA ContextTypes ==
    ASSUME NEW w \in Worlds, NEW failed, NEW c
    PROVE  LET x == Context(w, failed) IN
           /\ x.ladder \in SUBSET (1..MaxRung)
           /\ x.floor \in Int \cup {Unknown}
           /\ OfferMargin(c, x) \in Int \cup {Unknown}
<1> DEFINE x == Context(w, failed)
<1>1. x.ladder \in SUBSET (1..MaxRung) /\ x.floor \in Int \cup {Unknown}
  BY RunAssumption DEF Context, Read
<1>2. (\A p \in DOMAIN x.margins : x.margins[p] \in Int) /\ (\A p \in DOMAIN x.basket : x.basket[p] \in Int)
  BY RunAssumption DEF Context, Read, Nothing
<1>3. OfferMargin(c, x) \in Int \cup {Unknown}
  <2> HIDE DEF x
  <2> QED
    BY <1>2 DEF OfferMargin, Lookup
<1> QED
  BY <1>1, <1>3

(* The discount proposed with a kept card is the smallest rung that leaves   *)
(* the floor, to half a basis point, and nobody who buys at full price is    *)
(* proposed one (filter_offer_policy, pick_rung).                            *)
THEOREM DiscountsKeepTheFloor == RunSpec => []DiscountKeepsFloor
<1>1. ASSUME RunInv, NEW c \in kept
      PROVE  LET d == Discount(c, context)
                 cost == BP - OfferMargin(c, context)
                 Spare(r) == 2 * BP * (BP - r - cost) - (2 * context.floor - 1) * (BP - r) IN
             /\ Weighed(c, context) =>
                   /\ d # 0 => d \in context.ladder /\ Spare(d) >= 0
                   /\ \A r \in context.ladder : Spare(r) > 0 => d # 0 /\ d <= r
             /\ d > 0 => Tier(c, context) = "low" /\ ~IsRapport(c)
  <2>1. runPhase # "read"
    BY <1>1 DEF RunInv, RunPhases
  <2>2. PICK w \in Worlds, failed \in Failures : context = Context(w, failed)
    BY <1>1, <2>1 DEF RunInv, RunPhases
  <2>3. /\ context.ladder \in SUBSET (1..MaxRung)
        /\ context.floor \in Int \cup {Unknown}
        /\ OfferMargin(c, context) \in Int \cup {Unknown}
    BY <2>2, ContextTypes
  <2>4. CASE Weighed(c, context)
    <3>1. context.floor \in Int /\ OfferMargin(c, context) \in Int
      BY <2>3, <2>4 DEF Weighed
    <3>2. Discount(c, context) = SmallestRung(context.ladder, OfferMargin(c, context), context.floor)
      BY <2>4 DEF Discount
    <3>3. Tier(c, context) = "low" /\ ~IsRapport(c)
      BY <2>4 DEF Weighed
    <3> QED
      BY <2>3, <3>1, <3>2, <3>3, SmallestRungKeeps
  <2>5. CASE ~Weighed(c, context)
    <3>1. Discount(c, context) = 0
      BY <2>5 DEF Discount
    <3> QED
      BY <2>5, <3>1
  <2> QED
    BY <2>4, <2>5
<1>2. RunInv => DiscountKeepsFloor
  BY <1>1 DEF DiscountKeepsFloor
<1> QED
  BY <1>2, RunInvariant, PTL

(* The inbox and the run do not disturb each other: a behaviour of the two   *)
(* is one of the inbox and one of the run.                                   *)
THEOREM PartsKeepApart == OpportunitiesSpec => Spec /\ RunSpec
<1>1. Start => Init /\ RunInit
  BY DEF Start
<1>2. [Step]_<<vars, runVars, focus>> => [Next]_vars /\ [RunNext]_runVars
  BY DEF Step
<1> QED
  BY <1>1, <1>2, PTL DEF OpportunitiesSpec, Spec, RunSpec

(* What the inbox promises and what a run promises hold of the two together. *)
THEOREM OpportunitiesAreSound ==
    OpportunitiesSpec => /\ []InboxTypeOK /\ []InboxSound /\ []RunSound /\ []DiscountKeepsFloor
                         /\ PeopleDecide /\ ValidCardsStay
  BY PartsKeepApart, TypeCorrect, InboxIsSound, RunKeepsItsRules, DiscountsKeepTheFloor,
     WorkOfPeopleStands, CeilingPutsNothingAway
=============================================================================
