-------------------------- MODULE OpportunityInbox --------------------------
(***************************************************************************)
(* The opportunities of one customer and one product: cards the engine     *)
(* writes (mktcore/opportunities/engine.py), decisions a person takes in   *)
(* the inbox (api/v1.py), the nightly expiry job, and the discount offer   *)
(* that hangs on a card (mktcore/opportunities/offers.py) until a campaign *)
(* sends it (api/campaigns_api.py).                                        *)
(*                                                                         *)
(* A run of the engine reads the settings and generates its candidates     *)
(* without a lock and writes everything in one transaction later, whose    *)
(* first statement writes; a run holds the lease of its as_of date for as  *)
(* long (mktcore/db/leases.py; no run is modelled to outlive it).  The     *)
(* nightly job selects its cards first and writes them later: SQLite's     *)
(* transaction begins with the first write, so that a decision, which      *)
(* takes no write_lock, may be committed in between.  All other writers    *)
(* take the lock.  Time is counted in days, 0 stands for NULL, discounts,  *)
(* margins and floors in percent.                                          *)
(***************************************************************************)
EXTENDS Integers, FiniteSets

CONSTANTS
    Cards,          \* dedupe keys
    WithProduct,    \* the cards that name the product
    ReplacedBy,     \* the champion's reminder -> the challenger's for the same pair
    Discounted,     \* cards that may carry a discount (customer of the low tier)
    Ladders,        \* discount ladders an administrator may set, {} for none
    Bases,          \* margins and floors that may hold
    Ttl,            \* DEFAULT_TTL_DAYS
    Engines,        \* runs that may be under way at a time
    MaxDay          \* bound: days

ASSUME InboxAssumption ==
    /\ WithProduct \subseteq Cards
    /\ Discounted \subseteq Cards
    /\ DOMAIN ReplacedBy \subseteq Cards
    /\ \A c \in DOMAIN ReplacedBy : ReplacedBy[c] \notin DOMAIN ReplacedBy
    /\ \A l \in Ladders : l \subseteq Nat \ {0}
    /\ Bases \subseteq [margin : Nat, floor : Nat]
    /\ Ttl \in Nat
    /\ MaxDay \in Nat \ {0}

VARIABLES
    today,
    bought,       \* days of the order lines of this customer and product
    basis,        \* today's margin and floor
    ladder,       \* offer_ladder_bp
    engine,       \* per engine: what its run has read, or Idle
    status,       \* Opportunity.status, "none" before the card exists
    anchor,       \* as_of of last_seen_run_id
    expires,      \* expires_at
    lastAsOf,     \* as_of of the newest run
    nightly,      \* what the nightly job has selected and not yet written
    offer,        \* OpportunityOffer of a card: status, rung, margin and floor
    \* History:
    decided,      \* the rung a person approved last, Never after a rejection
    known,        \* per card: the purchases that have closed it
    reclosed,     \* cards closed again by one of those alone
    excused,      \* cards taken up again by hand, or by a file without them
    overtaken     \* cards decided on since the nightly job has selected

settingVars == <<basis, ladder>>
cardVars == <<status, anchor, expires, lastAsOf>>
offerVars == <<offer, decided>>
closingVars == <<known, reclosed, excused>>
nightVars == <<nightly, overtaken>>
vars == <<today, bought, settingVars, engine, cardVars, offerVars, closingVars, nightVars>>

Day == 1..MaxDay
Never == 0
NoRung == 0
NoBasis == [margin |-> 0, floor |-> 0]
Idle == [asOf |-> Never, basis |-> NoBasis, ladder |-> {}]
NoOffer == [status |-> "none", rung |-> NoRung, basis |-> NoBasis]
NoSelection == [by |-> "nobody", cards |-> {}]

OfferStates == {"none", "suggested", "approved", "rejected", "stale", "withdrawn"}
Human == {"accepted", "dismissed", "snoozed", "done"}
Live == {"open", "accepted", "snoozed"}

Init ==
    /\ today = 1
    /\ bought = {}
    /\ basis \in Bases /\ ladder \in Ladders
    /\ engine = [e \in Engines |-> Idle]
    /\ status = [c \in Cards |-> "none"]
    /\ anchor = [c \in Cards |-> Never]
    /\ expires = [c \in Cards |-> Never]
    /\ lastAsOf = Never
    /\ offer = [c \in Cards |-> NoOffer]
    /\ decided = [c \in Cards |-> NoRung]
    /\ known = [c \in Cards |-> {}]
    /\ reclosed = {}
    /\ excused = {}
    /\ nightly = NoSelection
    /\ overtaken = {}

-----------------------------------------------------------------------------
(* The steps of a run's transaction, each on the statuses `s` and anchors    *)
(* `a` the step before has left.                                             *)

(* Mistake: whatever is not open is opened again. *)
ReopenAllMistake(s, A) == [c \in Cards |-> IF c \in A THEN "open" ELSE s[c]]

(* _persist: a new card is open, one the engine had put away opens again. *)
Persisted(s, A) ==
    [c \in Cards |-> IF c \in A /\ s[c] \notin Human THEN "open" ELSE s[c]]

(* Mistake: the anchor is not looked at. *)
NoAnchorMistake(s, a, asOf, c) ==
    /\ s[c] \in Live /\ c \in WithProduct
    /\ \E d \in bought : d <= asOf

(* _close_fulfilled: the product was bought after the last run that wrote    *)
(* the card.                                                                 *)
Fulfilled(s, a, asOf, c) ==
    /\ s[c] \in Live /\ c \in WithProduct
    /\ \E d \in bought : a[c] < d /\ d <= asOf

(* Mistake: live cards are put away whatever a person decided. *)
PutAwayMistake(s, seen, R, c) == s[c] \in Live /\ c \notin seen

(* _supersede_missing: open cards the run did not see, and any live card     *)
(* whose replacement it generated.                                           *)
Missing(s, seen, R, c) ==
    /\ s[c] \in Live /\ c \notin seen
    /\ s[c] = "open" \/ c \in R

Superseded(s, S) == [c \in Cards |-> IF c \in S THEN "superseded" ELSE s[c]]
AnchoredAt(a, S, asOf) == [c \in Cards |-> IF c \in S THEN asOf ELSE a[c]]

(* _expire_overdue: the cards it selects, and what it writes. *)
Overdue(s, x, asOf) == {c \in Cards : s[c] \in Live /\ x[c] < asOf}
Expired(s, S) == [c \in Cards |-> IF c \in S THEN "expired" ELSE s[c]]

(* Closings by purchase, as history: the purchases after the anchor `a`. *)
Closing(S, a, asOf) ==
    LET window == [c \in Cards |-> {d \in bought : a[c] < d /\ d <= asOf}] IN
    /\ known' = [c \in Cards |-> IF c \in S THEN known[c] \cup window[c] ELSE known[c]]
    /\ reclosed' = reclosed \cup {c \in S : window[c] \subseteq known[c]}

-----------------------------------------------------------------------------
(* Discounts. *)

(* post_discount_margin_bp: the margin of the reduced price keeps the floor  *)
(* (what rounding does to it is OpportunityRun's).                           *)
Keeps(r, b) == (b.margin - r) * 100 >= b.floor * (100 - r)

(* pick_rung: the smallest rung the floor allows. *)
PickRung(l, b) ==
    IF \E r \in l : Keeps(r, b)
    THEN CHOOSE r \in l : Keeps(r, b) /\ \A q \in l : Keeps(q, b) => r <= q
    ELSE NoRung

(* Mistake: a status outside the column's vocabulary. *)
OtherStatusMistake(o, rung, b) ==
    IF rung = NoRung
    THEN IF o.status \in {"approved", "suggested", "stale"}
         THEN [o EXCEPT !.status = "removed"] ELSE o
    ELSE [status |-> "suggested", rung |-> rung, basis |-> b]

(* Mistake: an approval survives a changed proposal. *)
KeptApprovalMistake(o, rung, b) ==
    IF rung = NoRung
    THEN IF o.status \in {"approved", "suggested", "stale"}
         THEN [o EXCEPT !.status = "withdrawn"] ELSE o
    ELSE [status |-> IF o.status = "approved" THEN "approved" ELSE "suggested",
          rung |-> rung, basis |-> b]

(* Mistake: a rejection is forgotten by the next run. *)
ForgottenRejectionMistake(o, rung, b) ==
    IF rung = NoRung
    THEN IF o.status \in {"approved", "suggested", "stale"}
         THEN [o EXCEPT !.status = "withdrawn"] ELSE o
    ELSE IF o.status = "approved"
    THEN [status |-> IF o.rung = rung /\ o.basis = b THEN "approved" ELSE "stale",
          rung |-> rung, basis |-> b]
    ELSE [status |-> "suggested", rung |-> rung, basis |-> b]

(* upsert_offer: what a run with a proposal makes of the offer on a card it  *)
(* has written; NoRung when it proposes no discount.                         *)
Upserted(o, rung, b) ==
    IF rung = NoRung
    THEN IF o.status \in {"approved", "suggested", "stale"}
         THEN [o EXCEPT !.status = "withdrawn"] ELSE o
    ELSE IF o.status = "approved"
    THEN [status |-> IF o.rung = rung /\ o.basis = b THEN "approved" ELSE "stale",
          rung |-> rung, basis |-> b]
    ELSE IF o.status = "rejected" /\ o.rung = rung THEN o
    ELSE [status |-> "suggested", rung |-> rung, basis |-> b]

-----------------------------------------------------------------------------
(* write_lock is held from the nightly job's selection to its commit. *)
Unlocked == nightly = NoSelection

(* run_opportunity_engine up to its transaction.  as_of is the last day of   *)
(* the analysed file, which may be an old one.                               *)
EngineStart(e, asOf) ==
    /\ engine[e] = Idle
    /\ asOf \in 1..today
    /\ \A f \in Engines : engine[f].asOf # asOf     \* the lease of this date
    /\ engine' = [engine EXCEPT ![e] = [asOf |-> asOf, basis |-> basis, ladder |-> ladder]]
    /\ UNCHANGED <<today, bought, settingVars, cardVars, offerVars, closingVars, nightVars>>

(* Mistake: a card left out by the ceiling counts as missing. *)
CeilingMistake(A, O) == A

(* What a run takes as still valid: what it wrote and what its ceiling cut. *)
Seen(A, O) == A \cup O

(* Its transaction.  A: candidates written; O: valid ones above the ceiling; *)
(* R: champions dropped because their challenger was generated, which the    *)
(* filters may since have rejected; D: candidates of A with a discount.      *)
EngineCommit(e, A, O, R, D) ==
    LET run == engine[e]
        seen == Seen(A, O)
        opened == Persisted(status, A)
        anchored == AnchoredAt(anchor, A, run.asOf)
        fulfilled == {c \in Cards \ (A \cup O) : Fulfilled(opened, anchored, run.asOf, c)}
        closed == Superseded(opened, fulfilled)
        missing == {c \in Cards : Missing(closed, seen, R, c)}
        lasting == [c \in Cards |-> IF c \in A THEN run.asOf + Ttl ELSE expires[c]]
        put == Superseded(closed, missing)
        rung == PickRung(run.ladder, run.basis) IN
    /\ Unlocked
    /\ run # Idle
    /\ A \cap O = {} /\ (A \cup O) \cap R = {}
    /\ R \subseteq DOMAIN ReplacedBy
    /\ \A c \in DOMAIN ReplacedBy : ReplacedBy[c] \in A \cup O => c \notin A \cup O
    /\ D \subseteq A \cap Discounted
    /\ engine' = [engine EXCEPT ![e] = Idle]
    /\ status' = Expired(put, Overdue(put, lasting, run.asOf))
    /\ anchor' = AnchoredAt(anchored, fulfilled \cup missing, run.asOf)
    /\ expires' = lasting
    /\ lastAsOf' = run.asOf
    /\ offer' = [c \in Cards |-> IF c \notin A THEN offer[c]
                 ELSE Upserted(offer[c], IF c \in D THEN rung ELSE NoRung, run.basis)]
    /\ Closing(fulfilled, anchored, run.asOf)
    /\ excused' = excused \cup {c \in A : \E d \in known[c] : d > run.asOf}
    /\ UNCHANGED <<today, bought, settingVars, decided, nightVars>>

EngineStep(e) ==
    \/ \E asOf \in Day : EngineStart(e, asOf)
    \/ \E A, O \in SUBSET Cards, R \in SUBSET DOMAIN ReplacedBy, D \in SUBSET Discounted :
           EngineCommit(e, A, O, R, D)

(* The nightly job: expire_overdue_opportunities, then                       *)
(* close_fulfilled_opportunities, both with today's date and each under the  *)
(* lock: it selects cards (a selection of none writes nothing), ...          *)
Select(by, S) ==
    /\ Unlocked /\ S # {}
    /\ nightly' = [by |-> by, cards |-> S]
    /\ overtaken' = {}
    /\ UNCHANGED <<today, bought, settingVars, engine, cardVars, offerVars, closingVars>>

SelectOverdue == Select("expiry", Overdue(status, expires, today))

SelectFulfilled ==
    Select("purchase", {c \in Cards : Fulfilled(status, anchor, today, c)})

Release == nightly' = NoSelection /\ overtaken' = {}

(* ... and writes them, whatever has become of them since.                   *)
ExpireOverdue ==
    /\ nightly.by = "expiry"
    /\ status' = Expired(status, nightly.cards)
    /\ Release
    /\ UNCHANGED <<today, bought, settingVars, engine, anchor, expires, lastAsOf,
                   offerVars, closingVars>>

CloseFulfilled ==
    /\ nightly.by = "purchase"
    /\ status' = Superseded(status, nightly.cards)
    /\ anchor' = AnchoredAt(anchor, nightly.cards, lastAsOf)
    /\ Closing(nightly.cards, anchor, today)
    /\ Release
    /\ UNCHANGED <<today, bought, settingVars, engine, expires, lastAsOf, offerVars, excused>>

(* act_on_opportunity: from any status to any of these, without the lock.    *)
(* (A decision for the status the row had when it was read writes nothing.)  *)
Act(c, to) ==
    /\ status[c] # "none"
    /\ status' = [status EXCEPT ![c] = to]
    /\ excused' = IF status[c] \notin Live /\ to \in Live THEN excused \cup {c} ELSE excused
    /\ overtaken' = IF Unlocked THEN {} ELSE overtaken \cup {c}
    /\ UNCHANGED <<today, bought, settingVars, engine, anchor, expires, lastAsOf,
                   offerVars, known, reclosed, nightly>>

Decidable(c) == offer[c].status \notin {"none", "withdrawn"}

(* Mistake: the floor of the suggestion is asked, not today's. *)
YesterdaysFloorMistake(c) == offer[c].rung \in ladder /\ Keeps(offer[c].rung, offer[c].basis)

(* decide_offer computes the margin again before it approves. *)
Approvable(c) == offer[c].rung \in ladder /\ Keeps(offer[c].rung, basis)

ApproveOffer(c) ==
    /\ Unlocked /\ Decidable(c) /\ Approvable(c)
    /\ offer' = [offer EXCEPT ![c].status = "approved", ![c].basis = basis]
    /\ decided' = [decided EXCEPT ![c] = offer[c].rung]
    /\ UNCHANGED <<today, bought, settingVars, engine, cardVars, closingVars, nightVars>>

(* _refuse: the failed approval marks the offer, but not one rejected. *)
RefuseApproval(c) ==
    /\ Unlocked /\ Decidable(c) /\ ~Approvable(c)
    /\ offer' = [offer EXCEPT ![c].status = IF @ = "rejected" THEN @ ELSE "stale"]
    /\ UNCHANGED <<today, bought, settingVars, engine, cardVars, decided, closingVars, nightVars>>

RejectOffer(c) ==
    /\ Unlocked /\ Decidable(c)
    /\ offer' = [offer EXCEPT ![c].status = "rejected"]
    /\ decided' = [decided EXCEPT ![c] = NoRung]
    /\ UNCHANGED <<today, bought, settingVars, engine, cardVars, closingVars, nightVars>>

(* _send_drafts and the export: a campaign that holds the card puts an       *)
(* approved discount into the text, whatever has become of the card since.   *)
Sendable(c) == offer[c].status = "approved"

(* An administrator sets ladder or floor, or the costs change. *)
SetPolicy(l, b) ==
    /\ Unlocked
    /\ <<l, b>> # <<ladder, basis>>
    /\ ladder' = l /\ basis' = b
    /\ UNCHANGED <<today, bought, engine, cardVars, offerVars, closingVars, nightVars>>

(* An import brings an order line of today or of an earlier day. *)
Purchase(d) ==
    /\ Unlocked
    /\ d \in 1..today /\ d \notin bought
    /\ bought' = bought \cup {d}
    /\ UNCHANGED <<today, settingVars, engine, cardVars, offerVars, closingVars, nightVars>>

NextDay ==
    /\ today < MaxDay
    /\ today' = today + 1
    /\ UNCHANGED <<bought, settingVars, engine, cardVars, offerVars, closingVars, nightVars>>

Next ==
    \/ \E e \in Engines : EngineStep(e)
    \/ SelectOverdue \/ ExpireOverdue
    \/ SelectFulfilled \/ CloseFulfilled
    \/ \E c \in Cards : \/ \E to \in Human \cup {"open"} : Act(c, to)
                        \/ ApproveOffer(c) \/ RefuseApproval(c) \/ RejectOffer(c)
    \/ \E l \in Ladders, b \in Bases : SetPolicy(l, b)
    \/ \E d \in Day : Purchase(d)
    \/ NextDay

Spec == Init /\ [][Next]_vars

-----------------------------------------------------------------------------
Basis == [margin : Nat, floor : Nat]

(* Types of the cards, the offers and the history. *)
InboxTypeOK ==
    /\ today \in Day
    /\ bought \subseteq Day
    /\ basis \in Bases /\ ladder \in Ladders
    /\ engine \in [Engines -> [asOf : 0..MaxDay, basis : Basis, ladder : SUBSET Nat]]
    /\ status \in [Cards -> {"none", "open", "expired", "superseded"} \cup Human]
    /\ anchor \in [Cards -> 0..MaxDay]
    /\ expires \in [Cards -> Nat]
    /\ lastAsOf \in 0..MaxDay
    /\ offer \in [Cards -> [status : OfferStates, rung : Nat, basis : Basis]]
    /\ decided \in [Cards -> Nat]
    /\ known \in [Cards -> SUBSET Day]
    /\ reclosed \subseteq Cards /\ excused \subseteq Cards
    /\ nightly \in [by : {"nobody", "expiry", "purchase"}, cards : SUBSET Cards]
    /\ overtaken \subseteq Cards

(* The step is the end of a run that wrote card c or cut it by its ceiling,   *)
(* or generated its replacement; a decision about card c; or the nightly     *)
(* job's writing.                                                            *)
FindsValid(c) ==
    \E e \in Engines, A, O \in SUBSET Cards, R \in SUBSET DOMAIN ReplacedBy, D \in SUBSET Discounted :
        c \in A \cup O /\ EngineCommit(e, A, O, R, D)
EndsRun(c, replaced) ==
    \E e \in Engines, A, O \in SUBSET Cards, R \in SUBSET DOMAIN ReplacedBy, D \in SUBSET Discounted :
        (c \in R) = replaced /\ EngineCommit(e, A, O, R, D)
Replaces(c) == EndsRun(c, TRUE) /\ ~EndsRun(c, FALSE)
ByHand(c) == \E to \in Human \cup {"open"} : Act(c, to)
WritesTonight == ~Unlocked /\ Unlocked'

(* What a person has finished with stays so: a card dismissed or done is     *)
(* changed by hand only, however often runs, among them runs that had read   *)
(* their data before the decision, generate it again, miss it, or find it    *)
(* bought or overdue.  The nightly job may put it away only if the decision  *)
(* fell between its selecting and its writing of that one night.             *)
DecisionStands ==
    [][\A c \in Cards :
          status[c] \in {"dismissed", "done"} /\ status'[c] # status[c] =>
              ByHand(c) \/ (WritesTonight /\ c \in overtaken)]_vars

(* Work under way is not cancelled by a run that merely does not see it: an  *)
(* accepted or snoozed card is put away only when the product was bought     *)
(* after the card was last written, or when its replacement took its place;  *)
(* it expires only past its date; and it is never opened as if it were new.  *)
AcceptedWorkKept ==
    [][\A c \in Cards : status[c] \in {"accepted", "snoozed"} /\ ~ByHand(c) =>
          /\ status'[c] \in {status[c], "superseded", "expired"}
          /\ status'[c] = "superseded" =>
                \/ c \in WithProduct /\ \E d \in bought : d > anchor[c]
                \/ Replaces(c)
          /\ status'[c] = "expired" => expires[c] < today]_vars

(* The ceiling of the inbox does not make cards flicker: a card whose        *)
(* candidate was valid, written or cut by the ceiling, is not put away by    *)
(* the same run.                                                             *)
ValidCardsStay ==
    [][\A c \in Cards :
          status'[c] = "superseded" /\ status[c] # "superseded" => ~FindsValid(c)]_vars

(* A card put away because its product was bought is not put away again for  *)
(* the same purchase when it becomes due again, by a run or by the nightly   *)
(* job; unless it was taken up again by hand, or by an older file that did   *)
(* not hold the purchase.                                                    *)
PurchaseClosesOnce == reclosed \subseteq excused

(* The discount a customer would read is the one a person has approved last, *)
(* not rejected since, and not changed by a run in between.                  *)
GivenWasApproved == \A c \in Cards : Sendable(c) => offer[c].rung = decided[c]

(* An approval has held against the floor of its own day, or of a later run  *)
(* that confirmed it: never against the one the suggestion was made with.    *)
ApprovedAboveItsFloor ==
    \A c \in Cards : Sendable(c) => Keeps(offer[c].rung, offer[c].basis)

(* A rejection is respected: no run proposes the rejected rung on top of it. *)
RejectionStands ==
    [][\A c \in Cards :
          offer[c].status = "rejected" /\ offer'[c].status \in {"suggested", "stale"}
              => offer'[c].rung # offer[c].rung]_vars

(* A card is closed once for one purchase, and a discount a campaign may      *)
(* send is the approved one, above the floor it was approved against.        *)
InboxSound == PurchaseClosesOnce /\ GivenWasApproved /\ ApprovedAboveItsFloor

(* People decide: what they dismissed, did, took up or rejected no run       *)
(* undoes, also one that had read its data before the decision, and no       *)
(* nightly job but the one the decision overtook.                            *)
PeopleDecide == DecisionStands /\ AcceptedWorkKept /\ RejectionStands

-----------------------------------------------------------------------------
(* What makes the above inductive.                                           *)

(* A run reads a file of the past. *)
FilesOfThePast == \A e \in Engines : engine[e].asOf <= today

(* A live card, unless excused, was last written after every purchase that   *)
(* has closed it.                                                            *)
AnchoredPastClosings ==
    \A c \in Cards \ excused : status[c] \in Live => \A d \in known[c] : d <= anchor[c]

(* What the nightly job has selected was live when it was, and is still open *)
(* to the job: dismissed or done since then, it is overtaken; and a purchase *)
(* it closes a card for is newer than any that has closed it.                *)
SelectedStands ==
    /\ \A c \in nightly.cards : status[c] \in {"dismissed", "done"} => c \in overtaken
    /\ nightly.by = "expiry" => \A c \in nightly.cards : expires[c] < today
    /\ nightly.by = "purchase" =>
          \A c \in nightly.cards :
              /\ c \in WithProduct
              /\ \E d \in bought : anchor[c] < d /\ d <= today
              /\ c \notin excused => \A d \in known[c] : d <= anchor[c]

(* The inductive invariant. *)
InboxInv ==
    /\ InboxTypeOK
    /\ FilesOfThePast
    /\ AnchoredPastClosings
    /\ PurchaseClosesOnce
    /\ GivenWasApproved
    /\ ApprovedAboveItsFloor
    /\ SelectedStands

-----------------------------------------------------------------------------
(* Statements of the code's comments that the code does not meet.            *)

(* "The next run can say stale instead of silently sending a discount that   *)
(* has fallen below the floor": once a run that had read the floor of today  *)
(* is done, no discount that breaks it is sendable.                          *)
FloorReachesSending ==
    [][\A c \in Cards, e \in Engines :
          engine[e] # Idle /\ engine'[e] = Idle /\ engine[e].basis = basis
          /\ Sendable(c)' => Keeps(offer'[c].rung, basis)]_vars

(* "A human status is not overwritten": statuses a person has set, which the  *)
(* engine has no right to overwrite.                                         *)
NoDecisionOverwritten ==
    [][\A c \in Cards :
          status[c] \in {"dismissed", "done"} /\ status'[c] # status[c] => ByHand(c)]_vars

(* "A card closed and opened again later is not closed by its old purchase." *)
OldPurchaseClosesOnce == reclosed = {}
=============================================================================
