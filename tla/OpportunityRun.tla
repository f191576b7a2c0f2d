--------------------------- MODULE OpportunityRun ---------------------------
(***************************************************************************)
(* What one run of the opportunity engine makes of its candidates, up to   *)
(* its transaction: the generators (mktcore/opportunities/generators.py),  *)
(* what the run reads of the settings and of other registers (engine.py),  *)
(* the chain of filters, which takes the candidates by falling value       *)
(* (filters.py), and the ceiling.  What the transaction does with the      *)
(* candidates that are left is module OpportunityInbox.                    *)
(*                                                                         *)
(* Shares and margins are in basis points.  Unknown stands for None.       *)
(***************************************************************************)
EXTENDS Integers, Sequences, FiniteSets

CONSTANTS
    Unknown, NoProduct,
    Plans,         \* action lists and expansion gaps an analysis may come to
    Cadences,      \* rows of personal_cadence_table
    Whales,        \* customers the whale model has scored
    Worlds,        \* settings and registers a run may find
    Failures,      \* sets of reads that may fail together, see Reads
    OpenCap,       \* per_customer_open_cap
    MaxMoney, MaxRapport, MaxReminders   \* MAX_PERSISTED_PER_RUN, WHALE_MAX_PER_RUN, REPLENISH_MAX_PER_RUN

VARIABLES
    runPhase,      \* "read", "filter", "done"
    context,       \* what the filters know
    todo,          \* candidates not yet filtered
    notes,         \* filtered candidate -> outcomes of its filters, in order
    slots,         \* (customer, bucket) -> candidates counted against the cap
    taken,         \* operator capacity used, per bucket
    kept           \* candidates the transaction will write

runVars == <<runPhase, context, todo, notes, slots, taken, kept>>

(* A due table and the analysis group by customer and product, so that each  *)
(* has one reminder of a pair; the settings keep a rung to half the price.   *)
MaxRung == 5000
ASSUME RunAssumption ==
    /\ OpenCap \in Nat
    /\ Unknown \notin Int
    /\ \A plan \in Plans : \A a, b \in plan.actions :
          a.kind = "cycle" /\ b.kind = "cycle" /\ a.customer = b.customer /\ a.product = b.product
              => a = b
    /\ \A rows \in Cadences : \A r, s \in rows :
          r.customer = s.customer /\ r.product = s.product => r = s
    /\ \A w \in Worlds :
          /\ w.capacity \in Nat \cup {Unknown} /\ w.floor \in Int \cup {Unknown}
          /\ w.ladder \subseteq 1..MaxRung
          /\ \A p \in DOMAIN w.margins : w.margins[p] \in Int
          /\ \A c \in DOMAIN w.basket : w.basket[c] \in Int

BP == 10000
WhaleThreshold == 6000
Buckets == {"money", "relationship"}

(* A candidate: of whom, of what, from which generator, at what value.       *)
Candidate(who, what, kind, generator, value) ==
    [customer |-> who, product |-> what, kind |-> kind, generator |-> generator, value |-> value]

IsRapport(c) == c.kind = "rapport"
CrossSell == {"crossSell", "pattern", "expansion"}
Bucket(c) == IF IsRapport(c) THEN "relationship" ELSE "money"

-----------------------------------------------------------------------------
(* The generators. *)

FromActionList(plan) ==
    {Candidate(a.customer, a.product, a.kind, "action_list", a.value) : a \in plan.actions}

(* What peers spend on a category is discounted by how sure it is. *)
ConfidenceWeight(level) ==
    IF level = "high" THEN 50 ELSE IF level = "medium" THEN 30 ELSE 15

FromExpansionGap(plan) ==
    {Candidate(g.customer, g.category, "expansion", "expansion_gap",
               (g.value * ConfidenceWeight(g.confidence)) \div 100) : g \in plan.gaps}

(* The `limit` members of C that are worth most; ties fall either way.       *)
Best(C, limit, Worth(_)) ==
    {K \in SUBSET C : /\ Cardinality(K) = IF Cardinality(C) < limit THEN Cardinality(C) ELSE limit
                      /\ \A k \in K, c \in C \ K : Worth(c) <= Worth(k)}

Probability(w) == w.probability
Value(c) == c.value

(* The customers the promoted model is surest of; one card each. *)
FromWhales(rows) ==
    {{Candidate(w.customer, NoProduct, "rapport", "future_whale", 0) : w \in K} :
        K \in Best({w \in rows : w.probability >= WhaleThreshold}, MaxRapport, Probability)}

(* The pair is due: no more than a fifth of its interval, or three days, is  *)
(* left; its due table knows a chance above zero, and its spend is known.    *)
Due(r) ==
    LET near == IF 2 * r.interval > 30 THEN 2 * r.interval ELSE 30 IN
    /\ r.probability # Unknown /\ r.probability # 0 /\ r.spend # Unknown
    /\ 10 * r.elapsed >= 10 * r.interval - near

FromCadence(rows) ==
    {Candidate(r.customer, r.product, "cycle", "replenish_personal",
               (r.spend * r.probability) \div BP) : r \in {s \in rows : Due(s)}}

(* Mistake: the challenger is put beside the champion. *)
BothRemindersMistake(cards, challengers) == cards \cup challengers

(* replace_champion_cycle: the common reminder makes way for the personal    *)
(* one of the same pair.                                                     *)
ReplaceChampion(cards, challengers) ==
    {c \in cards : ~(/\ c.generator = "action_list" /\ c.kind = "cycle"
                     /\ \E d \in challengers : d.customer = c.customer /\ d.product = c.product)}
        \cup challengers

-----------------------------------------------------------------------------
(* What a run reads. Each read that fails leaves the empty value, and the    *)
(* run goes on.                                                              *)
Reads == {"outbox", "stamps", "optout", "policy", "offers", "tiers", "basket", "uplift", "states"}

Read(failed, name, found, empty) == IF name \in failed THEN empty ELSE found

(* full_price_tier. *)
FullPriceTier(share) ==
    IF share = Unknown \/ share.lines < 3 THEN Unknown
    ELSE IF share.bp >= 9000 THEN "high" ELSE IF share.bp <= 5000 THEN "low" ELSE "mid"

(* A lookup that finds nothing gives Unknown. *)
Lookup(f, x) == IF x \in DOMAIN f THEN f[x] ELSE Unknown
Nothing == [x \in {} |-> Unknown]

(* Customers contacted in the last days: by the outbox, by campaigns.        *)
Recent(w, failed) ==
    Read(failed, "outbox", w.outbox, {}) \cup Read(failed, "stamps", w.stamps, {})

(* build_context with the reads of _run_engine_locked before it. *)
Context(w, failed) ==
    LET ladder == Read(failed, "offers", w.ladder, {})
        table == Read(failed, "uplift", w.uplift, Unknown) IN
    [denied     |-> Read(failed, "optout", w.denied, {}),
     recent     |-> Recent(w, failed),
     hasHistory |-> "outbox" \notin failed,
     hasConsent |-> FALSE, hasInventory |-> FALSE, outOfStock |-> {}, rules |-> {},
     hasCost    |-> w.fileCosts \/ Read(failed, "policy", w.margins, Nothing) # Nothing,
     floor      |-> Read(failed, "policy", w.floor, Unknown),
     margins    |-> Read(failed, "policy", w.margins, Nothing),
     capacity   |-> Read(failed, "policy", w.capacity, Unknown),
     ladder     |-> ladder,
     shares     |-> IF ladder = {} THEN Nothing ELSE Read(failed, "tiers", w.shares, Nothing),
     basket     |-> IF ladder = {} THEN Nothing ELSE Read(failed, "basket", w.basket, Nothing),
     uplift     |-> table,
     state      |-> IF table = Unknown THEN Nothing ELSE Read(failed, "states", w.state, Nothing)]

-----------------------------------------------------------------------------
(* The filters that look at one candidate alone. *)

Verdict(blocks, skips) == IF blocks THEN "block" ELSE IF skips THEN "skip" ELSE "pass"

Eligibility(c) == Verdict(~IsRapport(c) /\ c.value < 1, FALSE)
Consent(c, x) == Verdict(c.customer \in x.denied, ~x.hasConsent)
Fatigue(c, x) == Verdict(c.customer \in x.recent, ~x.hasHistory)
Compatibility(c, x) == Verdict(<<c.customer, c.product>> \in x.rules, x.rules = {})
Inventory(c, x) == Verdict(x.hasInventory /\ c.product \in x.outOfStock, ~x.hasInventory)

MarginFloor(c, x) ==
    LET margin == Lookup(x.margins, c.product)
        known == x.hasCost /\ x.floor # Unknown /\ margin # Unknown IN
    Verdict(known /\ margin < x.floor, ~known)

(* a / b to the nearest whole number, halves to the even one. *)
Rounded(a, b) ==
    LET q == a \div b
        twice == 2 * (a % b) IN
    IF twice > b \/ (twice = b /\ q % 2 = 1) THEN q + 1 ELSE q

(* Mistake: the discount is subtracted from the margin. *)
SubtractedMistake(margin, discount) == margin - discount

(* post_discount_margin_bp: the margin of the reduced price. *)
PostDiscountMargin(margin, discount) == Rounded((margin - discount) * BP, BP - discount)

(* pick_rung: the smallest rung that keeps the floor, 0 if none does. *)
SmallestRung(ladder, margin, floor) ==
    LET fits == {r \in ladder : r < BP /\ PostDiscountMargin(margin, r) >= floor} IN
    IF fits = {} THEN 0 ELSE CHOOSE r \in fits : \A s \in fits : r <= s

(* _offer_margin_bp: of the product, or of all the customer buys. *)
OfferMargin(c, x) ==
    IF c.product # NoProduct THEN Lookup(x.margins, c.product) ELSE Lookup(x.basket, c.customer)

Tier(c, x) == FullPriceTier(Lookup(x.shares, c.customer))

(* A discount is weighed for those who buy at a discount, if it can be. *)
Weighed(c, x) ==
    /\ x.ladder # {} /\ ~IsRapport(c) /\ Tier(c, x) = "low"
    /\ x.hasCost /\ x.floor # Unknown /\ OfferMargin(c, x) # Unknown

(* filter_offer_policy never blocks. *)
OfferPolicy(c, x) ==
    Verdict(FALSE, \/ x.ladder = {}
                   \/ ~IsRapport(c) /\ Tier(c, x) = Unknown
                   \/ ~IsRapport(c) /\ Tier(c, x) = "low" /\ ~Weighed(c, x))

Discount(c, x) == IF Weighed(c, x) THEN SmallestRung(x.ladder, OfferMargin(c, x), x.floor) ELSE 0

(* filter_uplift: only what has been measured to be of no use is left out. *)
Uplift(c, x) ==
    LET cell == IF x.uplift = Unknown THEN "none"
                ELSE Lookup(x.uplift, <<c.kind, Lookup(x.state, c.customer)>>) IN
    Verdict(cell = "useless", cell \in {"none", Unknown})

(* FILTER_CHAIN without the two that count. *)
ChainNotes(c, x) ==
    <<Eligibility(c), Consent(c, x), Fatigue(c, x), Compatibility(c, x), Inventory(c, x),
      MarginFloor(c, x), OfferPolicy(c, x), Uplift(c, x)>>

ConflictAt == 9
CapacityAt == 10

BlockedIn(outcomes) == {i \in DOMAIN outcomes : outcomes[i] = "block"}
Filtered == DOMAIN notes
Accepted == {c \in Filtered : BlockedIn(notes[c]) = {}}

-----------------------------------------------------------------------------
RunInit ==
    /\ runPhase = "read"
    /\ context = Unknown
    /\ todo = {} /\ notes = Nothing /\ kept = {}
    /\ slots = Nothing
    /\ taken = [b \in Buckets |-> 0]

(* _run_engine_locked up to its filters. Cards of the whale model and of the *)
(* personal cadence exist only while a run of theirs is promoted.            *)
Generate(plan, cadence, whales, world, failed) ==
    LET due == FromCadence(cadence) IN
    /\ \E rapport \in FromWhales(whales), challengers \in SUBSET due :
           /\ Cardinality(challengers) <= MaxReminders
           /\ challengers = due \/ Cardinality(challengers) = MaxReminders
           /\ todo' = ReplaceChampion(
                  FromActionList(plan) \cup FromExpansionGap(plan) \cup rapport, challengers)
    /\ context' = Context(world, failed)
    /\ slots' = [k \in {<<c.customer, Bucket(c)>> : c \in todo'} |-> {}]
    /\ runPhase' = "filter"
    /\ UNCHANGED <<notes, taken, kept>>

(* apply_filters takes the candidates by falling value. *)
Foremost(c) == c \in todo /\ \A d \in todo : d.value <= c.value

Key(c) == <<c.customer, Bucket(c)>>
SlotCap(c) == IF IsRapport(c) THEN 1 ELSE OpenCap
Full(c) == Cardinality(slots[Key(c)]) >= SlotCap(c)

(* Mistake: whoever holds a slot gives way, rejected since or not. *)
AnyHolderMistake(c) ==
    IF c.kind # "cycle" THEN {} ELSE {h \in slots[Key(c)] : h.kind \in CrossSell}

(* Those who would give way to a reminder: cross-selling that is still in.   *)
Yielding(c) ==
    IF c.kind # "cycle" THEN {}
    ELSE {h \in slots[Key(c)] : h.kind \in CrossSell /\ BlockedIn(notes[h]) = {}}

(* filter_operator_capacity, with `u` of the capacity used. *)
Capacity(c, u) ==
    IF context.capacity = Unknown THEN "skip"
    ELSE IF u[Bucket(c)] >= context.capacity THEN "block" ELSE "pass"

CountTaken(c, u) ==
    IF Capacity(c, u) = "pass" THEN [u EXCEPT ![Bucket(c)] = @ + 1] ELSE u

(* The note of c is written. *)
Noted(f, c, outcomes) == [d \in DOMAIN f \cup {c} |-> IF d = c THEN outcomes ELSE f[d]]

Outcomes(c, last) == ChainNotes(c, context) \o last

FilterRest(c) == todo' = todo \ {c} /\ UNCHANGED <<runPhase, context, kept>>

(* The first filter that blocks ends the chain. *)
Stop(c) ==
    LET blocks == BlockedIn(ChainNotes(c, context)) IN
    /\ blocks # {}
    /\ LET first == CHOOSE i \in blocks : \A j \in blocks : i <= j IN
       notes' = Noted(notes, c, SubSeq(ChainNotes(c, context), 1, first))
    /\ UNCHANGED <<slots, taken>>

Clear(c) == BlockedIn(ChainNotes(c, context)) = {}

(* filter_conflict, and then the capacity: a free slot is taken. *)
TakeSlot(c) ==
    /\ Clear(c) /\ ~Full(c)
    /\ notes' = Noted(notes, c, Outcomes(c, <<"pass", Capacity(c, taken)>>))
    /\ slots' = [slots EXCEPT ![Key(c)] = @ \cup {c}]
    /\ taken' = CountTaken(c, taken)

(* Mistake: the capacity of the one who gives way is not given back. *)
KeptCapacityMistake(h) == taken

(* _yield_slot gives the capacity back that the loser had taken. *)
GivenBack(h) ==
    IF notes[h][CapacityAt] = "pass" THEN [taken EXCEPT !["money"] = @ - 1] ELSE taken

(* A reminder takes the slot of the cheapest cross-selling. *)
TakeOver(c, h) ==
    LET free == GivenBack(h) IN
    /\ Clear(c) /\ Full(c)
    /\ h \in Yielding(c) /\ \A g \in Yielding(c) : h.value <= g.value
    /\ notes' = Noted([notes EXCEPT ![h][ConflictAt] = "block"],
                       c, Outcomes(c, <<"pass", Capacity(c, free)>>))
    /\ slots' = [slots EXCEPT ![Key(c)] = (@ \ {h}) \cup {c}]
    /\ taken' = CountTaken(c, free)

NoSlot(c) ==
    /\ Clear(c) /\ Full(c) /\ Yielding(c) = {}
    /\ notes' = Noted(notes, c, Outcomes(c, <<"block">>))
    /\ UNCHANGED <<slots, taken>>

Filter(c) ==
    /\ runPhase = "filter" /\ Foremost(c) /\ FilterRest(c)
    /\ \/ Stop(c) \/ TakeSlot(c) \/ NoSlot(c)
       \/ \E h \in slots[Key(c)] : TakeOver(c, h)

(* The ceiling, for money and relationship apart: the most valuable stay.    *)
Cut ==
    /\ runPhase = "filter" /\ todo = {}
    /\ \E money \in Best({c \in Accepted : ~IsRapport(c)}, MaxMoney, Value),
          rapport \in Best({c \in Accepted : IsRapport(c)}, MaxRapport, Value) :
              kept' = money \cup rapport
    /\ runPhase' = "done"
    /\ UNCHANGED <<context, todo, notes, slots, taken>>

RunNext ==
    \/ /\ runPhase = "read"
       /\ \E plan \in Plans, cadence \in Cadences, whales \in Whales, world \in Worlds,
             failed \in Failures : Generate(plan, cadence, whales, world, failed)
    \/ \E c \in todo : Filter(c)
    \/ Cut

RunSpec == RunInit /\ [][RunNext]_runVars

-----------------------------------------------------------------------------
(* An accepted candidate has an outcome of each of the ten filters, a        *)
(* rejected one exactly one that blocks ("every filter leaves a note").      *)
NotesComplete ==
    \A c \in Filtered : IF c \in Accepted THEN Len(notes[c]) = CapacityAt
                        ELSE Cardinality(BlockedIn(notes[c])) = 1

(* No customer has more cards of a bucket than its cap.                      *)
SlotsKept == \A c \in Filtered : Cardinality({d \in Accepted : Key(d) = Key(c)}) <= SlotCap(c)

(* The capacity used is the number of cards accepted, no call is lost to a   *)
(* card that was pushed out again, and it goes to the most valuable; only a  *)
(* reminder, in the place of another card, comes in later.                   *)
CapacityKept ==
    runPhase # "read" /\ context.capacity # Unknown =>
        \A b \in Buckets :
            LET inside == {c \in Accepted : Bucket(c) = b} IN
            /\ taken[b] = Cardinality(inside) /\ taken[b] <= context.capacity
            /\ \A c \in Filtered, d \in inside :
                  Bucket(c) = b /\ CapacityAt \in BlockedIn(notes[c])
                      => taken[b] = context.capacity /\ (c.value <= d.value \/ d.kind = "cycle")

(* apply_filters as a whole: outcomes, caps and capacity.                    *)
FilteringSound == NotesComplete /\ SlotsKept /\ CapacityKept

(* "A reminder goes before cross-selling": no reminder is turned away for    *)
(* its customer's cap while cross-selling of the customer is accepted, and   *)
(* a card that gave way gave way to a reminder that got in.                  *)
RemindersFirst ==
    \A c \in Filtered : ConflictAt \in BlockedIn(notes[c]) =>
        /\ c.kind = "cycle" =>
              ~\E d \in Accepted : d.customer = c.customer /\ d.kind \in CrossSell
        /\ Len(notes[c]) = CapacityAt =>
              \E d \in Accepted : d.customer = c.customer /\ d.kind = "cycle"

(* Champion or challenger: never two reminders of one customer and product,  *)
(* whichever filters the two would pass.                                     *)
OneReminderPerPair ==
    \A c, d \in todo \cup Filtered :
        c.kind = "cycle" /\ d.kind = "cycle" /\ c.customer = d.customer /\ c.product = d.product
            => c = d

(* One run of the engine: its filters, their priorities, and its reminders.   *)
RunSound == FilteringSound /\ RemindersFirst /\ OneReminderPerPair

(* The discount proposed with a card that is kept leaves the floor, to half  *)
(* a basis point, and no smaller rung leaves more than half a basis point    *)
(* less; none is proposed only if every rung falls short.  Nobody who buys   *)
(* at full price is proposed one.                                            *)
DiscountKeepsFloor ==
    \A c \in kept :
        LET d == Discount(c, context)
            cost == BP - OfferMargin(c, context)
            \* the margin of the price 1 - r, less floor - 1/2, times 2 BP (1 - r)
            Spare(r) == 2 * BP * (BP - r - cost) - (2 * context.floor - 1) * (BP - r) IN
        /\ Weighed(c, context) =>
              /\ d # 0 => d \in context.ladder /\ Spare(d) >= 0
              /\ \A r \in context.ladder : Spare(r) > 0 => d # 0 /\ d <= r
        /\ d > 0 => Tier(c, context) = "low" /\ ~IsRapport(c)
=============================================================================
