----------------------------- MODULE UpliftTable -----------------------------
(* What the finished campaigns teach, as functions of their observations: the
   table of measured effects with its gates and fallbacks, the verdict of one
   campaign's report, the plan of the next experiments, and the readiness of the
   data for learning offers.  An observation is one measured member:
   [campaign, customer, kind, state, offer, arm, converted].
   Rates are fractions of counts; comparisons with a confidence limit are made in
   whole numbers, with the square of 1.95996 as 3841 thousandths.            *)
EXTENDS Integers, FiniteSets, FiniteSetsExt

CONSTANTS
    MinCell,       \* the observations an arm of a cell needs (a setting, 5 at least)
    ShrinkageK,    \* the size at which a cell and its parent weigh the same
    MinArm,        \* the members an arm of a report needs
    Target,        \* the effect an experiment should see, in percent, as a query may ask
    Holdout,       \* the percent held back as its control group, as a query may ask
    UnknownState   \* the mark of a customer without a lifecycle state

ASSUME UpliftAssumption ==
    /\ MinCell \in Nat \ {0} /\ ShrinkageK \in Nat \ {0} /\ MinArm \in Nat \ {0}
    /\ Target \in 1..99 /\ Holdout \in 5..50

(* The counts of a group: members and buyers of either arm.                  *)
Counts(group) ==
    LET n(arm) == Cardinality({o \in group : o.arm = arm})
        c(arm) == Cardinality({o \in group : o.arm = arm /\ o.converted}) IN
    [nt |-> n("treatment"), nc |-> n("control"), ct |-> c("treatment"), cc |-> c("control")]
SmallerArm(k) == IF k.nt < k.nc THEN k.nt ELSE k.nc
Enough(k) == k.nt >= MinCell /\ k.nc >= MinCell

-----------------------------------------------------------------------------
(* Confidence limits of the difference of two rates (Wald).  The square of the
   normal quantile is no ratio of small counts: a limit is exactly nought only
   where the difference and the interval's width both are.                   *)

Lift(k) == k.ct * k.nc - k.cc * k.nt
Spread(k) == k.ct * (k.nt - k.ct) * k.nc * k.nc * k.nc + k.cc * (k.nc - k.cc) * k.nt * k.nt * k.nt
Beyond(k, strictly) ==
    LET signal == 1000 * Lift(k) * Lift(k) * k.nt * k.nc IN
    signal > 3841 * Spread(k) \/ (~strictly /\ signal = 0 /\ Spread(k) = 0)
LowAboveZero(k) == Lift(k) > 0 /\ Beyond(k, TRUE)
HighBelowZero(k) == Lift(k) < 0 /\ Beyond(k, TRUE)
HighNotAboveZero(k) == Lift(k) <= 0 /\ Beyond(k, FALSE)

-----------------------------------------------------------------------------
(* The table.  An effect is a fraction [num, den].                           *)

Raw(k) == [num |-> Lift(k), den |-> k.nt * k.nc]
Zero == [num |-> 0, den |-> 1]
Shrink(raw, parent, n) ==
    [num |-> n * raw.num * parent.den + ShrinkageK * parent.num * raw.den,
     den |-> (n + ShrinkageK) * raw.den * parent.den]

OfKind(obs, kind) == {o \in obs : o.kind = kind}
OfCell(obs, kind, state) == {o \in obs : o.kind = kind /\ o.state = state}

(* The total and a kind speak only when both their arms are large enough.     *)
HasGlobal(obs) == Enough(Counts(obs))
HasKind(obs, kind) == Enough(Counts(OfKind(obs, kind)))
GlobalEffect(obs) == IF HasGlobal(obs) THEN Raw(Counts(obs)) ELSE Zero
KindEffect(obs, kind) ==
    LET k == Counts(OfKind(obs, kind)) IN Shrink(Raw(k), GlobalEffect(obs), SmallerArm(k))
Parent(obs, kind) == IF HasKind(obs, kind) THEN KindEffect(obs, kind) ELSE GlobalEffect(obs)

(* The basis an answer rests on: the cell itself, else its kind, else the total. *)
Basis(obs, kind, state) ==
    IF Enough(Counts(OfCell(obs, kind, state))) THEN "cell"
    ELSE IF HasKind(obs, kind) THEN "kind"
    ELSE IF HasGlobal(obs) THEN "global" ELSE "none"
Lookup(obs, kind, state) ==
    LET k == Counts(OfCell(obs, kind, state)) IN
    IF Enough(k) THEN Shrink(Raw(k), Parent(obs, kind), SmallerArm(k)) ELSE Parent(obs, kind)

(* Known to be useless: enough data and no part of the interval above zero.   *)
UselessGroup(k) == Enough(k) /\ HighNotAboveZero(k)
IsUseless(obs, kind, state) == UselessGroup(Counts(OfCell(obs, kind, state)))

Cells(obs) == {[kind |-> o.kind, state |-> o.state] : o \in obs}
AllCells == [kind |-> "*", state |-> "*"]

(* The rows of a saved table: the cells, a row per kind that speaks, the total. *)
TableRow(kind, state, counts, effect, basis, useless) ==
    [cell |-> [kind |-> kind, state |-> state], counts |-> counts, effect |-> effect, basis |-> basis, useless |-> useless]
NoCounts == [nt |-> 0, nc |-> 0, ct |-> 0, cc |-> 0]
TableRows(obs) ==
    {TableRow(c.kind, c.state, Counts(OfCell(obs, c.kind, c.state)), Lookup(obs, c.kind, c.state),
              Basis(obs, c.kind, c.state), IsUseless(obs, c.kind, c.state)) : c \in Cells(obs)}
    \cup {TableRow(k, "*", NoCounts, KindEffect(obs, k), "kind", FALSE) :
             k \in {x \in {o.kind : o \in obs} : HasKind(obs, x)}}
    \cup IF HasGlobal(obs) THEN {TableRow("*", "*", NoCounts, GlobalEffect(obs), "global", FALSE)} ELSE {}

-----------------------------------------------------------------------------
(* The report of one campaign.                                               *)

CampaignVerdict(k) ==
    IF k.nc = 0 THEN "attribution_only"
    ELSE IF k.nt = 0 THEN "not_ready"
    ELSE IF k.nc < MinArm \/ k.nt < MinArm THEN "inconclusive"
    ELSE IF ~LowAboveZero(k) /\ ~HighBelowZero(k) THEN "inconclusive" ELSE "proven"

(* Observed is always told; incremental only of a proven effect.  The profit needs
   the cost of both arms, the price of an order a proven gain.                *)
Report(k, costKnown, contactCost) ==
    LET proven == CampaignVerdict(k) = "proven" both == k.nt > 0 /\ k.nc > 0 IN
    [verdict |-> CampaignVerdict(k),
     observed |-> both,
     incremental |-> proven,
     profitObserved |-> both /\ costKnown,
     profit |-> both /\ costKnown /\ proven,
     costPerOrder |-> contactCost > 0 /\ proven /\ Lift(k) > 0]

-----------------------------------------------------------------------------
(* The plan of experiments.  A supply is [kind, state, available].            *)

PointEstimateMistake(k) ==
    IF k.nt = 0 /\ k.nc = 0 THEN "no_data"
    ELSE IF ~Enough(k) THEN "thin"
    ELSE IF Lift(k) > 0 THEN "proven" ELSE "useless"
CellStatus(k) ==
    IF k.nt = 0 /\ k.nc = 0 THEN "no_data"
    ELSE IF ~Enough(k) THEN "thin"
    ELSE IF LowAboveZero(k) THEN "proven"
    ELSE IF HighNotAboveZero(k) THEN "useless" ELSE "inconclusive"
Settled(status) == status \in {"proven", "useless"}

(* The base rate: the cell's own control group, else everybody's, else three in
   ten; so too when the rate has no variance.                                *)
Assumed == [num |-> 3, den |-> 10, source |-> "assumed"]
Baseline(k, all) ==
    LET rate == IF k.nc >= MinCell THEN [num |-> k.cc, den |-> k.nc, source |-> "cell_control"]
                ELSE IF all.nc > 0 THEN [num |-> all.cc, den |-> all.nc, source |-> "global_control"] ELSE Assumed IN
    IF rate.num = 0 \/ rate.num = rate.den THEN Assumed ELSE rate

(* The members a campaign needs to see the target effect with this base rate. *)
RoundedUp(a, b) == (a + b - 1) \div b
(* round(a / b): to the nearest, a half to the even one. *)
Rounded(a, b) ==
    LET q == a \div b r == a % b IN
    IF 2 * r > b \/ (2 * r = b /\ q % 2 = 1) THEN q + 1 ELSE q
ControlNeeded(b) ==
    RoundedUp(b.num * (b.den - b.num) * 3841000, b.den * b.den * (100 - Holdout) * Target * Target)
RequiredTotal(b) == Rounded(ControlNeeded(b) * 100, Holdout)

Suggestion(k, all, supply) ==
    LET status == CellStatus(k) needed == RequiredTotal(Baseline(k, all)) IN
    [supply |-> supply, status |-> status, required |-> needed,
     feasible |-> supply.available >= needed,
     unmeasured |-> IF Settled(status) THEN 0 ELSE supply.available]
Worthwhile(s) == ~Settled(s.status) /\ s.feasible

(* The next experiment: of the unsettled cells that can run now, the one with
   most unmeasured contacts.                                                 *)
Plan(obs, supplies) == {Suggestion(Counts(OfCell(obs, s.kind, s.state)), Counts(obs), s) : s \in supplies}
NextExperiment(obs, supplies, none) ==
    LET run == {s \in Plan(obs, supplies) : Worthwhile(s)} IN
    IF run = {} THEN none ELSE CHOOSE s \in run : \A t \in run : t.unmeasured <= s.unmeasured

-----------------------------------------------------------------------------
(* Readiness for learning offers: the cells of kind and discount.             *)

OfferCell(obs, kind, offer) == {o \in obs : o.kind = kind /\ o.offer = offer}
OfferCells(obs) == {[kind |-> o.kind, offer |-> o.offer] : o \in obs}
OfferReady(obs, cell) == Enough(Counts(OfferCell(obs, cell.kind, cell.offer)))
UpliftReady(obs) ==
    /\ \E c \in OfferCells(obs) : c.offer > 0
    /\ \E c \in OfferCells(obs) : OfferReady(obs, c)

(* A product's price varies: three distinct prices and a deviation of at least a
   twentieth of the mean.  Prices are a sequence of positive numbers.         *)
PriceVaries(prices, minPoints) ==
    LET ids == DOMAIN prices n == Cardinality(ids)
        sum == MapThenSumSet(LAMBDA i : prices[i], ids)
        squares == MapThenSumSet(LAMBDA i : prices[i] * prices[i], ids) IN
    /\ n >= 2
    /\ Cardinality({prices[i] : i \in ids}) >= minPoints
    /\ 400 * (n * squares - sum * sum) >= sum * sum
PriceReady(catalogue, minPoints, minProducts) ==
    Cardinality({p \in DOMAIN catalogue : PriceVaries(catalogue[p], minPoints)}) >= minProducts

-----------------------------------------------------------------------------
(* Every reader of the same numbers agrees.  The planner's "useless" is the table's
   and is never run again; with arms large enough for the report, the planner
   calls an effect settled exactly when the report calls it proven, unless neither
   arm of the group shows any variance; and a price per order is a proven gain's. *)
SomeVariance(k) == Spread(k) > 0
ReadersAgree(k) ==
    LET s == Suggestion(k, k, [kind |-> "any", state |-> "any", available |-> 1000]) IN
    /\ s.status = "useless" <=> UselessGroup(k)
    /\ UselessGroup(k) => ~Worthwhile(s) /\ s.unmeasured = 0
    /\ (k.nt >= MinArm /\ k.nc >= MinArm /\ MinArm >= MinCell /\ SomeVariance(k)) =>
         /\ Settled(s.status) <=> CampaignVerdict(k) = "proven"
         /\ Report(k, TRUE, 1).costPerOrder => s.status = "proven"

(* "The condition is strict: the whole interval must lie at or below zero; a guess
   is not enough": what the table calls useless, the report of the same numbers,
   when its arms are large enough for it, does not call inconclusive.         *)
UselessIsProven(k) ==
    UselessGroup(k) /\ k.nt >= MinArm /\ k.nc >= MinArm => CampaignVerdict(k) # "inconclusive"
=============================================================================
