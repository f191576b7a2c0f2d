--------------------------- MODULE ModelTraining ---------------------------
(***************************************************************************)
(* From the ledger to a trained model: what the three trainers             *)
(* (mktcore/ml/whale.py, churn.py, replenish.py) read, how they cut it in  *)
(* time, whom they label, and what they record.  The ledger grows under    *)
(* them, by new days and by late lines, so that "what was known at T" and  *)
(* "the outcome is complete" are claims about a moving set of lines.       *)
(*                                                                         *)
(* A line is one order of the one product of this model; days are         *)
(* naturals; the numerical fit is left out, and its metrics are a choice.  *)
(* A trainer reads the ledger in one transaction and records in another;   *)
(* what it records depends on the first only, hence one action.            *)
(***************************************************************************)
EXTENDS Integers, FiniteSets, FiniteSetsExt, Sequences, SequencesExt

CONSTANTS
    Unknown,        \* NULL, NaN
    Customers,
    Goods,          \* [profit, price, qty, ret]: what a line may say
    LastDay,        \* bound: the last day a line may carry
    Ledgers,        \* the ledgers a training history may start from
    MaxNew,         \* bound: lines that reach the ledger after that
    Metrics,        \* what an evaluation may come to
    Observation, Outcome, Month, Quarter, MinQuarter, MinCustomers, MinMonths,
    EarlyDays,      \* windows right after the first purchase; 30 and 60 days in the code
    WhalePositives, TopPercent, Horizon, Period, MaxSnapshots, TailDays, MinGaps, MinBuyers,
    TrainPercent, MinRows, MinPositives, MinLiftBp, MinSpan, MinSnapshots,
    IsotonicRows, IsotonicPositives     \* what an isotonic calibration asks for

VARIABLES
    lines,      \* the ledger's lines
    nNew,       \* how many of them are new
    lastRun     \* what the last training left; status "none": no row

trainingVars == <<lines, nNew, lastRun>>

Line == [customer : Customers, day : 0..LastDay, good : Goods]

ASSUME TrainingAssumption ==
    /\ IsFiniteSet(Customers)
    /\ Ledgers \subseteq SUBSET Line
    /\ {LastDay, Observation, Outcome, Horizon, TailDays, TrainPercent} \subseteq Nat
    /\ {Period, MaxSnapshots} \subseteq Nat

Days(L) == {l.day : l \in L}
DataMin(L) == Min(Days(L))
DataMax(L) == Max(Days(L))
Buyers(L) == {l.customer : l \in L}
Of(L, c) == {l \in L : l.customer = c}

(* load_line_frame(as_of): a line dated T is not yet known in the morning of T. *)
KnownBefore(L, asOf) == {l \in L : l.day < asOf}
FirstDate(L, c) == Min(Days(Of(L, c)))

(* The value at position `i` (from 0) of the dates of `S` in order. *)
AtIndex(S, date(_), i) ==
    CHOOSE d \in {date(x) : x \in S} :
        /\ Cardinality({x \in S : date(x) < d}) <= i
        /\ i < Cardinality({x \in S : date(x) <= d})

(* chronological_cut and chronological_split: a cut in time, never at random. *)
ChronologicalCut(S, date(_), percent) ==
    LET n == Cardinality(S) index == (n * percent) \div 100 IN
    AtIndex(S, date, IF index < n THEN index ELSE n - 1)

-----------------------------------------------------------------------------
(* Features: everything a row says about a customer at a moment. *)

(* The anchor: the end, exclusive, of a customer's observation window. *)
Anchor(L, c) == FirstDate(L, c) + Observation

(* The lines the features are computed from: the whole history before asOf, *)
(* or the first days of the customers whose window is complete by then.     *)
Frame(L, asOf, windowed) ==
    IF windowed
    THEN {l \in L : Anchor(L, l.customer) <= asOf /\ l.day < Anchor(L, l.customer)}
    ELSE L

(* Gross profit counts only when every line has a cost behind it. *)
Covered(L) == \A l \in L : l.good.profit # Unknown
Profit(L) ==
    IF Covered(L) THEN MapThenSumSet(LAMBDA l : l.good.profit, L) ELSE Unknown

(* The gaps between the distinct days, oldest first. *)
Gaps(L) ==
    LET days == SetToSortSeq(Days(L), <) IN
    [i \in 1..(Len(days) - 1) |-> days[i + 1] - days[i]]

(* The median of a sequence, doubled to stay whole. *)
Median2(s) ==
    LET o == SortSeq(s, <) n == Len(s) IN
    o[(n + 1) \div 2] + o[n \div 2 + 1]

(* The weighted median: each older gap weighs 3/4 of the next (weights     *)
(* scaled by 4^n to stay whole).                                           *)
WeightedMedian(s) ==
    LET n == Len(s)
        weight(i) == 3^(n - i) * 4^i
        upTo(v) == MapThenSumSet(LAMBDA i : IF s[i] <= v THEN weight(i) ELSE 0, 1..n)
    IN Min({v \in Range(s) : 2 * upTo(v) >= MapThenSumSet(weight, 1..n)})

(* Among the priced lines, those above the median price of the frame. *)
Premium(frame, own) ==
    LET priced == {l \in frame : l.good.price # Unknown}
        prices == [i \in 1..Cardinality(priced) |-> SetToSeq(priced)[i].good.price]
    IN IF priced = {} THEN Unknown
       ELSE Cardinality({l \in own \cap priced : 2 * l.good.price > Median2(prices)})

(* Single buyers have no gap, of either kind. *)
Gap(own) == IF Cardinality(Days(own)) < 2 THEN Unknown ELSE Median2(Gaps(own))
WeightedGap(own) == IF Cardinality(Days(own)) < 2 THEN Unknown ELSE WeightedMedian(Gaps(own))

(* Orders in the first days after the first one. *)
Early(own, days) == Cardinality({l \in own : l.day - Min(Days(own)) < days})

(* What the lines of a customer say by the end of its window. *)
OwnFeatures(own, end) ==
    [tenure  |-> end - DataMin(own),
     recency |-> end - DataMax(own),
     orders  |-> Cardinality(own),
     profit  |-> Profit(own),
     early   |-> [n \in EarlyDays |-> Early(own, n)],
     gap     |-> Gap(own),
     weighted |-> WeightedGap(own),
     returns |-> Cardinality({l \in own : l.good.ret})]

(* compute_point_in_time_features for one customer; one of them compares it  *)
(* with everybody else.                                                      *)
Features(L, asOf, windowed, c) ==
    LET frame == Frame(L, asOf, windowed)
        own == Of(frame, c)
    IN [own |-> OwnFeatures(own, IF windowed THEN Anchor(L, c) ELSE asOf),
        premium |-> Premium(frame, own)]

(* The customers of the feature table. *)
Featured(L, asOf, windowed) == Buyers(Frame(L, asOf, windowed))

(* compute_outcome_window: [start, start + days), nothing bought is a certain 0. *)
OutcomeProfit(L, c, start) ==
    Profit({l \in Of(L, c) : l.day >= start /\ l.day < start + Outcome})

-----------------------------------------------------------------------------
(* whale.py: who becomes a big customer, by cohorts whose outcome is complete. *)

(* mature_anchors: customers whose outcome window has been seen to its end. *)
Mature(L) == {c \in Buyers(L) : Anchor(L, c) + Outcome <= DataMax(L)}

WhaleSplit(L, S) == ChronologicalCut(S, LAMBDA c : Anchor(L, c), TrainPercent)

(* assess_cohort_maturity: the first requirement that is not met. *)
MaturityVerdict(L) ==
    LET mature == Mature(L)
        split == WhaleSplit(L, mature)
        train == {c \in mature : Anchor(L, c) < split}
        positives(S) == (Cardinality(S) * TopPercent) \div 100
    IN IF 1000 * Cardinality({l \in L : l.good.profit # Unknown}) < 999 * Cardinality(L)
          THEN "no_profit_basis"
       ELSE IF DataMax(L) - DataMin(L) < Observation + 2 * Outcome THEN "span_too_short"
       ELSE IF Cardinality(mature) < MinCustomers THEN "too_few_customers"
       ELSE IF Cardinality({Anchor(L, c) \div Month : c \in mature}) < MinMonths
          THEN "too_few_cohorts"
       ELSE IF mature \ train = {} THEN "no_validation_cohort"
       ELSE IF positives(train) < WhalePositives \/ positives(mature \ train) < WhalePositives
          THEN "too_few_positives"
       ELSE "ok"

(* A value above the top quantile of a group (linear interpolation, times 100). *)
Above(v, profits) ==
    LET o == SortSeq(profits, <)
        at == (Len(o) - 1) * (100 - TopPercent)
        low == at \div 100 + 1
        high == IF low < Len(o) THEN low + 1 ELSE low
    IN 100 * v > 100 * o[low] + (o[high] - o[low]) * (at % 100)

(* The group a customer is compared with: the quarter of the anchor, or all  *)
(* when the quarter is too small for a quantile.                             *)
Peers(L, S, c) ==
    LET own == {d \in S : Anchor(L, d) \div Quarter = Anchor(L, c) \div Quarter} IN
    IF Cardinality(own) < MinQuarter THEN S ELSE own

WhaleRows(L) ==
    LET S == {c \in Mature(L) : OutcomeProfit(L, c, Anchor(L, c)) # Unknown}
        profit(c) == OutcomeProfit(L, c, Anchor(L, c))
        profits(G) == [i \in 1..Cardinality(G) |-> profit(SetToSeq(G)[i])]
    IN {[customer |-> c, at |-> Anchor(L, c), label |-> Above(profit(c), profits(Peers(L, S, c)))]
            : c \in S}

-----------------------------------------------------------------------------
(* churn.py: customer and period, silent over the horizon or not. *)

(* The moments looked back at, from the last one whose outcome is complete. *)
Snapshots(L, tail) ==
    {a \in 0..LastDay : \E k \in 0..(MaxSnapshots - 1) :
        a = DataMax(L) - tail - k * Period /\ a > DataMin(L)}

(* Mistake: the snapshots start at the end of the data.                      *)
UnfinishedMistake(L) == Snapshots(L, 0)
ChurnSnapshots(L) == Snapshots(L, Horizon)

Churned(L, c, a) == ~\E l \in Of(L, c) : l.day >= a /\ l.day < a + Horizon

ChurnRows(L) ==
    {[customer |-> p[1], at |-> p[2], label |-> Churned(L, p[1], p[2])] :
        p \in {q \in Customers \X ChurnSnapshots(L) :
                  q[1] \in Featured(KnownBefore(L, q[2]), q[2], FALSE)}}

-----------------------------------------------------------------------------
(* replenish.py: a claim about when the customer buys again, against the    *)
(* product's own median.  An interval is a fraction of days, n / d.         *)

Purchases(L) == {l \in L : ~l.good.ret}

(* The customers with a personal cadence at `a`. *)
Cadenced(L, a) ==
    {c \in Buyers(Purchases(KnownBefore(L, a))) :
        Len(Gaps(Of(Purchases(KnownBefore(L, a)), c))) >= MinGaps}

(* The quantity of each day of purchase, oldest first; NULL adds nothing.    *)
DayQuantities(own) ==
    LET days == SetToSortSeq(Days(own), <) IN
    [i \in 1..Len(days) |-> MapThenSumSet(LAMBDA l : l.good.qty,
                               {l \in own : l.day = days[i] /\ l.good.qty # Unknown})]

(* What the customer usually took before the last time, doubled: the median, *)
(* of all times when that is nothing, one unit when that is nothing either.  *)
Typical2(q) ==
    LET before == Median2(SubSeq(q, 1, Len(q) - 1)) IN
    IF Len(q) > 1 /\ before > 0 THEN before ELSE IF Median2(q) > 0 THEN Median2(q) ELSE 2

(* pack_adjusted_gap: twice the usual quantity lasts twice as long. *)
Pace(own) ==
    LET q == DayQuantities(own) IN
    IF q[Len(q)] = 0 THEN [n |-> WeightedMedian(Gaps(own)), d |-> 1]
    ELSE [n |-> WeightedMedian(Gaps(own)) * 2 * q[Len(q)], d |-> Typical2(q)]

(* analyze_purchase_cycles over the past: the median gap of all buyers, when *)
(* the product is bought again by enough of them.                            *)
ChampionPace(L, a) ==
    LET past == Purchases(KnownBefore(L, a))
        again == {c \in Buyers(past) : Cardinality(Days(Of(past, c))) >= 2}
        pooled == FlattenSeq(SetToSeq({Gaps(Of(past, c)) : c \in again}))
    IN IF Cardinality(Buyers(past)) < MinBuyers \/ 10 * Cardinality(again) < 3 * Cardinality(Buyers(past))
       THEN Unknown ELSE [n |-> Median2(pooled), d |-> 2]

(* The claimed window, a quarter of the interval either side of the due day; *)
(* a day `x` stands at 4 * d * x on its scale.                               *)
OnScale(p, x) == 4 * p.d * x
ClaimStart(last, p) == OnScale(p, last) + 3 * p.n
ClaimEnd(last, p) == OnScale(p, last) + 5 * p.n

(* A claim can be judged when it is seen to its end and was still to come.   *)
Judged(L, a, last, p) ==
    ClaimEnd(last, p) <= OnScale(p, DataMax(L)) /\ ClaimEnd(last, p) > OnScale(p, a)

Hit(L, c, a, last, p) ==
    \E l \in Of(Purchases(L), c) :
        /\ l.day > a
        /\ OnScale(p, l.day) > ClaimStart(last, p) /\ OnScale(p, l.day) <= ClaimEnd(last, p)

(* What the claim on customer `c` at `a` rests on. *)
Past(L, c, a) == Of(Purchases(KnownBefore(L, a)), c)

ReplenishRow(L, c, a) ==
    LET past == Past(L, c, a)
        last == DataMax(past)
    IN [customer |-> c, at |-> a,
        label |-> Hit(L, c, a, last, Pace(past)),
        covered |-> /\ Judged(L, a, last, Pace(past))
                    /\ \/ ChampionPace(L, a) = Unknown
                       \/ Judged(L, a, last, ChampionPace(L, a))]

(* build_pair_period, and the rows the trainer keeps of it. *)
PairPeriod(L) ==
    {ReplenishRow(L, p[1], p[2]) :
        p \in {q \in Customers \X Snapshots(L, TailDays) : q[1] \in Cadenced(L, q[2])}}
ReplenishRows(L) == {r \in PairPeriod(L) : r.covered}

-----------------------------------------------------------------------------
(* Training. *)

Split(R) == ChronologicalCut(R, LAMBDA r : r.at, TrainPercent)

(* Mistake: the day of the cut belongs to neither arm.                       *)
NeitherMistake(R) == {r \in R : r.at > Split(R)}
TrainArm(R) == {r \in R : r.at < Split(R)}
ValidateArm(R) == {r \in R : r.at >= Split(R)}
Positives(R) == Cardinality({r \in R : r.label})
FewerPositives(R) ==
    IF Positives(TrainArm(R)) < Positives(ValidateArm(R))
    THEN Positives(TrainArm(R)) ELSE Positives(ValidateArm(R))

(* fit_calibrated_linear: the later part of the training arm calibrates; when *)
(* the earlier part has one class only, the arm plays both roles.  Logistic   *)
(* regression raises on a single class, and nothing catches it here; a        *)
(* calibration with enough rows and positives is isotonic, and does not.      *)
OneClass(R) == Cardinality({r.label : r \in R}) < 2
Isotonic(R) == Cardinality(R) >= IsotonicRows /\ Positives(R) >= IsotonicPositives
CalibrationRaises(R) == OneClass(R) /\ ~Isotonic(R)

FitRaises(train) ==
    LET cut == ChronologicalCut(train, LAMBDA r : r.at, TrainPercent)
        early == {r \in train : r.at < cut}
    IN \/ train = {}
       \/ IF OneClass(early) THEN OneClass(train) ELSE CalibrationRaises(train \ early)

(* A better calibrated probability than the baseline's, and a top list worth *)
(* more by a margin that is no accident.                                     *)
BeatsBrier(m) == m.brier < m.baselineBrier
BeatsTop(m) == m.lower # Unknown /\ m.lower > 0
LiftEnough(m) == m.baselineTop > 0 /\ 10000 * (m.top - m.baselineTop) >= MinLiftBp * m.baselineTop

(* evaluate_whale, evaluate_churn, evaluate_replenish; the last one's champion *)
(* may have nothing in its top list, and its score must tell outcomes apart.   *)
WhalePassed(m) == BeatsBrier(m) /\ BeatsTop(m) /\ LiftEnough(m) /\ m.calibrated
ChurnPassed(m) == BeatsBrier(m) /\ BeatsTop(m) /\ LiftEnough(m) /\ m.calibrated
ReplenishPassed(m) ==
    /\ BeatsBrier(m) /\ BeatsTop(m) /\ m.calibrated /\ m.discriminates
    /\ LiftEnough(m) \/ (m.baselineTop <= 0 /\ m.top > 0)

(* _requirements: the first count that is too small. *)
ReplenishObstacle(L, R) ==
    IF DataMax(L) - DataMin(L) < MinSpan THEN "span_too_short"
    ELSE IF Cardinality({r.at : r \in R}) < MinSnapshots THEN "too_few_snapshots"
    ELSE IF Cardinality(R) < MinRows THEN "too_few_pairs"
    ELSE IF R = {} \/ FewerPositives(R) < MinPositives THEN "too_few_positives"
    ELSE IF TrainArm(R) = {} \/ ValidateArm(R) = {} THEN "split_unbalanced"
    ELSE "none"

NoRun == [key |-> "none", status |-> "none", train |-> {}, validate |-> {}]

TrainingInit == lines \in Ledgers /\ nNew = 0 /\ lastRun = NoRun

(* A file, or a late correction of an earlier day, reaches the ledger; a     *)
(* behaviour ends with the training it is about.                             *)
NewLine(l) ==
    /\ nNew < MaxNew
    /\ lastRun = NoRun
    /\ l \notin lines
    /\ nNew' = nNew + 1
    /\ lines' = lines \cup {l}
    /\ UNCHANGED lastRun

(* record_run of a trainer that has nothing to show, or a model that beat the *)
(* champion or did not.  Nothing is promoted here.                           *)
Blocked(k) == lastRun' = [NoRun EXCEPT !.key = k, !.status = "insufficient_data"]
Fitted(k, R, passed) ==
    lastRun' = [key |-> k, status |-> IF passed THEN "validated" ELSE "validated_rejected",
                train |-> TrainArm(R), validate |-> ValidateArm(R)]

(* A fit that raises records nothing: the retraining job notes the error and *)
(* goes on with the next model.                                              *)
Raised(k) == lastRun' = [NoRun EXCEPT !.key = k]

TrainWhale(m) ==
    LET R == WhaleRows(lines) IN
    /\ lines # {}
    /\ IF MaturityVerdict(lines) # "ok" \/ R = {} THEN Blocked("whale")
       ELSE IF FitRaises(TrainArm(R)) THEN Raised("whale")
       ELSE Fitted("whale", R, WhalePassed(m))
    /\ UNCHANGED <<lines, nNew>>

TrainChurn(m) ==
    LET R == ChurnRows(lines) IN
    /\ lines # {}
    /\ IF \/ Cardinality(R) < MinRows
          \/ TrainArm(R) = {} \/ ValidateArm(R) = {} \/ FewerPositives(R) < MinPositives
       THEN Blocked("churn")
       ELSE IF FitRaises(TrainArm(R)) THEN Raised("churn")
       ELSE Fitted("churn", R, ChurnPassed(m))
    /\ UNCHANGED <<lines, nNew>>

(* The due table counts hits per bin: nothing to raise. *)
TrainReplenish(m) ==
    LET R == ReplenishRows(lines) IN
    /\ lines # {}
    /\ IF ReplenishObstacle(lines, R) # "none" THEN Blocked("replenish")
       ELSE Fitted("replenish", R, ReplenishPassed(m))
    /\ UNCHANGED <<lines, nNew>>

TrainingNext ==
    \/ \E l \in Line : NewLine(l)
    \/ \E m \in Metrics : TrainWhale(m)
    \/ \E m \in Metrics : TrainChurn(m)
    \/ \E m \in Metrics : TrainReplenish(m)

TrainingSpec == TrainingInit /\ [][TrainingNext]_trainingVars

-----------------------------------------------------------------------------
(* A model that was fitted was trained on somebody and judged on somebody:  *)
(* the maturity gate asks this of all mature customers, and the whale rows    *)
(* then leave out those whose profit is not known (train_whale, train_churn, *)
(* train_replenish).                                                         *)
BothArms ==
    lastRun.status \in {"validated", "validated_rejected"} =>
        lastRun.train # {} /\ lastRun.validate # {}

(* The features of a customer's observation window, but for those that       *)
(* compare with the median of all customers.                                 *)
OwnWindow(L, c) == Features(L, DataMax(L) + 1, TRUE, c).own

(* Line `l` lies outside everything the training at `L` said of its customer *)
(* at that moment: a label, the claim behind it, the profit a cohort is      *)
(* ranked by, the window the features are of.                                *)
LateLineStands(L, M, l) ==
    /\ \A r \in ChurnRows(L) :
          ~(l.customer = r.customer /\ r.at <= l.day /\ l.day < r.at + Horizon) =>
              Churned(M, r.customer, r.at) = r.label
    /\ \A r \in ReplenishRows(L) :
          LET past == Past(L, r.customer, r.at) p == Pace(past) IN
          (l.customer # r.customer \/ (l.day >= r.at /\ OnScale(p, l.day) > ClaimEnd(DataMax(past), p))) =>
              ReplenishRow(M, r.customer, r.at).label = r.label
    /\ \A c \in Mature(L) :
          /\ l.customer # c \/ l.day >= Anchor(L, c) + Outcome =>
                OutcomeProfit(L, c, Anchor(L, c)) = OutcomeProfit(M, c, Anchor(M, c))
          /\ l.customer # c \/ l.day >= Anchor(L, c) => OwnWindow(L, c) = OwnWindow(M, c)

(* Nothing that was said when the data ended at some day turns out different *)
(* when later days arrive: every label had been seen to its end.             *)
LaterLineStands(L, M) ==
    /\ \A r \in ChurnRows(L) : Churned(M, r.customer, r.at) = r.label
    /\ \A r \in ReplenishRows(L) : ReplenishRow(M, r.customer, r.at).label = r.label
    /\ \A c \in Mature(L) :
          /\ OutcomeProfit(L, c, Anchor(L, c)) = OutcomeProfit(M, c, Anchor(M, c))
          /\ OwnWindow(L, c) = OwnWindow(M, c)

(* No label of the three trainers is given before its outcome is complete,   *)
(* no window of a customer is open when it is read, and a late line of an    *)
(* earlier day changes only what lies on its own customer's days.  Features  *)
(* that compare with the median of all customers are not part of the claim:  *)
(* WindowFeaturesStand is what the code does to them.                        *)
NothingFromTheFuture ==
    [][\A l \in lines' \ lines : lines # {} =>
        /\ LateLineStands(lines, lines', l)
        /\ l.day > DataMax(lines) => LaterLineStands(lines, lines')]_lines

(* "Use only data available in the early observation window", and "the median *)
(* is taken from the very same cut frame, otherwise the measure of expensive *)
(* would come from the future" (MASTER_SPEC 18.4, _attach_premium): whether  *)
(* the observation window of a mature customer is all its features depend on. *)
WindowFeaturesStand ==
    [][\A l \in lines' \ lines, c \in Customers :
        lines # {} /\ c \in Mature(lines) /\ l.day >= Anchor(lines, c) =>
            Features(lines, DataMax(lines) + 1, TRUE, c)
                = Features(lines', DataMax(lines') + 1, TRUE, c)]_lines

(* "No is a result, not an error ... an exception is invisible tomorrow":    *)
(* whether every training leaves a row.                                      *)
EveryTrainingRecorded == lastRun.key # "none" => lastRun.status # "none"
=============================================================================
