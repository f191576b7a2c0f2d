-------------------------- MODULE CustomerLifecycle --------------------------
(* The dated snapshots of what every customer is: after an upload was posted to
   the ledger, one transaction aggregates the file by raw customer key, merges
   the keys that resolve to one customer, classifies each customer, writes the
   row of (customer, last day of the file) and records the transitions.
     sales     the sales and returns that happened (each is one line and one
               order), in every version the shop's books have had of them
     ledger    per line some upload has posted, the version posted last
     snapshot  per customer and as-of day, the row written last, or NoRow
     events    the recorded transitions
     latest    the file the last write saw, with nothing written since: a history
               variable the properties alone read
   Gaps are counted in twentieths of a day: a cadence is rounded to a tenth, and
   the median of the population may fall between two of them.                 *)
EXTENDS Integers, FiniteSets, Sequences, SequencesExt, FiniteSetsExt, TLC

CONSTANTS
    Sales,        \* what may happen: [id, key, day, money, costed, full, ret];
                  \* those of one id are versions of one line
    Keys,         \* the raw customer keys
    Owner,        \* the customer each known key resolves to
    Days,         \* the days anything happens on
    Scopes,       \* the sets of keys an export may be restricted to
    Clv(_, _),    \* the expected value of a key's next year in a file, 0: none
    VipMinimum,   \* the customers a "top tenth" needs
    NoRow, NoState, NoFile, None

OneVersion(file) == \A s, t \in file : s.id = t.id => s = t

ASSUME LifecycleAssumption ==
    /\ IsFiniteSet(Sales) /\ IsFiniteSet(Keys) /\ Days \subseteq Nat /\ Days # {}
    /\ DOMAIN Owner \subseteq Keys
    /\ \A s \in Sales : s.key \in Keys /\ s.day \in Nat
    /\ OneVersion({s \in Sales : s.day < Min(Days)})

Customers == {Owner[k] : k \in DOMAIN Owner}

(* The last day of a file is a day of a sale.                                *)
Dates == Days \cup {s.day : s \in Sales}

VARIABLES day, sales, ledger, snapshot, events, latest
lifecycleVars == <<day, sales, ledger, snapshot, events, latest>>

Lapsed == {"slipping", "at_risk", "dormant", "lost"}
States == Lapsed \cup {"prospect", "new", "activated", "growing", "established", "loyal", "vip", "reactivated"}

-----------------------------------------------------------------------------
(* What one file says.                                                       *)

AsOf(file) == Max({s.day : s \in file})
Of(file, keys) == {s \in file : s.key \in keys}
PurchaseDays(file, key) ==
    LET days == {s.day : s \in Of(file, {key})} IN
    [i \in 1..Cardinality(days) |-> CHOOSE d \in days : Cardinality({x \in days : x < d}) = i - 1]
GapsOf(file, key) ==
    LET d == PurchaseDays(file, key) IN
    IF d = << >> THEN << >> ELSE [i \in 1..Len(d) - 1 |-> d[i + 1] - d[i]]

(* Twice the median of a nonempty sequence of numbers.                       *)
Median2(q) ==
    LET s == SortSeq(q, <) n == Len(q) IN
    IF n % 2 = 1 THEN 2 * s[(n \div 2) + 1] ELSE s[n \div 2] + s[(n \div 2) + 1]

PooledGaps(file) == FoldSet(LAMBDA k, q : q \o GapsOf(file, k), << >>, Keys)

(* A key's cadence: recent gaps weigh more (each older one three quarters of the
   next), mixed 6 to 4 with their median, then shrunk to the pooled median with
   the weight of three gaps.  A key with one purchase day has none.            *)
Recency(q) ==
    LET w == [i \in 1..Len(q) |-> 3 ^ (Len(q) - i) * 4 ^ i] IN
    (40 * FoldSeq(+, 0, [i \in 1..Len(q) |-> w[i] * q[i]])) \div FoldSeq(+, 0, w)
Cadence(file, key) ==
    LET q == GapsOf(file, key) n == Len(q)
        localGap == (6 * Recency(q) + 4 * 20 * Median2(q)) \div 10
        mixed == (n * localGap + 3 * 20 * Median2(PooledGaps(file))) \div (n + 3) IN
    IF n = 0 THEN 0 ELSE 2 * ((mixed + 2) \div 4)

(* Alive with a probability under a twentieth: more than 19.4 cycles elapsed;
   a single purchase is judged by the pooled median, no repeats by nothing.    *)
Gone(file, key) ==
    LET mu == IF GapsOf(file, key) # <<>> THEN Cadence(file, key)
              ELSE IF Len(PooledGaps(file)) = 0 THEN 0 ELSE 10 * Median2(PooledGaps(file))
        elapsed == AsOf(file) - Max({s.day : s \in Of(file, {key})}) IN
    mu > 0 /\ elapsed * 200 > mu * 194

Sorted(values(_), keys) == SortSeq(FoldSet(LAMBDA k, q : q \o <<values(k)>>, << >>, keys), <)
PopulationGap(file) ==
    LET known == {k \in Keys : Cadence(file, k) > 0} IN
    IF known = {} THEN 0 ELSE Median2(Sorted(LAMBDA k : Cadence(file, k), known)) \div 2

(* The bottom of the top tenth of the positive values, 0 when too few are known. *)
VipThreshold(file) ==
    LET known == {k \in Keys : Of(file, {k}) # {} /\ Clv(file, k) > 0}
        values == Sorted(LAMBDA k : Clv(file, k), known) n == Len(values) IN
    IF n < VipMinimum THEN 0 ELSE values[Max({1, Min({n, ((n * 9) \div 10) + 1})})]

Money(file, key) == MapThenSumSet(LAMBDA s : s.money, Of(file, {key}))

(* The keys of one customer become one row: sums, the earliest and the latest
   day, and the key with most money (one of equals) for everything the
   analysis only knows by key.                                               *)
KeysOf(file, c) == {k \in DOMAIN Owner : Owner[k] = c /\ Of(file, {k}) # {}}
Dominant(file, c) ==
    LET ks == KeysOf(file, c) top == Max({Money(file, k) : k \in ks}) IN
    CHOOSE k \in ks : Money(file, k) = top
Frame(file, c) ==
    LET mine == Of(file, KeysOf(file, c)) main == Dominant(file, c) IN
    [orders |-> Cardinality(mine), first |-> Min({s.day : s \in mine}), last |-> Max({s.day : s \in mine}),
     gap |-> Cadence(file, main), gone |-> Gone(file, main), clv |-> Clv(file, main)]

-----------------------------------------------------------------------------
(* The state machine of a customer's life.                                   *)

(* The own gap counts from two orders on, then the population's; 0 is none.    *)
EffectiveGap(f, population) == IF f.gap > 0 /\ f.orders >= 2 THEN f.gap ELSE population
Personal(f) == f.gap > 0 /\ f.orders >= 2

Growing(f, gap, tenure) ==
    gap > 0 /\ tenure > 0 /\ f.orders >= 3 /\ f.orders * gap * 10 >= 12 * tenure * 20

(* Overdue by more than n halves of the gap.                                 *)
Over(gap, recency, n) == gap > 0 /\ recency * 40 > n * gap

Classify(f, asOf, population, vip, before) ==
    LET recency == asOf - f.last
        tenure == asOf - f.first
        gap == EffectiveGap(f, population)
        back == before # NoRow /\ before.state \in Lapsed /\ f.last > before.asOf IN
    IF f.orders = 0 THEN "prospect"
    ELSE IF back /\ ~Over(gap, recency, 2) THEN "reactivated"
    ELSE IF f.gone \/ Over(gap, recency, 10) THEN "lost"
    ELSE IF Over(gap, recency, 6) THEN "dormant"
    ELSE IF Over(gap, recency, 3) THEN "at_risk"
    ELSE IF Over(gap, recency, 2) THEN "slipping"
    ELSE IF vip > 0 /\ f.clv >= vip THEN "vip"
    ELSE IF f.orders >= 5 /\ Personal(f) THEN "loyal"
    ELSE IF Growing(f, gap, tenure) THEN "growing"
    ELSE IF f.orders >= 3 THEN "established"
    ELSE IF f.orders >= 2 THEN "activated" ELSE "new"

-----------------------------------------------------------------------------
(* Writing the snapshot.                                                     *)

(* The last row of a day before this one: rows of the same day do not count, or
   a second analysis of the same data would invent a transition.             *)
SameDayPrevious(c, asOf) ==
    LET past == {d \in Dates : d <= asOf /\ snapshot[c][d] # NoRow} IN
    IF past = {} THEN NoRow ELSE [state |-> snapshot[c][Max(past)].state, asOf |-> Max(past)]
Previous(c, asOf) ==
    LET past == {d \in Dates : d < asOf /\ snapshot[c][d] # NoRow} IN
    IF past = {} THEN NoRow ELSE [state |-> snapshot[c][Max(past)].state, asOf |-> Max(past)]

Known(file) == {Owner[k] : k \in {k \in DOMAIN Owner : Of(file, {k}) # {}}}

Verdicts(file) ==
    LET population == PopulationGap(file) vip == VipThreshold(file) d == AsOf(file) IN
    [c \in Known(file) |-> Classify(Frame(file, c), d, population, vip, Previous(c, d))]

(* The profit comes from the ledger, and only when every line of the customer
   has its cost; the share bought at full price only from lines that say so.   *)
LedgerOf(c) == {s \in ledger : s.key \in DOMAIN Owner /\ Owner[s.key] = c}
Profit(c) ==
    LET mine == LedgerOf(c) IN
    IF mine # {} /\ \A s \in mine : s.costed THEN MapThenSumSet(LAMBDA s : s.money, mine) ELSE None
FullPriceShare(c) ==
    LET said == {s \in LedgerOf(c) : s.full # None /\ ~s.ret} n == Cardinality(said) IN
    IF said = {} THEN None ELSE (20000 * Cardinality({s \in said : s.full}) + n) \div (2 * n)

(* The file and the row before are history: the properties alone read them.   *)
Row(file, c, state) ==
    [state |-> state, before |-> Previous(c, AsOf(file)), file |-> file, profit |-> Profit(c), share |-> FullPriceShare(c)]

(* A transition is recorded for a state that differs from the last one, once
   per customer, day and new state.                                          *)
OncePerDayMistake(verdict, d) ==
    LET changed == {c \in DOMAIN verdict : Previous(c, d) = NoRow \/ Previous(c, d).state # verdict[c]} IN
    {[customer |-> c, asOf |-> d, to |-> verdict[c],
      from |-> IF Previous(c, d) = NoRow THEN NoState ELSE Previous(c, d).state] :
         c \in {x \in changed : \A e \in events : ~(e.customer = x /\ e.asOf = d)}}
Transitions(verdict, d) ==
    LET changed == {c \in DOMAIN verdict : Previous(c, d) = NoRow \/ Previous(c, d).state # verdict[c]} IN
    {[customer |-> c, asOf |-> d, to |-> verdict[c],
      from |-> IF Previous(c, d) = NoRow THEN NoState ELSE Previous(c, d).state] :
         c \in {x \in changed : \A e \in events : ~(e.customer = x /\ e.asOf = d /\ e.to = verdict[x])}}

WriteFeatures(file) ==
    /\ file # {} /\ Known(file) # {}
    /\ LET verdict == Verdicts(file) d == AsOf(file) IN
         /\ snapshot' = [c \in Customers |->
                IF c \in DOMAIN verdict THEN [snapshot[c] EXCEPT ![d] = Row(file, c, verdict[c])] ELSE snapshot[c]]
         /\ events' = events \cup Transitions(verdict, d)
    /\ latest' = file

(* What an upload may hold today: every line up to some day, of all keys or of
   one part of them, as the books have it or, in an older export, once had it.  *)
Reworked == {s \in sales : \E t \in sales : t.id = s.id /\ t # s}
Books ==
    {book \in {sales \ old : old \in SUBSET Reworked} :
        OneVersion(book) /\ {s.id : s \in book} = {s.id : s \in sales}}
Exports ==
    {{s \in book : s.day <= d /\ s.key \in keys} : book \in Books, d \in {x \in Dates : x <= day}, keys \in Scopes}

-----------------------------------------------------------------------------
LifecycleInit ==
    /\ day = Min(Days) /\ sales = {s \in Sales : s.day < Min(Days)} /\ ledger = {}
    /\ snapshot = [c \in Customers |-> [d \in Dates |-> NoRow]]
    /\ events = {} /\ latest = NoFile

Sell(s) ==
    /\ s.day = day /\ \A t \in sales : t.id # s.id
    /\ sales' = sales \cup {s}
    /\ UNCHANGED <<day, ledger, snapshot, events, latest>>

(* The shop corrects a line: its day, its customer or what was paid.         *)
Correct(s) ==
    /\ s \notin sales /\ s.day <= day /\ \E t \in sales : t.id = s.id
    /\ sales' = sales \cup {s}
    /\ UNCHANGED <<day, ledger, snapshot, events, latest>>

NextDay ==
    /\ \E d \in Days : d > day
    /\ day' = Min({d \in Days : d > day})
    /\ UNCHANGED <<sales, ledger, snapshot, events, latest>>

(* The upload posts its lines: one that is there already gets the day, customer
   and amounts of the file (_LINE_FIELDS).  Its features are another transaction,
   which may fail and is then only logged; they know nothing of returns.       *)
AppendMistake(file) == ledger' = ledger \cup file /\ UNCHANGED <<day, sales, snapshot, events, latest>>
Post(file) ==
    /\ ledger' = {s \in ledger : \A t \in file : t.id # s.id} \cup file
    /\ UNCHANGED <<day, sales, snapshot, events, latest>>
Bought(file) == {s \in file : ~s.ret}
Features(file) == WriteFeatures(Bought(file)) /\ UNCHANGED <<day, sales, ledger>>

-----------------------------------------------------------------------------
(* Every row, event and file is of the shape the transaction writes.          *)
LifecycleTypeOK ==
    /\ day \in Days /\ sales \subseteq Sales /\ ledger \subseteq sales
    /\ \A c \in Customers, d \in Dates : snapshot[c][d] # NoRow =>
         snapshot[c][d].state \in States /\ AsOf(snapshot[c][d].file) = d /\ c \in Known(snapshot[c][d].file)
    /\ \A e \in events : e.customer \in Customers /\ e.asOf \in Dates /\ e.to \in States /\ e.from \in States \cup {NoState}

(* An analysis of the same file again, with no other between, changes no state
   and records no transition.                                                *)
SameFileSilent ==
    [][latest' = latest /\ latest # NoFile =>
         events' = events /\ \A c \in Customers, d \in Dates :
             snapshot[c][d] # NoRow => snapshot'[c][d].state = snapshot[c][d].state]_lifecycleVars

(* The history is complete: where a customer's row differs from the row before
   it, and that row is the one the write had seen, the change has its event; so
   has a customer's first row.                                               *)
ChangesRecorded ==
    \A c \in Customers, d \in Dates :
        LET row == snapshot[c][d] IN
        row # NoRow /\ row.before = Previous(c, d)
        /\ (row.before = NoRow \/ row.before.state # row.state)
        => \E e \in events : e.customer = c /\ e.asOf = d /\ e.to = row.state

(* An event of a day is true of that day: its customer's row has that state.   *)
EventsTrue == \A e \in events : snapshot[e.customer][e.asOf].state = e.to
=============================================================================
