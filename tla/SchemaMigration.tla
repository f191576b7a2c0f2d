--------------------------- MODULE SchemaMigration ---------------------------
(* The upgrade of an installation's database to the schema of today.  The driver
   opens a transaction only at the first row it writes: what the first pending
   migration changes in the schema before that is committed statement by
   statement, everything from there to the record of the last migration at once.
   A line is [id, batch, order, product, ret, day, money, customer, uid], its id
   standing for its place in its file too; an order number is a sequence of parts,
   so that the key of year and number and a number written with a slash may coincide. *)
EXTENDS Integers, FiniteSets, FiniteSetsExt, Sequences, SequencesExt

CONSTANTS
    OldVersions,   \* the versions an installation may have reached
    OldLedgers,    \* the sets of order lines it may hold
    Parts,         \* what the numbers and keys of orders are put together from
    NumberOf,      \* order id -> its number as the first file wrote it
    Normal(_),     \* the definite form of a number
    Mail,          \* customer id -> e-mail address
    OldOwners,     \* the functions from addresses to customers there may already be
    Year(_),       \* the year of a day
    None

Current == 20

(* A line is of one order, one day and one upload, and years follow the days; no two
   lines of a ledger and no two orders are one; no number and no year is None. *)
IsLine(l) ==
    /\ l = [id |-> l.id, batch |-> l.batch, order |-> l.order, product |-> l.product, ret |-> l.ret,
            day |-> l.day, money |-> l.money, customer |-> l.customer, uid |-> l.uid]
    /\ l.id \in Nat /\ l.batch \in Nat /\ l.order \in {<<o>> : o \in DOMAIN NumberOf}
    /\ l.ret \in BOOLEAN /\ l.day \in Int /\ l.money \in Int
    /\ Year(l.day) \in Int /\ Year(l.day) \in Parts /\ Year(l.day) # None
ASSUME MigrationAssumption ==
    /\ OldVersions \subseteq 0..Current
    /\ DOMAIN NumberOf \subseteq Nat
    /\ \A o \in DOMAIN NumberOf : /\ NumberOf[o] \in Seq(Parts) /\ Normal(NumberOf[o]) \in Seq(Parts)
                                  /\ \A p \in DOMAIN NumberOf : NumberOf[o] = NumberOf[p] => o = p
    /\ \A L \in OldLedgers :
         /\ IsFiniteSet(L) /\ \A l \in L : IsLine(l)
         /\ \A l, k \in L : /\ l.id = k.id => l = k
                            /\ l.day <= k.day => Year(l.day) <= Year(k.day)
    /\ None \notin Seq(Parts)
(* The tables, and the version whose migration first made each of them.          *)
Tables == <<[name |-> "orders", born |-> 1], [name |-> "order_lines", born |-> 1],
            [name |-> "customer_features", born |-> 1], [name |-> "import_batches", born |-> 1],
            [name |-> "opportunities", born |-> 2], [name |-> "lifecycle_events", born |-> 3],
            [name |-> "campaign_members", born |-> 4], [name |-> "campaign_outcomes", born |-> 4],
            [name |-> "uplift_snapshots", born |-> 5], [name |-> "contact_suppressions", born |-> 6],
            [name |-> "campaign_sends", born |-> 7], [name |-> "product_cost_history", born |-> 8],
            [name |-> "app_settings", born |-> 9], [name |-> "model_runs", born |-> 10],
            [name |-> "audit_events", born |-> 12], [name |-> "job_runs", born |-> 13],
            [name |-> "import_quarantine", born |-> 14], [name |-> "opportunity_offers", born |-> 15],
            [name |-> "mapping_profile_versions", born |-> 19]>>
CreatesTables == (1..10) \cup (12..15) \cup {19}

(* The columns later migrations add to tables that exist, in their order.        *)
Several(table, m, n) == [i \in 1..n |-> [table |-> table, added |-> m, nth |-> i]]
Added(m) ==
    IF m = 8 THEN Several("order_lines", 8, 1) \o Several("campaign_outcomes", 8, 2)
    ELSE IF m \in {10, 11} THEN Several("customer_features", m, 7)
    ELSE IF m = 15 THEN Several("customer_features", 15, 1) \o Several("campaign_members", 15, 1) \o Several("campaign_sends", 15, 1)
    ELSE IF m = 16 THEN Several("opportunity_offers", 16, 2) \o Several("customer_features", 16, 1)
    ELSE IF m = 18 THEN Several("orders", 18, 2)
    ELSE IF m = 19 THEN Several("import_batches", 19, 2)
    ELSE << >>
AllColumns == UNION {ToSet(Added(m)) : m \in 1..Current}
NumberColumn == [table |-> "orders", added |-> 18, nth |-> 2]
NumberIndex == "ix_orders_order_number"

VARIABLES
    recorded,   \* the versions in schema_migrations
    tables,     \* the tables there are
    columns,    \* the later columns there are
    indexes,    \* the index on order numbers, once it is there
    db,         \* the rows: lines, orders, and the owner of each e-mail address
    process     \* "down", "upgrading", "indexing" or "ready"

schemaVars == <<recorded, tables, columns, indexes, db, process>>

-----------------------------------------------------------------------------
(* An order's header and the lines under it.                                 *)

Under(L, o) == {l \in L : l.order = o}
Sum(L) == MapThenSumSet(LAMBDA l : l.money, L)
Earlier(l, k) == \/ l.id = k.id \/ (~l.ret /\ k.ret)
                 \/ (l.ret = k.ret /\ (l.day < k.day \/ (l.day = k.day /\ l.id < k.id)))
First(L) == CHOOSE l \in L : \A k \in L : Earlier(l, k)
Totals(header, L) ==
    LET mine == Under(L, header.id) IN
    [header EXCEPT !.gross = Sum({l \in mine : ~l.ret}), !.returns = -Sum({l \in mine : l.ret}), !.count = Cardinality(mine)]
Recomputed(header, L) ==
    LET mine == Under(L, header.id) known == {l \in mine : l.customer # None} IN
    [Totals(header, L) EXCEPT !.date = IF mine = {} THEN @ ELSE Min({l.day : l \in mine}),
                              !.customer = IF known = {} THEN None ELSE First(known).customer]
Years(L, o) == {Year(l.day) : l \in Under(L, o)}

(* The identity of a line: year, number, product, kind and place among its equals. *)
LineGroup(O, l) == <<Year(l.day), (CHOOSE o \in O : o.id = l.order).key, l.product, l.ret>>
Identified(O, L) ==
    {[l EXCEPT !.uid = <<LineGroup(O, l), Cardinality({k \in L : LineGroup(O, k) = LineGroup(O, l) /\ k.id < l.id})>>] : l \in L}

-----------------------------------------------------------------------------
(* 17: definite numbers, where no other order has that number; of equal lines from
   several uploads the newest upload's stay; new identities; new totals.     *)
Rekeyed(O) == {o \in O : /\ Normal(o.key) \notin {p.key : p \in O}
                         /\ \A p \in O : Normal(p.key) = Normal(o.key) => o.id[1] <= p.id[1]}
Renumbered(O) == {IF o \in Rekeyed(O) THEN [o EXCEPT !.key = Normal(@)] ELSE o : o \in O}
Twins(O, l, k) == LineGroup(O, l) = LineGroup(O, k) /\ l.money = k.money
WithinUploadMistake(O, L) == {l \in L : ~\E k \in L : Twins(O, l, k) /\ k.id > l.id}
Survivors(O, L) == {l \in L : ~\E k \in L : Twins(O, l, k) /\ k.batch > l.batch}
LineIdentity(d) ==
    LET O == Renumbered(d.orders) L == Survivors(O, d.lines) touched == {l.order : l \in d.lines \ L} IN
    [d EXCEPT !.lines = Identified(O, L), !.orders = {IF o.id \in touched THEN Totals(o, L) ELSE o : o \in O}]

(* 18: a header per year.  The old header keeps the first year, every other year
   gets a header of its own unless its key is taken; attributes that are not on the
   lines go to the year of the upload they came from; new totals for both.   *)
Keyed(o, y) == <<y>> \o o.key
AttributeYear(o, L) ==
    LET last == {l \in Under(L, o.id) : l.batch = o.batch} IN
    IF Cardinality(Years(L, o.id)) = 1 \/ last = {} THEN Min(Years(L, o.id)) ELSE Year(First(last).day)
SplitYears(O, L, o) == {y \in Years(L, o.id) \ {Min(Years(L, o.id))} : Keyed(o, y) \notin {p.key : p \in O}}
Kept(O, L, o) ==
    LET y == Min(Years(L, o.id)) IN
    [o EXCEPT !.key = IF Keyed(o, y) \in {p.key : p \in O} THEN @ ELSE Keyed(o, y), !.period = y, !.number = o.key,
              !.branch = IF AttributeYear(o, L) = y THEN @ ELSE None]
Fresh(o, L, y) ==
    [o EXCEPT !.id = @ \o <<y>>, !.key = Keyed(o, y), !.period = y, !.number = o.key,
              !.branch = IF AttributeYear(o, L) = y THEN @ ELSE None]
OnlyFreshMistake(O, L) == UNION {{o.id \o <<y>> : y \in SplitYears(O, L, o)} : o \in O}
Touched(O, L) == OnlyFreshMistake(O, L) \cup {o.id : o \in {p \in O : Cardinality(Years(L, p.id)) > 1}}
HeaderPeriod(d) ==
    LET O == {o \in d.orders : o.number = None}
        of(l) == CHOOSE o \in d.orders : o.id = l.order
        moved == {IF of(l) \in O /\ Year(l.day) \in SplitYears(d.orders, d.lines, of(l))
                  THEN [l EXCEPT !.order = @ \o <<Year(l.day)>>] ELSE l : l \in d.lines}
        split == {Kept(d.orders, d.lines, o) : o \in O}
                 \cup UNION {{Fresh(o, d.lines, y) : y \in SplitYears(d.orders, d.lines, o)} : o \in O}
        touched == Touched(d.orders, d.lines) IN
    [d EXCEPT !.lines = moved,
              !.orders = (d.orders \ O) \cup {IF o.id \in touched THEN Recomputed(o, moved) ELSE o : o \in split}]

(* 20: an address without an owner goes to the oldest customer who has it.   *)
EmailKeys(d) ==
    [d EXCEPT !.owner = [e \in DOMAIN @ |-> IF @[e] # None \/ ~\E c \in DOMAIN Mail : Mail[c] = e THEN @[e]
                                            ELSE Min({c \in DOMAIN Mail : Mail[c] = e})]]

Pending == (1..Current) \ recorded
Migrated ==
    LET a == IF 17 \in Pending THEN LineIdentity(db) ELSE db
        b == IF 18 \in Pending THEN HeaderPeriod(a) ELSE a IN
    IF 20 \in Pending THEN EmailKeys(b) ELSE b

-----------------------------------------------------------------------------
(* The schema.  create_all makes every table of today that is missing, whole; a
   column is added when it is missing; the index comes with its column.      *)

TableNames == {Tables[i].name : i \in DOMAIN Tables}
Missing == {i \in DOMAIN Tables : Tables[i].name \notin tables}
WholeTable(name) == {c \in AllColumns : c.table = name}
TablesFirstMistake(m) == {i \in DOMAIN Added(m) : Added(m)[i] \notin columns /\ Added(m)[i].table \notin tables}
Lacking(m) == {i \in DOMAIN Added(m) : Added(m)[i] \notin columns}

CreateTable ==
    /\ process = "upgrading" /\ Min(Pending) \in CreatesTables /\ Missing # {}
    /\ LET name == Tables[Min(Missing)].name IN
         /\ tables' = tables \cup {name}
         /\ columns' = columns \cup WholeTable(name)
         /\ indexes' = indexes \cup IF name = "orders" THEN {NumberIndex} ELSE {}
    /\ UNCHANGED <<recorded, db, process>>

TablesDone == Min(Pending) \in CreatesTables => Missing = {}

AddColumn ==
    /\ process = "upgrading" /\ Min(Pending) # 17 /\ TablesDone /\ Lacking(Min(Pending)) # {}
    /\ LET column == Added(Min(Pending))[Min(Lacking(Min(Pending)))] IN
         /\ columns' = columns \cup {column}
         /\ process' = IF column = NumberColumn THEN "indexing" ELSE process
    /\ UNCHANGED <<recorded, tables, indexes, db>>

CreateIndex ==
    /\ process = "indexing" /\ process' = "upgrading"
    /\ indexes' = indexes \cup {NumberIndex}
    /\ UNCHANGED <<recorded, tables, columns, db>>

(* The rows of the first pending migration, its record, all the others, commit. *)
CommitUpgrade ==
    /\ process = "upgrading" /\ TablesDone /\ Lacking(Min(Pending)) = {}
    /\ recorded' = 1..Current /\ process' = "ready"
    /\ tables' = IF Pending \cap CreatesTables # {} THEN TableNames ELSE tables
    /\ columns' = columns \cup (UNION {WholeTable(n) : n \in tables' \ tables})
                          \cup (UNION {{Added(m)[i] : i \in Lacking(m)} : m \in Pending})
    /\ indexes' = indexes \cup IF NumberColumn \in columns' \ columns THEN {NumberIndex} ELSE {}
    /\ db' = Migrated

(* The first use after a start upgrades; with nothing pending it changes nothing. *)
EnsureSchema ==
    /\ process = "down"
    /\ process' = IF Pending = {} THEN "ready" ELSE "upgrading"
    /\ UNCHANGED <<recorded, tables, columns, indexes, db>>

Crash ==
    /\ process # "down" /\ process' = "down"
    /\ UNCHANGED <<recorded, tables, columns, indexes, db>>

-----------------------------------------------------------------------------
(* What an older version left: headers that are the sums of their lines, with the
   customer of the first line and the branch of the last upload.             *)
OldHeader(v, L, o) ==
    LET mine == Under(L, <<o>>) last == Max({l.batch : l \in mine})
        number == IF v < 17 THEN NumberOf[o] ELSE Normal(NumberOf[o]) y == Min(Years(L, <<o>>)) IN
    Recomputed([id |-> <<o>>, key |-> IF v < 18 THEN number ELSE <<y>> \o number,
                period |-> IF v < 18 THEN None ELSE y, number |-> IF v < 18 THEN None ELSE number,
                gross |-> 0, returns |-> 0, count |-> 0, date |-> 0, customer |-> None,
                branch |-> Year(First({l \in mine : l.batch = last}).day), batch |-> last], L)
OldRows(v, L) ==
    LET O == {OldHeader(v, L, l.order[1]) : l \in L}
        numbered == {IF o.number = None THEN o ELSE [o EXCEPT !.key = o.number] : o \in O} IN
    [lines |-> IF v < 17 THEN L ELSE Identified(numbered, L), orders |-> O]
Possible(v, L) ==
    /\ v = 0 => L = {}
    /\ v >= 17 => \A l, k \in L : Normal(NumberOf[l.order[1]]) = Normal(NumberOf[k.order[1]]) => l.order = k.order
    /\ v >= 18 => \A l \in L : Cardinality(Years(L, l.order)) = 1

MigrationInit ==
    \E v \in OldVersions : \E L \in OldLedgers : \E owner \in OldOwners :
       /\ Possible(v, L)
       /\ recorded = 1..v
       /\ tables = {t.name : t \in {x \in ToSet(Tables) : x.born <= v}}
       /\ columns = {c \in AllColumns : c.added <= v}
       /\ indexes = IF v < 18 THEN {} ELSE {NumberIndex}
       /\ db = [lines |-> OldRows(v, L).lines, orders |-> OldRows(v, L).orders, owner |-> owner]
       /\ process = "down"

MigrationNext == EnsureSchema \/ CreateTable \/ AddColumn \/ CreateIndex \/ CommitUpgrade \/ Crash

MigrationSpec == MigrationInit /\ [][MigrationNext]_schemaVars

-----------------------------------------------------------------------------
(* Whatever the version it started from and wherever the process died: a recorded
   migration is wholly in the schema, and with the last one recorded every header
   holds the sum of its lines, a date of their first year that is not after any of
   them, a branch of one of their years, and the lines of one year unless another
   order already has the key of the other; no two lines have one identity, and the
   identity is the one an import would compute.                               *)
HeaderHolds(o, O, L) ==
    LET mine == Under(L, o.id) IN
    /\ o = Totals(o, L)
    /\ mine # {} /\ Year(o.date) = Min(Years(L, o.id)) /\ \A l \in mine : o.date <= l.day
    /\ o.branch # None => o.branch \in Years(L, o.id)
    /\ \A y \in Years(L, o.id) \ {o.period} : \E p \in O \ {o} : p.number = <<y>> \o o.number
LinesAreIdentified(O, L) ==
    /\ \A l, k \in L : l.uid = k.uid => l = k
    /\ \A l \in L : \E o \in O : o.id = l.order /\ l.uid[1] = <<Year(l.day), o.number, l.product, l.ret>>
UpgradedIsSound ==
    /\ recorded = 1..Cardinality(recorded)
    /\ \A v \in recorded : /\ \A t \in ToSet(Tables) : t.born <= v => t.name \in tables
                           /\ ToSet(Added(v)) \subseteq columns
    /\ Pending = {} => /\ \A o \in db.orders : HeaderHolds(o, db.orders, db.lines)
                       /\ LinesAreIdentified(db.orders, db.lines)

(* An upgrade loses no sale: a line that goes has an equal one, under the same
   number, from a newer upload that stays, and as many of them as that upload
   had; and an address keeps the owner it had.  A crash touches no row.  A header
   takes its date and customer from lines it has; only where a copy went they may
   be that copy's, for then its totals alone are taken from what stays.       *)
Speaks(o, mine) ==
    /\ \E l \in mine : l.day = o.date
    /\ o.customer # None => \E l \in mine : l.customer = o.customer
KeepsLedger(old, new) ==
    LET ids == {l.id : l \in new.lines}
        equal(l, k) == /\ Year(l.day) = Year(k.day) /\ l.order = k.order
                       /\ l.product = k.product /\ l.ret = k.ret /\ l.money = k.money
        before(o) == {l \in old.lines : l.order[1] = o.id[1]} IN
    /\ ids \subseteq {l.id : l \in old.lines}
    /\ \A l \in old.lines : l.id \notin ids =>
         \E k \in old.lines : equal(l, k) /\ k.batch > l.batch /\ \A j \in old.lines : equal(j, k) /\ j.batch = k.batch => j.id \in ids
    /\ \A e \in DOMAIN old.owner : old.owner[e] # None => new.owner[e] = old.owner[e]
    /\ \A o \in new.orders : Speaks(o, IF \E l \in before(o) : l.id \notin ids THEN before(o) ELSE Under(new.lines, o.id))
UpgradeKeepsLedger ==
    [][/\ db' # db => KeepsLedger(db, db')
       /\ process' = "down" => db' = db]_schemaVars
=============================================================================
