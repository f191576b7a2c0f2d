---------------------------- MODULE LedgerImport ----------------------------
(***************************************************************************)
(* Writing an analysed file into the canonical ledger                      *)
(* (api/canonical_hook.py, mktcore/db/repo_import.py, repo_mappings.py).   *)
(*                                                                         *)
(* An import is one transaction under write_lock.  The identity of a line  *)
(* decides whether a later export updates it or adds another.  Amounts are *)
(* whole rials already; a returned line has a negative amount.             *)
(***************************************************************************)
EXTENDS CustomerIdentity, Integers, SequencesExt

CONSTANTS
    Files,          \* cleaned frames; see FileAssumption
    MaxImports,     \* bound: batches
    QuarantineCap,  \* QUARANTINE_ROW_CAP
    RawCap          \* mkt_raw_rows_cap

ASSUME FileAssumption ==
    /\ Unknown \notin Int
    /\ \A f \in Files :
        /\ DOMAIN f = {"dataset", "signature", "mapping", "unit", "failed", "hasOrder",
                       "rows", "excluded"}
        /\ f.rows \in Seq({f.rows[i] : i \in DOMAIN f.rows})
        /\ \E i \in DOMAIN f.rows : ~f.rows[i].ret    \* others are not analysed
        /\ \A i \in DOMAIN f.rows :
            /\ DOMAIN f.rows[i] = {"raw", "phone", "email", "date", "order", "spelling",
                                   "product", "ret", "amount", "cost"}
            /\ f.rows[i].raw \in RawKeys \cup {Unknown}
            /\ f.rows[i].phone \in Phones \cup {Unknown}
            /\ f.rows[i].email \in Emails \cup {Unknown}
            /\ f.rows[i].date \in Nat /\ f.rows[i].ret \in BOOLEAN
            /\ f.rows[i].amount \in Int /\ f.rows[i].cost \in Int \cup {Unknown}

VARIABLES
    batches,    \* import_batches, oldest first
    mappings,   \* mapping_profile_versions: signature -> mappings, version 1 first
    lines,      \* order_lines: identity -> line
    headers,    \* orders: <<period, number>> -> header
    products    \* product_aliases: names that have a product

ledgerVars == <<batches, mappings, lines, headers, products>>

EmptyTable == [k \in {} |-> 0]

LedgerInit ==
    /\ batches = <<>>
    /\ mappings = [s \in {f.signature : f \in Files} |-> <<>>]
    /\ lines = EmptyTable
    /\ headers = EmptyTable
    /\ products = {}

(* f overridden by g. *)
Upsert(f, g) == [k \in DOMAIN f \cup DOMAIN g |-> IF k \in DOMAIN g THEN g[k] ELSE f[k]]

Total(S, amount(_)) == FoldSet(LAMBDA x, sum : sum + amount(x), 0, S)

-----------------------------------------------------------------------------
(* The lines of a file.                                                      *)

HasOrder(r) == r.order # Unknown

(* normalize_order_key: "12", "12.0" and Persian digits are one number; the   *)
(* spelling is what it drops.                                                *)
NormalOrder(r) == r.order

(* identity_period: the year; a date is the year, the month and the day in one. *)
Period(r) == r.date \div 10000

(* order_header_key: numbers start again every year. *)
HeaderOf(r) == <<Period(r), NormalOrder(r)>>

(* Lines of one product and one kind in one order. *)
GroupOf(r) == <<Period(r), NormalOrder(r), r.product, r.ret>>

(* Mistake: two lines of one product in an order are one line. *)
NoOrdinalMistake(f, i) == 0

(* Which line of its group a row is, in the order of the file. *)
Ordinal(f, i) == Cardinality({j \in 1..(i - 1) : HasOrder(f.rows[j])
                                              /\ GroupOf(f.rows[j]) = GroupOf(f.rows[i])})

(* Mistake: the identity of a line depends on the file it came in. *)
PerFileMistake(f, i) ==
    IF HasOrder(f.rows[i]) THEN <<"order", GroupOf(f.rows[i]), f.dataset, Ordinal(f, i)>>
    ELSE <<"row", f.dataset, i>>

(* line_uid_for_order, and line_uid for a row without an order number. *)
LineUid(f, i) ==
    IF HasOrder(f.rows[i]) THEN <<"order", GroupOf(f.rows[i]), Ordinal(f, i)>>
    ELSE <<"row", f.dataset, i>>

Uids(f) == {LineUid(f, i) : i \in DOMAIN f.rows}

(* gross_profit_rial: what a line cost is unknown, not nothing. *)
Profit(amount, cost) == IF cost = Unknown THEN Unknown ELSE amount - cost

(* _build_line_payloads: a file without costs has none to give, and what the  *)
(* line had is overwritten with that.                                        *)
Payload(f, batch, customerOf) ==
    [u \in Uids(f) |->
        LET r == f.rows[CHOOSE i \in DOMAIN f.rows : LineUid(f, i) = u]
        IN [batch |-> batch, raw |-> r.raw, product |-> r.product, ret |-> r.ret,
            customer |-> IF r.raw = Unknown THEN Nobody ELSE customerOf[r.raw],
            date |-> r.date, amount |-> r.amount, cost |-> r.cost,
            confidence |-> IF r.cost = Unknown THEN "none" ELSE "from_file",
            profit |-> Profit(r.amount, r.cost),
            header |-> IF HasOrder(r) THEN HeaderOf(r) ELSE <<>>]]

(* _overlap_with_other_uploads, before the lines are written. *)
Overlap(f) ==
    Cardinality({u \in Uids(f) \cap DOMAIN lines :
                    u[1] = "order" /\ batches[lines[u].batch].dataset # f.dataset})

-----------------------------------------------------------------------------
(* The headers of orders.                                                    *)

HeadersIn(f) == {HeaderOf(f.rows[i]) : i \in {j \in DOMAIN f.rows : HasOrder(f.rows[j])}}

(* Mistake: a header is the sum of what this batch brought. *)
FromThisBatchMistake(all, batch, h) == {u \in DOMAIN all : all[u].header = h /\ all[u].batch = batch}

(* _recompute_order_headers: all lines of the order, whichever batch wrote them. *)
LinesUnder(all, batch, h) == {u \in DOMAIN all : all[u].header = h}

Sales(all, S) == Total({u \in S : ~all[u].ret}, LAMBDA u : all[u].amount)
Returns(all, S) == -Total({u \in S : all[u].ret}, LAMBDA u : all[u].amount)

(* _write_orders: the customer is the first one this file names. *)
HeaderCustomer(f, customerOf, h) ==
    LET named == SelectSeq(f.rows, LAMBDA r : HasOrder(r) /\ HeaderOf(r) = h /\ r.raw # Unknown)
    IN IF named = <<>> THEN Nobody ELSE customerOf[named[1].raw]

NewHeaders(f, batch, customerOf, all) ==
    [h \in HeadersIn(f) |->
        LET S == LinesUnder(all, batch, h)
        IN [customer |-> HeaderCustomer(f, customerOf, h), batch |-> batch,
            gross |-> Sales(all, S), returns |-> Returns(all, S), count |-> Cardinality(S)]]

-----------------------------------------------------------------------------
(* What the analysis said (mktcore/analysis/kpis.py) against what the ledger *)
(* holds.                                                                    *)

Names(f, field) == {f.rows[i][field] : i \in DOMAIN f.rows} \ {Unknown}

(* k.n_customers: the keys that bought. *)
Buyers(f) == {f.rows[i].raw : i \in {j \in DOMAIN f.rows : ~f.rows[j].ret}} \ {Unknown}

RowSum(f, S) == Total(S, LAMBDA i : f.rows[i].amount)

(* k.n_orders: orders with a positive net, as the file spells them. *)
KpiOrders(f) ==
    LET spelt(i) == <<f.rows[i].order, f.rows[i].spelling>>
        ordered == {i \in DOMAIN f.rows : HasOrder(f.rows[i])}
    IN Cardinality({o \in {spelt(i) : i \in ordered} :
                        RowSum(f, {i \in ordered : spelt(i) = o}) > 0})

(* L09: the number without its year, as the ledger reads it. *)
LedgerOrders(f) ==
    LET ordered == {i \in DOMAIN f.rows : HasOrder(f.rows[i])}
    IN Cardinality({o \in {NormalOrder(f.rows[i]) : i \in ordered} :
                        RowSum(f, {i \in ordered : NormalOrder(f.rows[i]) = o}) > 0})

Equal(expected, actual) == IF expected = actual THEN "OK" ELSE "MISMATCH"

(* L06 and L10: people and products may be fewer in the ledger than in the   *)
(* file, for some have merged; more of them is an error.  L06 compares those  *)
(* who bought with all who have a line.                                      *)
CustomerCheck(named, found) == IF found > named THEN "MISMATCH" ELSE "OK"

ProductCheck(named, found, without) ==
    IF found > named THEN "MISMATCH" ELSE IF without > 0 THEN "WARN" ELSE "OK"

(* _reconcile, check by check. *)
Checks(f, batch, all, overlap) ==
    LET written == {u \in DOMAIN all : all[u].batch = batch}
        rets == {i \in DOMAIN f.rows : f.rows[i].ret}
        customers == {all[u].customer : u \in written} \ {Nobody}
        made == {all[u].product : u \in written} \ {Unknown}
    IN [L01 |-> Equal(Len(f.rows), Cardinality(written)),
        L02 |-> Equal(RowSum(f, DOMAIN f.rows \ rets), Sales(all, written)),
        L03 |-> Equal(-RowSum(f, rets), Returns(all, written)),
        L05 |-> Equal(Cardinality(rets), Cardinality({u \in written : all[u].ret})),
        L06 |-> CustomerCheck(Cardinality(Buyers(f)), Cardinality(customers)),
        L09 |-> IF f.hasOrder THEN Equal(KpiOrders(f), LedgerOrders(f)) ELSE "WARN",
        L10 |-> ProductCheck(Cardinality(Names(f, "product")), Cardinality(made),
                             Cardinality({u \in written : all[u].product = Unknown}))]

Verdict(checks) ==
    IF \E c \in DOMAIN checks : checks[c] = "MISMATCH" THEN "MISMATCH"
    ELSE IF \E c \in DOMAIN checks : checks[c] = "WARN" THEN "RECONCILED_WITH_WARNINGS"
    ELSE "RECONCILED"

-----------------------------------------------------------------------------
(* posting_block_reasons: the dangerous errors of money. *)
Blockers(f) ==
    (IF f.unit \notin {"rial", "toman"} THEN {"C00"} ELSE {}) \cup (f.failed \cap {"C04", "C05"})

(* _write_quarantine and _write_raw_rows: what of the file is kept row by row, *)
(* and what the notes of the batch say about the rest.  Raw rows are kept of  *)
(* sales only.                                                               *)
Evidence(f) ==
    LET sold == Cardinality({i \in DOMAIN f.rows : ~f.rows[i].ret})
        total == sold + f.excluded
    IN [quarantined |-> IF f.excluded > QuarantineCap THEN QuarantineCap ELSE f.excluded,
        truncated |-> f.excluded > QuarantineCap,
        captured |-> IF total > RawCap THEN 0 ELSE sold,
        skipped |-> IF total > RawCap THEN total ELSE 0]

(* _resolve_products: a name not known yet becomes a product; a line without  *)
(* a name has none.                                                          *)
ResolvedProducts(f) == products \cup Names(f, "product")

Revision(f) == 1 + Cardinality({i \in DOMAIN batches : batches[i].dataset = f.dataset})

(* record_mapping_version: the version that reads the file this way, or the  *)
(* next one.                                                                 *)
MappingVersion(f) ==
    LET history == mappings[f.signature]
        same == {v \in DOMAIN history : history[v] = f.mapping}
    IN IF same # {} THEN CHOOSE v \in same : TRUE ELSE Len(history) + 1

RecordMapping(f) ==
    mappings' = [mappings EXCEPT ![f.signature] =
                     IF MappingVersion(f) > Len(@) THEN Append(@, f.mapping) ELSE @]

Batch(f, status, inserted, updated, overlap, candidates) ==
    [dataset |-> f.dataset, revision |-> Revision(f), file |-> f, version |-> MappingVersion(f),
     status |-> status, inserted |-> inserted, updated |-> updated, overlap |-> overlap,
     candidates |-> candidates, evidence |-> Evidence(f)]

(* _record_blocked_batch: the evidence stays, the ledger is not touched. *)
BlockedImport(f) ==
    /\ Len(batches) < MaxImports
    /\ Blockers(f) # {}
    /\ batches' = Append(batches, Batch(f, "BLOCKED", 0, 0, 0, {}))
    /\ RecordMapping(f)
    /\ UNCHANGED <<directory, lines, headers, products>>

(* write_import. *)
PostedImport(f) ==
    /\ Len(batches) < MaxImports
    /\ Blockers(f) = {}
    /\ LET b == Len(batches) + 1
           found == Resolve(directory, f.rows)
           all == Upsert(lines, Payload(f, b, found.customerOf))
           updated == Cardinality(Uids(f) \cap DOMAIN lines)
       IN /\ directory' = found.directory
          /\ lines' = all
          /\ headers' = Upsert(headers, NewHeaders(f, b, found.customerOf, all))
          /\ batches' = Append(batches,
                 Batch(f, Verdict(Checks(f, b, all, Overlap(f))), Cardinality(Uids(f)) - updated,
                       updated, Overlap(f), found.candidates))
    /\ products' = ResolvedProducts(f)
    /\ RecordMapping(f)

Import == \E f \in Files : BlockedImport(f) \/ PostedImport(f)

-----------------------------------------------------------------------------
Posted == {i \in DOMAIN batches : batches[i].status # "BLOCKED"}

(* Every order says what its lines add up to, whichever uploads brought and  *)
(* corrected them, and in whatever order.                                    *)
HeadersAddUp ==
    \A h \in DOMAIN headers :
        LET S == {u \in DOMAIN lines : lines[u].header = h}
        IN /\ S # {}
           /\ headers[h].count = Cardinality(S)
           /\ headers[h].gross - headers[h].returns = Total(S, LAMBDA u : lines[u].amount)

(* _overlap_with_other_uploads: lines two exports share "are updated, not     *)
(* counted twice": of each product in an order the ledger has as many lines  *)
(* as the export that had most of them.                                      *)
OverlapCountedOnce ==
    LET rowsOf(b, g) == {i \in DOMAIN batches[b].file.rows :
                            /\ HasOrder(batches[b].file.rows[i])
                            /\ GroupOf(batches[b].file.rows[i]) = g}
        ordered(b) == {i \in DOMAIN batches[b].file.rows : HasOrder(batches[b].file.rows[i])}
        groups == UNION {{GroupOf(batches[b].file.rows[i]) : i \in ordered(b)} : b \in Posted}
        held(g) == Cardinality({u \in DOMAIN lines : u[1] = "order" /\ u[2] = g})
    IN \A g \in groups :
        /\ \A b \in Posted : Cardinality(rowsOf(b, g)) <= held(g)
        /\ \E b \in Posted : Cardinality(rowsOf(b, g)) = held(g)

(* A line that is somebody else's than its key in the file says is in the    *)
(* list of merge candidates of some batch, with both of them: a person whose *)
(* purchases are split between two customers is never split silently.        *)
SplitIsReported ==
    \A u \in DOMAIN lines :
        lines[u].raw # Unknown /\ lines[u].customer # directory.owner[lines[u].raw] =>
            \E b \in Posted : \E c \in batches[b].candidates :
                /\ c.raw = lines[u].raw
                /\ c.resolved = lines[u].customer
                /\ c.other = directory.owner[lines[u].raw]

(* One number is spelt in one way in a file. *)
SpeltOnce(f) ==
    \A i, j \in DOMAIN f.rows :
        HasOrder(f.rows[i]) /\ HasOrder(f.rows[j]) /\ f.rows[i].order = f.rows[j].order
            => f.rows[i].spelling = f.rows[j].spelling

(* L01 to L10: whatever was in the ledger before, a file that fails to        *)
(* reconcile with its own analysis spells a number in two ways (L09), or has  *)
(* a return of somebody who buys nothing in it (L06): neither the exports it  *)
(* overlaps nor the customers that merged make it fail.                      *)
FailureIsTheFiles ==
    \A b \in DOMAIN batches : batches[b].status = "MISMATCH" =>
        LET f == batches[b].file IN ~SpeltOnce(f) \/ Names(f, "raw") # Buyers(f)

(* _add_customer_count_check: a file fails by its customers only when one raw *)
(* key has become two of them.  It does not hold: the analysis counts those   *)
(* who bought, the ledger also those who only brought something back.        *)
FailureMeansSplit ==
    \A b \in Posted : batches[b].status = "MISMATCH" /\ SpeltOnce(batches[b].file) =>
        \E u, v \in DOMAIN lines :
            /\ lines[u].batch = b /\ lines[v].batch = b
            /\ lines[u].raw = lines[v].raw /\ lines[u].customer # lines[v].customer
=============================================================================
