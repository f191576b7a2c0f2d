---------------------------- MODULE CostRegister ----------------------------
(***************************************************************************)
(* What the sold goods cost (mktcore/costs/register.py, costs/basis.py,    *)
(* POST /costs): a history of unit costs per product, and the cost and     *)
(* gross profit of every line as of the day it was sold.                   *)
(*                                                                         *)
(* POST /costs is two transactions; an import can come between them, and   *)
(* so can the end of the process.  Quantities are one unit.                *)
(***************************************************************************)
EXTENDS LedgerImport

CONSTANTS
    CostRows,       \* rows of cost files: [product, cost, from], from Unknown if undated
    MaxCostRows     \* bound: rows of the history

ASSUME CostAssumption ==
    \A row \in CostRows : row.cost \in Int /\ row.from \in Nat \cup {Unknown}

Fallback == 19000101    \* FALLBACK_EFFECTIVE_FROM

VARIABLES
    history,    \* product_cost_history: a set of [product, from, cost]
    applying,   \* POST /costs has registered and not yet applied
    applied     \* history: what the cost history was when it was last applied

costVars == <<history, applying, applied>>

CostInit == history = {} /\ applying = FALSE /\ applied = {}

Points(hist, product) == {p \in hist : p.product = product}

(* import_costs: a known product and date are overwritten, an unknown name is *)
(* reported.                                                                 *)
RegisterCost(row) ==
    /\ ~applying /\ Cardinality(history) < MaxCostRows
    /\ LET from == IF row.from = Unknown THEN Fallback ELSE row.from
       IN history' = IF row.product \in products
                     THEN {p \in history : p.product # row.product \/ p.from # from}
                              \cup {[product |-> row.product, from |-> from, cost |-> row.cost]}
                     ELSE history
    /\ applying' = TRUE
    /\ UNCHANGED applied

Latest(points) == CHOOSE p \in points : \A q \in points : q.from <= p.from
Earliest(points) == CHOOSE p \in points : \A q \in points : p.from <= q.from

(* Mistake: the latest supplier price, whenever the line was sold. *)
LatestPriceMistake(points, date) == [cost |-> Latest(points).cost, confidence |-> "history_exact"]

(* CostLookup.at: the cost in force on the day, else the first one after it. *)
CostAt(points, date) ==
    LET before == {p \in points : p.from <= date}
    IN IF before # {} THEN [cost |-> Latest(before).cost, confidence |-> "history_exact"]
       ELSE [cost |-> Earliest(points).cost, confidence |-> "history_imputed"]

(* apply_costs on one line: what came with the file stays; a return gives    *)
(* its cost back.                                                            *)
Priced(hist, line) ==
    IF line.confidence = "from_file" \/ Points(hist, line.product) = {} THEN line
    ELSE LET found == CostAt(Points(hist, line.product), line.date)
             cost == IF line.ret THEN -found.cost ELSE found.cost
         IN [line EXCEPT !.cost = cost, !.confidence = found.confidence,
                         !.profit = Profit(line.amount, cost)]

ApplyCosts ==
    /\ applying /\ applying' = FALSE
    /\ lines' = [u \in DOMAIN lines |-> Priced(history, lines[u])]
    /\ applied' = history
    /\ UNCHANGED history

(* The process ends between the two transactions. *)
ApplyLost == applying /\ applying' = FALSE /\ UNCHANGED <<lines, history, applied>>

-----------------------------------------------------------------------------
(* Every line that was priced from the history is priced as of the day it    *)
(* was sold, never by a later supplier price, through any order of imports,  *)
(* corrections and cost files; and its profit is what it sold for less that. *)
PricedAsOfSale ==
    \A u \in DOMAIN lines :
        LET line == lines[u]
            unit == IF line.ret THEN -line.cost ELSE line.cost
            due == {p \in Points(applied, line.product) : p.from <= line.date}
        IN /\ line.confidence = "history_exact" =>
                \E p \in due : unit = p.cost /\ \A q \in due : q.from <= p.from
           /\ line.confidence = "history_imputed" => due = {}
           /\ line.profit = IF line.cost = Unknown THEN Unknown ELSE line.amount - line.cost

(* CostRow: a cost without a date is one "of always", and the older lines it  *)
(* is given to are labelled imputed, not exact.                              *)
UndatedIsImputed ==
    \A u \in DOMAIN lines :
        lines[u].confidence = "history_exact" =>
            \E p \in Points(applied, lines[u].product) : p.from <= lines[u].date /\ p.from # Fallback
=============================================================================
