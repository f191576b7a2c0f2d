------------------------------ MODULE MCLedger ------------------------------
(* Exports and refusals in one business: what an import learns of a person   *)
(* decides what the register bars.  Before them the database of the business *)
(* is upgraded, which is a part of its own: a behaviour is about the one or  *)
(* the other.                                                                *)
EXTENDS CostRegister, OptOutRegister, SettingsStore, SchemaMigration

CONSTANTS ali, reza, p1, p2, mail, tea, ann, bob, twelve, dotted

Row(raw, phone, email, date, order, spelling, ret, amount) ==
    [raw |-> raw, phone |-> phone, email |-> email, date |-> date, order |-> order,
     spelling |-> spelling, product |-> tea, ret |-> ret, amount |-> amount, cost |-> Unknown]

File(dataset, hasOrder, rows) ==
    [dataset |-> dataset, signature |-> "s", mapping |-> "m1", unit |-> "rial", failed |-> {},
     hasOrder |-> hasOrder, rows |-> rows, excluded |-> 0]

(* An order with two lines of one product. *)
January == File("january", TRUE,
    <<Row(ali, Unknown, mail, 20240105, 12, "12", FALSE, 5),
      Row(ali, Unknown, mail, 20240105, 12, "12", FALSE, 7)>>)

(* Its number again, spelt in two ways, a line corrected, a return, and the     *)
(* phone of the customer.                                                    *)
Quarter == [File("quarter", TRUE,
    <<Row(ali, p1, Unknown, 20240105, 12, "12", FALSE, 6),
      Row(ali, p1, Unknown, 20240301, 12, "12.0", TRUE, -6)>>)
    EXCEPT !.mapping = "m2", !.excluded = 2, !.rows[1].cost = 4]

(* The number of last year used again, by somebody with the same phone. *)
NextYear == File("next year", TRUE,
    <<Row(reza, p1, mail, 20250101, 12, "12", FALSE, 3),
      Row(Unknown, Unknown, Unknown, 20250301, 13, "13", FALSE, 4)>>)

(* No order numbers at all. *)
Till == [File("till", FALSE,
    <<Row(reza, p2, Unknown, 20240201, Unknown, "", FALSE, 2),
      Row(reza, p2, Unknown, 20240201, Unknown, "", FALSE, 2)>>)
    EXCEPT !.excluded = 1]

(* Signs the wrong way round, in a unit nobody knows. *)
Broken == [Till EXCEPT !.dataset = "broken", !.unit = "dollar", !.failed = {"C04", "C06"}]

(* Somebody brings back what the file does not have him buy. *)
Refunds == File("refunds", TRUE,
    <<Row(ali, Unknown, Unknown, 20240401, 14, "14", FALSE, 8),
      Row(reza, Unknown, Unknown, 20240401, 15, "15", TRUE, -2)>>)

Exports == {January, Quarter, NextYear, Till, Broken, Refunds}

DatedCosts == {[product |-> tea, cost |-> 1, from |-> 20240101], [product |-> tea, cost |-> 2, from |-> 20240201],
               [product |-> tea, cost |-> 3, from |-> 20250201]}
AllCosts == DatedCosts \cup {[product |-> tea, cost |-> 1, from |-> Unknown]}

(* An installation with any of ten order lines: one order written "12", of which
   two uploads sent the same sale with another day and customer, one written
   "12.0", one written "2/12" (the key a header of year 2 and number 12 would get),
   sales and returns over two years.                                          *)
Sale(i, batch, order, ret, day, money, who) ==
    [id |-> i, batch |-> batch, order |-> <<order>>, product |-> "tea", ret |-> ret, day |-> day,
     money |-> money, customer |-> who, uid |-> <<<<"file">>, i>>]
Shop == {Sale(1, 1, 1, FALSE, 1, 5, ann), Sale(2, 1, 1, FALSE, 1, 5, None), Sale(3, 2, 1, FALSE, 2, 5, None),
         Sale(4, 2, 1, FALSE, 3, 4, bob), Sale(5, 2, 1, TRUE, 2, -5, ann), Sale(6, 1, 2, FALSE, 3, 2, None),
         Sale(7, 1, 3, FALSE, 4, 5, bob), Sale(8, 2, 3, TRUE, 4, -2, bob), Sale(9, 2, 2, FALSE, 1, 2, ann),
         Sale(10, 3, 3, FALSE, 3, 5, ann)}

MCVersions == {0, 7, 16, 17, 18, 19}
MCLedgers == SUBSET Shop
MCParts == {twelve, dotted, 1, 2}
MCNumbers == << <<twelve>>, <<dotted>>, <<2, twelve>> >>
MCNormal(k) == IF k = <<dotted>> THEN <<twelve>> ELSE k
MCYear(d) == (d + 1) \div 2
MCMail == <<mail, mail>>
MCOwners == {[e \in {mail} |-> None], [e \in {mail} |-> 2]}

VARIABLE focus  \* what a behaviour is about, besides imports

Init ==
    /\ IdentityInit /\ LedgerInit /\ OptOutInit /\ CostInit /\ SettingsInit
    /\ focus \in {"consent", "costs", "settings", "upgrade"}
    /\ IF focus = "upgrade" THEN MigrationInit
       ELSE /\ recorded = {} /\ tables = {} /\ columns = {} /\ indexes = {}
            /\ db = [lines |-> {}, orders |-> {}, owner |-> MCMail] /\ process = "down"

(* What becomes known bars more people, and frees none. *)
Learn ==
    /\ focus \in {"consent", "costs"} /\ Import
    /\ freed' = freed \ Barred(register, directory')
    /\ UNCHANGED <<register, refused, costVars>>

Ask == focus = "consent" /\ OptOutNext /\ UNCHANGED <<directory, ledgerVars, costVars>>

PostCosts ==
    /\ focus = "costs"
    /\ \/ \E row \in CostRows : RegisterCost(row) /\ UNCHANGED lines
       \/ ApplyCosts
       \/ ApplyLost
    /\ UNCHANGED <<directory, batches, mappings, headers, products, optOutVars>>

Govern ==
    /\ focus = "settings" /\ SettingsNext
    /\ UNCHANGED <<directory, ledgerVars, costVars, optOutVars>>

Upgrade ==
    /\ focus = "upgrade" /\ MigrationNext
    /\ UNCHANGED <<directory, ledgerVars, costVars, optOutVars, settings>>

Next ==
    /\ UNCHANGED focus
    /\ \/ (Learn \/ Ask \/ PostCosts) /\ UNCHANGED <<settings, schemaVars>>
       \/ Govern /\ UNCHANGED schemaVars
       \/ Upgrade

Spec == Init /\ [][Next]_<<directory, ledgerVars, costVars, optOutVars, settings, schemaVars, focus>>

(* A phone stands for one customer, and a customer the exports split in two is *)
(* reported as a candidate for merging (_resolve_customers).                 *)
IdentitySound == PhoneIsOnes /\ SplitIsReported

(* However exports overlap and correct each other: headers are the sums of     *)
(* their lines, a shared line counts once, and a file that fails to reconcile *)
(* fails by what is in itself (_recompute_order_headers, _reconcile).         *)
LedgerAddsUp == HeadersAddUp /\ OverlapCountedOnce /\ FailureIsTheFiles
=============================================================================
