--------------------------- MODULE OptOutRegister ---------------------------
(***************************************************************************)
(* The register of those who refused contact (mktcore/contact/register.py) *)
(* and the contact gate that is built from it (contact/permission.py).     *)
(*                                                                         *)
(* A row names a customer, a phone or both, per scope; UNIQUE (customer,   *)
(* scope) and UNIQUE (phone, scope).  A row is revoked, never deleted.     *)
(* Every request is one transaction under write_lock.                      *)
(***************************************************************************)
EXTENDS CustomerIdentity

CONSTANTS
    Scopes,     \* what a refusal may be said about; the gate reads "all"
    MaxRows     \* bound: rows of the register

(* The gate spells customer numbers and keys alike, as text: a code of a file *)
(* that is spelled like the number of another customer stands for both.      *)
ASSUME ScopesAssumption == "all" \in Scopes /\ Keys \cap Nat = {}

VARIABLES
    register,   \* contact_suppressions
    refused,    \* history: phones and customers whose last request was to opt out
    freed       \* history: customers a withdrawal named since they were last barred

optOutVars == <<register, refused, freed>>

OptOutInit == register = <<>> /\ refused = {} /\ freed = {}

PhoneOf(dir, c) == dir.people[c].phone

(* The customer a phone belongs to at this moment. *)
HasPhone(dir, p) == {c \in DOMAIN dir.people : p # Unknown /\ PhoneOf(dir, c) = p}

-----------------------------------------------------------------------------
(* The gate.                                                                 *)

Active(reg, scope) == {reg[i] : i \in {j \in DOMAIN reg : reg[j].active /\ reg[j].scope = scope}}

BarredPhones(reg) == {r.phone : r \in Active(reg, "all")} \ {Unknown}

(* Mistake: a refusal by phone does not reach the customer who has it. *)
PhoneOnlyMistake(reg, dir) == {r.customer : r \in Active(reg, "all")} \ {Nobody}

(* active_suppressions, and the customers known by a phone among them. *)
BarredCustomers(reg, dir) ==
    ({r.customer : r \in Active(reg, "all")} \ {Nobody})
        \cup UNION {HasPhone(dir, p) : p \in BarredPhones(reg)}

(* _expand_identifiers: everything the same person is called. *)
Identifiers(dir, S) ==
    S \cup {dir.people[c].name : c \in S} \cup {k \in Keys : dir.owner[k] \in S}

(* ContactGate.reason_for, the part that is about consent. *)
Refuses(reg, dir, key, phone) ==
    key \in Identifiers(dir, BarredCustomers(reg, dir)) \/ phone \in BarredPhones(reg)

Barred(reg, dir) == {c \in DOMAIN dir.people : Refuses(reg, dir, c, PhoneOf(dir, c))}

-----------------------------------------------------------------------------
(* Requests.                                                                 *)

RowsWhere(reg, field, value, scope) ==
    {i \in DOMAIN reg : reg[i][field] = value /\ reg[i].scope = scope}

(* _find_row: by customer, else by phone; 0 if there is none. *)
FindRow(reg, c, p, scope) ==
    LET byId == IF c = Nobody THEN {} ELSE RowsWhere(reg, "customer", c, scope)
        byPhone == IF p = Unknown THEN {} ELSE RowsWhere(reg, "phone", p, scope)
    IN IF byId # {} THEN CHOOSE i \in byId : TRUE
       ELSE IF byPhone # {} THEN CHOOSE i \in byPhone : TRUE ELSE 0

(* The unique constraints. *)
Consistent(reg) ==
    \A i, j \in DOMAIN reg : i # j /\ reg[i].scope = reg[j].scope =>
        /\ reg[i].customer = Nobody \/ reg[i].customer # reg[j].customer
        /\ reg[i].phone = Unknown \/ reg[i].phone # reg[j].phone

(* _record_opt_out_in_session: the other half of the identity is looked up,  *)
(* then a row inserted, or made active again and completed.                  *)
Completed(row, c, p) ==
    [row EXCEPT !.active = TRUE, !.phone = IF @ = Unknown THEN p ELSE @,
                !.customer = IF @ = Nobody THEN c ELSE @]

Recorded(reg, dir, customer, phone, scope) ==
    LET p == IF customer # Nobody /\ phone = Unknown THEN PhoneOf(dir, customer) ELSE phone
        c == IF customer = Nobody /\ HasPhone(dir, p) # {}
             THEN CHOOSE id \in HasPhone(dir, p) : \A o \in HasPhone(dir, p) : id <= o
             ELSE customer
        i == FindRow(reg, c, p, scope)
    IN IF i = 0 THEN Append(reg, [customer |-> c, phone |-> p, scope |-> scope, active |-> TRUE])
       ELSE [reg EXCEPT ![i] = Completed(@, c, p)]

(* One transaction: what breaks a constraint is rolled back, all of it. *)
Commit(reg) ==
    /\ Len(reg) <= MaxRows
    /\ register' = IF Consistent(reg) THEN reg ELSE register
    /\ freed' = freed \ Barred(register', directory)

(* opt_out_customer. *)
OptOutCustomer(c, scope) ==
    /\ Commit(Recorded(register, directory, c, Unknown, scope))
    /\ refused' = IF scope = "all" THEN refused \cup {c} ELSE refused

(* opt_out_by_phone. *)
OptOutPhone(p, scope) ==
    /\ Commit(Recorded(register, directory, Nobody, p, scope))
    /\ refused' = IF scope = "all" THEN refused \cup {p} ELSE refused

(* import_opt_outs: the list of the SMS panel, here of two; what is not a    *)
(* phone is reported as rejected and left out.                               *)
Listed(reg, p) == IF p = Unknown THEN reg ELSE Recorded(reg, directory, Nobody, p, "all")

OptOutList(p, q) ==
    /\ Commit(Listed(Listed(register, p), q))
    /\ refused' = refused \cup ({p, q} \ {Unknown})

(* revoke_opt_out, by customer or by phone. *)
Revoke(c, p, scope) ==
    LET i == FindRow(register, c, p, scope)
        named == ({c} \ {Nobody}) \cup HasPhone(directory, p)
    IN /\ i # 0 /\ register[i].active
       /\ register' = [register EXCEPT ![i].active = FALSE]
       /\ refused' = refused \ (named \cup {p} \cup {PhoneOf(directory, n) : n \in named})
       /\ freed' = freed \cup named

OptOutNext ==
    \/ \E c \in Customers, s \in Scopes : OptOutCustomer(c, s)
    \/ \E p \in Phones, s \in Scopes : OptOutPhone(p, s)
    \/ \E p, q \in Phones \cup {Unknown} : OptOutList(p, q)
    \/ \E c \in Customers, s \in Scopes : Revoke(c, Unknown, s)
    \/ \E p \in Phones, s \in Scopes : Revoke(Nobody, p, s)

-----------------------------------------------------------------------------
(* Nobody is freed by an import or by somebody else's withdrawal: the        *)
(* register as the gate reads it keeps the promise of Consent.               *)
Promise == INSTANCE Consent WITH
    People <- 1..Cardinality(RawKeys),
    barred <- Barred(register, directory), allowed <- freed

KeepsConsent == Promise!ConsentSpec

(* record_opt_out: a refusal said once more "is made active again": who said *)
(* no last is not contacted.                                                 *)
RefusalIsHeard ==
    \A who \in refused :
        IF who \in Phones THEN who \in BarredPhones(register)
        ELSE who \in Barred(register, directory)
=============================================================================
