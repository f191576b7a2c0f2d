-------------------------- MODULE CustomerIdentity --------------------------
(***************************************************************************)
(* Who a row of an export belongs to                                       *)
(* (mktcore/db/repo_import.py, resolve_customers_with_candidates): by the  *)
(* normalised phone, else by the file's own key, else somebody new.        *)
(* Nobody is ever merged: what contradicts is only listed.                 *)
(***************************************************************************)
EXTENDS Naturals, Sequences, FiniteSets

CONSTANTS
    RawKeys,    \* what files call a customer
    Phones,     \* normalised phones
    Emails,     \* normalised e-mails
    Unknown     \* an empty cell, or a phone that does not normalise

Nobody == 0

ASSUME IdentityAssumption ==
    /\ IsFiniteSet(RawKeys)
    /\ RawKeys \cap Phones = {} /\ RawKeys \cap Emails = {} /\ Phones \cap Emails = {}
    /\ Unknown \notin RawKeys \cup Phones \cup Emails

VARIABLE
    directory   \* people: the rows of customers; owner: customer_keys, Nobody if absent

Keys == RawKeys \cup Phones \cup Emails

IdentityInit == directory = [people |-> <<>>, owner |-> [k \in Keys |-> Nobody]]

RowsOf(rows, raw) == {i \in DOMAIN rows : rows[i].raw = raw}

FirstOf(S) == CHOOSE i \in S : \A j \in S : i <= j

FirstKnown(rows, raw, field) ==
    LET known == {i \in RowsOf(rows, raw) : rows[i][field] # Unknown}
    IN IF known = {} THEN Unknown ELSE rows[FirstOf(known)][field]

(* What a file says of one of its keys: the first phone and the first e-mail. *)
Profile(rows, raw) ==
    [raw |-> raw, phone |-> FirstKnown(rows, raw, "phone"), email |-> FirstKnown(rows, raw, "email")]

OwnerOf(owner, key) == IF key = Unknown THEN Nobody ELSE owner[key]

(* Mistake: the file's own key is believed before the phone. *)
RawKeyFirstMistake(owner, p) ==
    IF OwnerOf(owner, p.raw) # Nobody THEN OwnerOf(owner, p.raw) ELSE OwnerOf(owner, p.phone)

(* The existing customer of a profile: the phone is the stronger evidence. *)
Known(owner, p) ==
    IF OwnerOf(owner, p.phone) # Nobody THEN OwnerOf(owner, p.phone) ELSE OwnerOf(owner, p.raw)

(* Mistake: contradictions of keys are not listed. *)
SilentMistake(owner, p, id) == {}

(* MergeCandidate: evidence that points at another customer. *)
Candidates(owner, p, id) ==
    {[kind |-> "raw_key", raw |-> p.raw, resolved |-> id, other |-> o] :
        o \in {OwnerOf(owner, p.raw)} \ {Nobody, id}}
    \cup
    {[kind |-> "email", raw |-> p.raw, resolved |-> id, other |-> o] :
        o \in {OwnerOf(owner, p.email)} \ {Nobody, id}}

(* An e-mail somebody else owns is not copied. *)
OwnEmail(owner, p, id) ==
    IF OwnerOf(owner, p.email) \in {Nobody, id} THEN p.email ELSE Unknown

(* Mistake: the newest export wins. *)
NewestMistake(old, new) == IF new = Unknown THEN old ELSE new

FillIn(old, new) == IF old = Unknown THEN new ELSE old

(* One profile: find or create its customer, fill in what he lacks, give him *)
(* the keys that are nobody's.                                               *)
ResolveOne(acc, p) ==
    LET owner == acc.directory.owner
        people == acc.directory.people
        found == Known(owner, p)
        id == IF found # Nobody THEN found ELSE Len(people) + 1
        email == OwnEmail(owner, p, id)
        person == IF found = Nobody THEN [name |-> p.raw, phone |-> p.phone, email |-> email]
                  ELSE [people[id] EXCEPT !.phone = FillIn(@, p.phone), !.email = FillIn(@, email)]
    IN [directory |-> [people |-> IF found = Nobody THEN Append(people, person)
                                  ELSE [people EXCEPT ![id] = person],
                       owner |-> [k \in Keys |-> IF k \in {p.raw, p.phone, p.email}
                                                    /\ owner[k] = Nobody
                                                 THEN id ELSE owner[k]]],
        customerOf |-> [k \in DOMAIN acc.customerOf \cup {p.raw} |->
                            IF k = p.raw THEN id ELSE acc.customerOf[k]],
        candidates |-> acc.candidates \cup Candidates(owner, p, id)]

(* One profile per key of the file, in the order of first appearance.        *)
Resolving(dir, rows) ==
    LET upTo[i \in 0..Len(rows)] ==
            IF i = 0
            THEN [directory |-> dir, customerOf |-> [k \in {} |-> Nobody], candidates |-> {}]
            ELSE IF rows[i].raw # Unknown /\ i = FirstOf(RowsOf(rows, rows[i].raw))
                 THEN ResolveOne(upTo[i - 1], Profile(rows, rows[i].raw))
                 ELSE upTo[i - 1]
    IN upTo

Resolve(dir, rows) == Resolving(dir, rows)[Len(rows)]

Customers == DOMAIN directory.people

-----------------------------------------------------------------------------
(* No two customers have the same phone: what is asked of a phone is asked   *)
(* of one customer, whatever the order the exports came in and whichever of  *)
(* the keys each of them named.                                              *)
PhoneIsOnes ==
    \A a, b \in Customers :
        directory.people[a].phone = directory.people[b].phone
        /\ directory.people[a].phone # Unknown => a = b
=============================================================================
