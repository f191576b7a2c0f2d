---------------------------- MODULE LedgerProofs ----------------------------
(***************************************************************************)
(* What holds in the canonical ledger for every set of exports, cost files *)
(* and requests: the register keeps the promise of Consent, a phone stands *)
(* for one customer, a split customer is reported, a line is priced as of  *)
(* the day it was sold, the thresholds of a policy stay in order, orders   *)
(* add up, and what is posted reconciles.                                  *)
(***************************************************************************)
EXTENDS MCLedger, NatFacts, FiniteSetTheorems, SequenceTheorems, TLAPS

-----------------------------------------------------------------------------
(* The directory.                                                            *)

Person == [name : RawKeys, phone : Phones \cup {Unknown}, email : Emails \cup {Unknown}]

(* Every customer owns the key he was created for and the phone he has.      *)
WellKept(d) ==
    /\ d.people \in Seq(Person)
    /\ d.owner \in [Keys -> 0..Len(d.people)]
    /\ \A c \in DOMAIN d.people :
        /\ d.owner[d.people[c].name] = c
        /\ d.people[c].phone # Unknown => d.owner[d.people[c].phone] = c

(* Nobody goes, no key changes hands, no phone is replaced.                  *)
Grows(d, e) ==
    /\ Len(d.people) <= Len(e.people)
    /\ \A c \in DOMAIN d.people : d.people[c].phone # Unknown => e.people[c].phone = d.people[c].phone
    /\ \A k \in Keys : d.owner[k] # Nobody => e.owner[k] = d.owner[k]

(* What is not its owner's is listed.                                        *)
Reported(acc) ==
    \A raw \in DOMAIN acc.customerOf :
        /\ raw \in RawKeys
        /\ acc.directory.owner[raw] # Nobody
        /\ acc.customerOf[raw] # acc.directory.owner[raw] =>
            \E c \in acc.candidates :
                c.raw = raw /\ c.resolved = acc.customerOf[raw] /\ c.other = acc.directory.owner[raw]

(* The phone and the e-mail of a profile are of their kinds.                 *)
Typed(p) == p.raw \in RawKeys /\ p.phone \in Phones \cup {Unknown} /\ p.email \in Emails \cup {Unknown}

(* The customer a profile is found to be is one of the directory.            *)
LEMMA KnownIsSomebody ==
    ASSUME NEW d, WellKept(d), NEW p, Typed(p)
    PROVE  /\ Known(d.owner, p) \in 0..Len(d.people)
           /\ Known(d.owner, p) = Nobody => d.owner[p.raw] = Nobody
           /\ p.phone # Unknown /\ d.owner[p.phone] # Nobody => Known(d.owner, p) = d.owner[p.phone]
           /\ Known(d.owner, p) = Nobody /\ p.phone # Unknown => d.owner[p.phone] = Nobody
<1>1. p.raw \in Keys /\ p.raw # Unknown /\ (p.phone # Unknown => p.phone \in Keys)
  BY IdentityAssumption DEF Typed, Keys
<1>2. Len(d.people) \in Nat
  BY DEF WellKept
<1>3. d.owner[p.raw] \in 0..Len(d.people) /\ (p.phone # Unknown => d.owner[p.phone] \in 0..Len(d.people))
  BY <1>1 DEF WellKept
<1> QED
  BY <1>1, <1>2, <1>3 DEF Known, OwnerOf, Nobody

(* One profile keeps the directory in order, takes nothing back, and lists    *)
(* what is another's (the loop of resolve_customers_with_candidates).        *)
LEMMA ResolveOneKeeps ==
    ASSUME NEW acc, WellKept(acc.directory), Reported(acc), NEW p, Typed(p)
    PROVE  /\ WellKept(ResolveOne(acc, p).directory)
           /\ Grows(acc.directory, ResolveOne(acc, p).directory)
           /\ Reported(ResolveOne(acc, p))
           /\ DOMAIN ResolveOne(acc, p).customerOf = DOMAIN acc.customerOf \cup {p.raw}
<1> DEFINE d == acc.directory
           found == Known(d.owner, p)
           id == IF found # Nobody THEN found ELSE Len(d.people) + 1
           email == OwnEmail(d.owner, p, id)
           person == IF found = Nobody THEN [name |-> p.raw, phone |-> p.phone, email |-> email]
                     ELSE [d.people[id] EXCEPT !.phone = FillIn(@, p.phone), !.email = FillIn(@, email)]
           people == IF found = Nobody THEN Append(d.people, person) ELSE [d.people EXCEPT ![id] = person]
           owner == [k \in Keys |-> IF k \in {p.raw, p.phone, p.email} /\ d.owner[k] = Nobody
                                    THEN id ELSE d.owner[k]]
           res == ResolveOne(acc, p)
<1>1. /\ res.directory.people = people /\ res.directory.owner = owner
      /\ res.customerOf = [k \in DOMAIN acc.customerOf \cup {p.raw} |->
                              IF k = p.raw THEN id ELSE acc.customerOf[k]]
      /\ res.candidates = acc.candidates \cup Candidates(d.owner, p, id)
  BY DEF ResolveOne
<1>2. /\ Len(d.people) \in Nat /\ DOMAIN d.people = 1..Len(d.people)
      /\ \A c \in 1..Len(d.people) : d.people[c] \in Person
      /\ d.owner \in [Keys -> 0..Len(d.people)]
  BY DEF WellKept
<1>3. /\ found \in 0..Len(d.people)
      /\ found = Nobody => d.owner[p.raw] = Nobody
      /\ p.phone # Unknown /\ d.owner[p.phone] # Nobody => found = d.owner[p.phone]
      /\ found = Nobody /\ p.phone # Unknown => d.owner[p.phone] = Nobody
  BY KnownIsSomebody
<1>4. /\ p.raw \in Keys /\ p.raw \in RawKeys /\ p.raw # Unknown /\ p.raw # p.phone
      /\ p.phone \in Phones \cup {Unknown} /\ p.email \in Emails \cup {Unknown}
      /\ (p.phone # Unknown => p.phone \in Keys)
  BY IdentityAssumption DEF Typed, Keys
<1>5. email \in Emails \cup {Unknown}
  BY <1>4 DEF OwnEmail
<1>6. id \in 1..(Len(d.people) + 1) /\ (found # Nobody => id \in 1..Len(d.people))
  BY <1>2, <1>3 DEF Nobody
<1> HIDE DEF d, found, email, res
<1>7. person \in Person
  <2>1. CASE found = Nobody
    BY <2>1, <1>4, <1>5 DEF Person
  <2>2. CASE found # Nobody
    <3>1. d.people[id] \in Person
      BY <2>2, <1>2, <1>6
    <3> QED
      BY <2>2, <3>1, <1>4, <1>5 DEF Person, FillIn
  <2> QED
    BY <2>1, <2>2
<1> HIDE DEF person, id
<1>8. /\ people \in Seq(Person)
      /\ Len(people) = IF found = Nobody THEN Len(d.people) + 1 ELSE Len(d.people)
      /\ id \in 1..Len(people) /\ people[id] = person
      /\ \A c \in 1..Len(people) : c # id => c \in 1..Len(d.people) /\ people[c] = d.people[c]
  <2>1. CASE found = Nobody
    <3>1. id = Len(d.people) + 1
      BY <2>1 DEF id
    <3>2. d.people \in Seq(Person)
      BY DEF WellKept, d
    <3> QED
      BY <2>1, <3>1, <3>2, <1>2, <1>7
  <2>2. CASE found # Nobody
    <3>1. d.people \in Seq(Person)
      BY DEF WellKept, d
    <3> QED
      BY <2>2, <3>1, <1>2, <1>6, <1>7, ExceptSeq
  <2> QED
    BY <2>1, <2>2
<1> HIDE DEF people
<1>9. \A k \in Keys : /\ owner[k] \in 0..Len(people)
                      /\ d.owner[k] # Nobody => owner[k] = d.owner[k]
                      /\ owner[k] # d.owner[k] => owner[k] = id
                      /\ k \in {p.raw, p.phone} => owner[k] # Nobody
  BY <1>2, <1>6, <1>8 DEF Nobody
<1>10. owner \in [Keys -> 0..Len(people)]
  BY <1>9
<1>11. \A k \in {p.raw, p.phone} : k \in Keys /\ d.owner[k] = Nobody => owner[k] = id
  OBVIOUS
<1> HIDE DEF owner
<1>12. person.phone # Unknown => owner[person.phone] = id
  <2>1. CASE found = Nobody
    BY <2>1, <1>3, <1>4, <1>11 DEF person
  <2>2. CASE found # Nobody
    <3>1. id = found /\ id \in 1..Len(d.people)
      BY <2>2, <1>6 DEF id
    <3>2. person.phone = FillIn(d.people[id].phone, p.phone)
      BY <2>2, <3>1, <1>2 DEF person, Person
    <3>3. CASE d.people[id].phone # Unknown
      <4>1. d.owner[d.people[id].phone] = id /\ d.people[id].phone \in Keys
        BY <3>1, <3>3, <1>2 DEF WellKept, d, Person, Keys
      <4> QED
        BY <4>1, <3>1, <3>2, <3>3, <1>9 DEF FillIn, Nobody
    <3>4. CASE d.people[id].phone = Unknown /\ p.phone # Unknown
      <4>1. CASE d.owner[p.phone] = Nobody
        BY <3>2, <3>4, <4>1, <1>4, <1>11 DEF FillIn
      <4>2. CASE d.owner[p.phone] # Nobody
        BY <3>1, <3>2, <3>4, <4>2, <1>3, <1>4, <1>9 DEF FillIn
      <4> QED
        BY <4>1, <4>2
    <3> QED
      BY <3>2, <3>3, <3>4 DEF FillIn
  <2> QED
    BY <2>1, <2>2
<1>13. owner[person.name] = id
  <2>1. CASE found = Nobody
    BY <2>1, <1>3, <1>4, <1>11 DEF person
  <2>2. CASE found # Nobody
    <3>1. id = found /\ id \in 1..Len(d.people)
      BY <2>2, <1>6 DEF id
    <3>2. person.name = d.people[id].name
      BY <2>2, <3>1, <1>2 DEF person, Person
    <3>3. d.owner[d.people[id].name] = id /\ d.people[id].name \in Keys
      BY <3>1, <1>2 DEF WellKept, d, Person, Keys
    <3> QED
      BY <3>1, <3>2, <3>3, <1>9 DEF Nobody
  <2> QED
    BY <2>1, <2>2
<1>14. ASSUME NEW c \in 1..Len(people), c # id
       PROVE  owner[people[c].name] = c /\ (people[c].phone # Unknown => owner[people[c].phone] = c)
  <2>1. c \in 1..Len(d.people) /\ people[c] = d.people[c] /\ d.people[c] \in Person
    BY <1>2, <1>8, <1>14
  <2>2. /\ d.owner[d.people[c].name] = c
        /\ d.people[c].phone # Unknown => d.owner[d.people[c].phone] = c
    BY <2>1, <1>2 DEF WellKept, d
  <2>3. d.people[c].name \in Keys /\ (d.people[c].phone # Unknown => d.people[c].phone \in Keys)
    BY <2>1 DEF Person, Keys
  <2> QED
    BY <2>1, <2>2, <2>3, <1>9 DEF Nobody
<1>15. WellKept(res.directory)
  <2>1. DOMAIN people = 1..Len(people)
    BY <1>8
  <2> QED
    BY <2>1, <1>1, <1>8, <1>10, <1>12, <1>13, <1>14 DEF WellKept, d, res
<1>16. Grows(d, res.directory)
  <2>1. ASSUME NEW c \in 1..Len(d.people), d.people[c].phone # Unknown
        PROVE  people[c].phone = d.people[c].phone
    <3>1. CASE c # id
      BY <3>1, <1>2, <1>8
    <3>2. CASE c = id
      <4>1. found # Nobody
        BY <3>2, <1>2 DEF id
      <4>2. person.phone = FillIn(d.people[id].phone, p.phone)
        BY <4>1, <3>2, <1>2 DEF person, Person
      <4> QED
        BY <2>1, <3>2, <4>2, <1>8 DEF FillIn
    <3> QED
      BY <3>1, <3>2
  <2> QED
    BY <2>1, <1>1, <1>2, <1>8, <1>9 DEF Grows, d, res
<1>17. Reported(res)
  <2> SUFFICES ASSUME NEW raw \in DOMAIN acc.customerOf \cup {p.raw}
               PROVE  /\ raw \in RawKeys
                      /\ owner[raw] # Nobody
                      /\ res.customerOf[raw] # owner[raw] =>
                            \E c \in res.candidates :
                                c.raw = raw /\ c.resolved = res.customerOf[raw] /\ c.other = owner[raw]
    BY <1>1 DEF Reported, d, res
  <2>1. CASE raw = p.raw
    <3>1. raw \in RawKeys /\ owner[raw] # Nobody /\ res.customerOf[raw] = id
      BY <2>1, <1>1, <1>4, <1>9 DEF res
    <3>2. ASSUME id # owner[raw]
          PROVE  \E c \in Candidates(d.owner, p, id) : c.raw = raw /\ c.resolved = id /\ c.other = owner[raw]
      <4>1. d.owner[raw] = owner[raw] /\ owner[raw] \notin {Nobody, id}
        BY <2>1, <3>1, <3>2, <1>4, <1>9, <1>11
      <4>2. [kind |-> "raw_key", raw |-> p.raw, resolved |-> id, other |-> owner[raw]]
                \in Candidates(d.owner, p, id)
        BY <4>1, <2>1, <1>4 DEF Candidates, OwnerOf
      <4> QED
        BY <4>2, <2>1
    <3> QED
      BY <3>1, <3>2, <1>1
  <2>2. CASE raw # p.raw
    <3>1. /\ raw \in DOMAIN acc.customerOf /\ res.customerOf[raw] = acc.customerOf[raw]
          /\ raw \in RawKeys /\ d.owner[raw] # Nobody
          /\ acc.customerOf[raw] # d.owner[raw] =>
                \E c \in acc.candidates :
                    c.raw = raw /\ c.resolved = acc.customerOf[raw] /\ c.other = d.owner[raw]
      BY <2>2, <1>1 DEF Reported, d, res
    <3>2. owner[raw] = d.owner[raw]
      BY <3>1, <1>9 DEF Keys
    <3> QED
      BY <3>1, <3>2, <1>1
  <2> QED
    BY <2>1, <2>2
<1> QED
  BY <1>1, <1>15, <1>16, <1>17 DEF d, res

(* The first of some rows.                                                   *)
LEMMA FirstIsFirst ==
    ASSUME NEW S \in SUBSET Nat, S # {}
    PROVE  FirstOf(S) \in S /\ \A j \in S : FirstOf(S) <= j
<1>1. \E i \in S : \A j \in S : i <= j
  BY LeastExists
<1> QED
  BY <1>1 DEF FirstOf

(* A file is a sequence of rows.                                             *)
LEMMA RowsAreASequence ==
    ASSUME NEW f \in Files
    PROVE  Len(f.rows) \in Nat /\ DOMAIN f.rows = 1..Len(f.rows)
<1>1. f.rows \in Seq({f.rows[i] : i \in DOMAIN f.rows})
  BY FileAssumption
<1> QED
  BY <1>1

(* What the rows of a key say, put together, is of its kind (_resolve_customers). *)
LEMMA ProfileTyped ==
    ASSUME NEW f \in Files, NEW i \in DOMAIN f.rows, f.rows[i].raw # Unknown
    PROVE  Typed(Profile(f.rows, f.rows[i].raw))
<1> DEFINE raw == f.rows[i].raw
           known(field) == {j \in RowsOf(f.rows, raw) : f.rows[j][field] # Unknown}
<1>1. DOMAIN f.rows \subseteq Nat
  BY RowsAreASequence
<1>2. \A j \in DOMAIN f.rows : /\ f.rows[j].phone \in Phones \cup {Unknown}
                               /\ f.rows[j].email \in Emails \cup {Unknown}
                               /\ f.rows[j].raw \in RawKeys \cup {Unknown}
  BY FileAssumption
<1>3. ASSUME NEW field, known(field) # {} PROVE FirstOf(known(field)) \in DOMAIN f.rows
  BY <1>1, <1>3, FirstIsFirst DEF RowsOf
<1>4. FirstKnown(f.rows, raw, "phone") \in Phones \cup {Unknown}
  BY <1>2, <1>3 DEF FirstKnown
<1>5. FirstKnown(f.rows, raw, "email") \in Emails \cup {Unknown}
  BY <1>2, <1>3 DEF FirstKnown
<1> QED
  BY <1>2, <1>4, <1>5 DEF Typed, Profile

Start(d) == [directory |-> d, customerOf |-> [k \in {} |-> Nobody], candidates |-> {}]

Resolved(acc, rows, i) ==
    IF rows[i].raw # Unknown /\ i = FirstOf(RowsOf(rows, rows[i].raw))
    THEN ResolveOne(acc, Profile(rows, rows[i].raw)) ELSE acc

(* The rows are resolved one after another: the recursion of Resolving has a *)
(* solution, and this is what it says.                                       *)
LEMMA ResolvingIsStepwise ==
    ASSUME NEW d, NEW rows, Len(rows) \in Nat
    PROVE  /\ Resolving(d, rows)[0] = Start(d)
           /\ \A i \in 1..Len(rows) :
                Resolving(d, rows)[i] = Resolved(Resolving(d, rows)[i - 1], rows, i)
<1> DEFINE Step(g, i) == IF i = 0 THEN Start(d) ELSE Resolved(g[i - 1], rows, i)
           Solves(g, n) == g = [i \in 0..n |-> Step(g, i)]
           bad == {n \in Nat : ~ \E g : Solves(g, n)}
<1>1. bad = {}
  <2> SUFFICES ASSUME bad # {} PROVE FALSE
    OBVIOUS
  <2>1. PICK m \in bad : \A n \in bad : m <= n
    BY LeastExists
  <2>2. m # 0
    <3>1. \E g : Solves(g, 0)
      <4> DEFINE g == [i \in 0..0 |-> Start(d)]
      <4>1. \A i \in 0..0 : g[i] = Step(g, i)
        OBVIOUS
      <4>2. Solves(g, 0)
        BY <4>1
      <4> QED
        BY <4>2
    <3> QED
      BY <3>1, <2>1
  <2>3. m \in Nat /\ m - 1 \in Nat /\ m - 1 \notin bad
    <3>1. m \in Nat
      BY <2>1
    <3> HIDE DEF bad
    <3> QED
      BY <3>1, <2>1, <2>2
  <2>4. PICK g : Solves(g, m - 1)
    BY <2>3
  <2> DEFINE h == [i \in 0..m |-> IF i < m THEN g[i] ELSE Resolved(g[m - 1], rows, m)]
  <2>5. \A i \in 0..(m - 1) : g[i] = Step(g, i)
    BY <2>4
  <2>6. \A i \in 0..m : h[i] = Step(h, i)
    <3> SUFFICES ASSUME NEW i \in 0..m PROVE h[i] = Step(h, i)
      OBVIOUS
    <3>1. CASE i = 0
      BY <3>1, <2>2, <2>3, <2>5
    <3>2. CASE i # 0 /\ i < m
      <4>1. i - 1 \in 0..(m - 1) /\ i \in 0..(m - 1) /\ i - 1 < m /\ i - 1 \in 0..m
        BY <3>2, <2>3
      <4>2. h[i] = g[i] /\ h[i - 1] = g[i - 1]
        BY <4>1, <3>2
      <4>3. g[i] = Step(g, i)
        BY <4>1, <2>5
      <4> QED
        BY <4>2, <4>3
    <3>3. CASE i = m
      <4>1. m - 1 \in 0..m /\ m - 1 < m /\ m \in 0..m /\ ~(m < m)
        BY <2>3
      <4>2. h[m] = Resolved(g[m - 1], rows, m) /\ h[m - 1] = g[m - 1]
        BY <4>1
      <4> QED
        BY <4>2, <3>3, <2>2
    <3> QED
      BY <3>1, <3>2, <3>3, <2>3
  <2>7. Solves(h, m)
    BY <2>6
  <2> QED
    BY <2>7, <2>1
<1>2. PICK g : Solves(g, Len(rows))
  BY <1>1
<1>3. Resolving(d, rows) = CHOOSE g1 : Solves(g1, Len(rows))
  BY Zenon DEF Resolving, Start, Resolved
<1>4. Solves(Resolving(d, rows), Len(rows))
  BY <1>2, <1>3, Zenon
<1> DEFINE r == Resolving(d, rows)
<1>5. \A i \in 0..Len(rows) : r[i] = Step(r, i)
  BY <1>4
<1> HIDE DEF r
<1>6. r[0] = Start(d) /\ \A i \in 1..Len(rows) : r[i] = Resolved(r[i - 1], rows, i)
  BY <1>5
<1> QED
  BY <1>6 DEF r

(* What a directory keeps through one step and through another, it keeps.    *)
LEMMA GrowsOn ==
    ASSUME NEW d, NEW e, NEW g, WellKept(d), WellKept(e), WellKept(g), Grows(d, e), Grows(e, g)
    PROVE  Grows(d, g)
<1>1. /\ Len(d.people) \in Nat /\ DOMAIN d.people = 1..Len(d.people)
      /\ Len(e.people) \in Nat /\ DOMAIN e.people = 1..Len(e.people)
      /\ Len(g.people) \in Nat /\ Len(d.people) <= Len(e.people) /\ Len(e.people) <= Len(g.people)
  BY DEF WellKept, Grows
<1>2. ASSUME NEW c \in DOMAIN d.people, d.people[c].phone # Unknown
      PROVE  g.people[c].phone = d.people[c].phone
  <2>1. c \in DOMAIN e.people
    BY <1>1
  <2>2. e.people[c].phone = d.people[c].phone
    BY <1>2 DEF Grows
  <2> QED
    BY <2>1, <2>2, <1>2 DEF Grows
<1>3. ASSUME NEW k \in Keys, d.owner[k] # Nobody PROVE g.owner[k] = d.owner[k]
  BY <1>3 DEF Grows
<1> QED
  BY <1>1, <1>2, <1>3 DEF Grows

(* A whole file keeps the directory in order and takes nothing back, gives   *)
(* every key of it a customer, and lists those whose key is another's.       *)
LEMMA ResolveKeeps ==
    ASSUME NEW f \in Files, NEW d, WellKept(d)
    PROVE  /\ WellKept(Resolve(d, f.rows).directory)
           /\ Grows(d, Resolve(d, f.rows).directory)
           /\ Reported(Resolve(d, f.rows))
           /\ \A i \in DOMAIN f.rows :
                f.rows[i].raw # Unknown => f.rows[i].raw \in DOMAIN Resolve(d, f.rows).customerOf
<1> DEFINE rows == f.rows
           r == Resolving(d, rows)
           Good(i) == /\ WellKept(r[i].directory) /\ Grows(d, r[i].directory) /\ Reported(r[i])
                      /\ \A j \in 1..i : rows[j].raw # Unknown =>
                            rows[j].raw \in DOMAIN r[i].customerOf
           bad == {i \in 0..Len(rows) : ~Good(i)}
<1>1. Len(rows) \in Nat /\ DOMAIN rows = 1..Len(rows)
  BY RowsAreASequence
<1>2. /\ r[0] = Start(d)
      /\ \A i \in 1..Len(rows) : r[i] = Resolved(r[i - 1], rows, i)
  BY <1>1, ResolvingIsStepwise
<1> HIDE DEF r
<1>3. Good(0)
  <2>1. WellKept(r[0].directory) /\ r[0].directory = d
    BY <1>2 DEF Start
  <2>2. Grows(d, d)
    <3>1. Len(d.people) \in Nat
      BY DEF WellKept
    <3> QED
      BY <3>1 DEF Grows
  <2>3. Reported(r[0])
    BY <1>2 DEF Reported, Start
  <2> QED
    BY <2>1, <2>2, <2>3
<1>4. ASSUME NEW i \in 1..Len(rows), Good(i - 1) PROVE Good(i)
  <2> DEFINE raw == rows[i].raw
  <2>1. r[i] = Resolved(r[i - 1], rows, i)
    BY <1>2
  <2>2. i \in DOMAIN rows /\ i \in Nat /\ i - 1 \in Nat
    BY <1>1
  <2>3. CASE raw # Unknown /\ i = FirstOf(RowsOf(rows, raw))
    <3>1. r[i] = ResolveOne(r[i - 1], Profile(rows, raw))
      BY <2>1, <2>3 DEF Resolved
    <3>2. Typed(Profile(rows, raw)) /\ Profile(rows, raw).raw = raw
      BY <2>2, <2>3, ProfileTyped DEF Profile
    <3>3. /\ WellKept(r[i].directory) /\ Grows(r[i - 1].directory, r[i].directory) /\ Reported(r[i])
          /\ DOMAIN r[i].customerOf = DOMAIN r[i - 1].customerOf \cup {raw}
      BY <1>4, <3>1, <3>2, ResolveOneKeeps
    <3>4. Grows(d, r[i].directory)
      BY <1>4, <3>3, GrowsOn
    <3>5. ASSUME NEW j \in 1..i, rows[j].raw # Unknown PROVE rows[j].raw \in DOMAIN r[i].customerOf
      <4>1. CASE j = i
        BY <4>1, <3>3
      <4>2. CASE j # i
        <5>1. j \in 1..(i - 1)
          BY <4>2, <2>2
        <5> QED
          BY <5>1, <3>3, <3>5, <1>4
      <4> QED
        BY <4>1, <4>2
    <3> QED
      BY <3>3, <3>4, <3>5
  <2>4. CASE raw # Unknown /\ i # FirstOf(RowsOf(rows, raw))
    <3>1. r[i] = r[i - 1]
      BY <2>1, <2>4 DEF Resolved
    <3> DEFINE first == FirstOf(RowsOf(rows, raw))
    <3>2. first \in RowsOf(rows, raw) /\ first <= i
      <4>1. RowsOf(rows, raw) \in SUBSET Nat /\ i \in RowsOf(rows, raw)
        BY <1>1, <2>2 DEF RowsOf
      <4> QED
        BY <4>1, FirstIsFirst
    <3>3. first \in 1..(i - 1) /\ rows[first].raw = raw
      <4>1. first \in 1..Len(rows) /\ rows[first].raw = raw
        BY <3>2, <1>1 DEF RowsOf
      <4>2. first # i
        BY <2>4
      <4> HIDE DEF first
      <4> QED
        BY <4>1, <4>2, <3>2, <2>2, <1>1
    <3>4. raw \in DOMAIN r[i].customerOf
      BY <3>1, <3>3, <2>4, <1>4
    <3>5. ASSUME NEW j \in 1..i, rows[j].raw # Unknown PROVE rows[j].raw \in DOMAIN r[i].customerOf
      <4>1. CASE j = i
        BY <4>1, <3>4
      <4>2. CASE j # i
        <5>1. j \in 1..(i - 1)
          BY <4>2, <2>2
        <5> QED
          BY <5>1, <3>1, <3>5, <1>4
      <4> QED
        BY <4>1, <4>2
    <3> QED
      BY <3>1, <3>5, <1>4
  <2>5. CASE raw = Unknown
    <3>1. r[i] = r[i - 1]
      BY <2>1, <2>5 DEF Resolved
    <3>2. ASSUME NEW j \in 1..i, rows[j].raw # Unknown PROVE rows[j].raw \in DOMAIN r[i].customerOf
      <4>1. j \in 1..(i - 1)
        BY <3>2, <2>2, <2>5
      <4> QED
        BY <4>1, <3>1, <3>2, <1>4
    <3> QED
      BY <3>1, <3>2, <1>4
  <2> QED
    BY <2>3, <2>4, <2>5
<1> HIDE DEF Good
<1>5. bad = {}
  <2> SUFFICES ASSUME bad # {} PROVE FALSE
    OBVIOUS
  <2>1. bad \in SUBSET Nat
    BY <1>1
  <2>2. PICK m \in bad : \A n \in bad : m <= n
    BY <2>1, LeastExists
  <2>3. m \in 0..Len(rows) /\ ~Good(m)
    BY <2>2
  <2>4. m # 0 /\ m \in 1..Len(rows) /\ m - 1 \in 0..Len(rows)
    BY <2>3, <1>1, <1>3
  <2>5. ~Good(m - 1)
    BY <2>3, <2>4, <1>4
  <2>6. m - 1 \in bad
    BY <2>4, <2>5
  <2> HIDE DEF bad
  <2> QED
    BY <2>2, <2>6, <2>4, <1>1
<1>6. Good(Len(rows))
  BY <1>1, <1>5
<1>7. Resolve(d, rows) = r[Len(rows)]
  BY DEF Resolve, r
<1> QED
  BY <1>1, <1>6, <1>7 DEF Good

-----------------------------------------------------------------------------
(* What an import writes.                                                    *)

LineFields == {"batch", "raw", "product", "ret", "customer", "date", "amount", "cost",
               "confidence", "profit", "header"}

(* The line a row becomes.                                                   *)
LineOf(r, batch, customerOf) ==
    [batch |-> batch, raw |-> r.raw, product |-> r.product, ret |-> r.ret,
     customer |-> IF r.raw = Unknown THEN Nobody ELSE customerOf[r.raw],
     date |-> r.date, amount |-> r.amount, cost |-> r.cost,
     confidence |-> IF r.cost = Unknown THEN "none" ELSE "from_file",
     profit |-> Profit(r.amount, r.cost),
     header |-> IF HasOrder(r) THEN HeaderOf(r) ELSE <<>>]

(* Every line an import writes is one of the rows of its file                *)
(* (_build_line_payloads).                                                   *)
LEMMA PayloadIsOfARow ==
    ASSUME NEW f \in Files, NEW batch, NEW customerOf, NEW u \in Uids(f)
    PROVE  \E i \in DOMAIN f.rows : Payload(f, batch, customerOf)[u] = LineOf(f.rows[i], batch, customerOf)
<1> DEFINE i == CHOOSE j \in DOMAIN f.rows : LineUid(f, j) = u
<1>1. i \in DOMAIN f.rows
  BY DEF Uids
<1>2. Payload(f, batch, customerOf)[u] = LineOf(f.rows[i], batch, customerOf)
  BY DEF Payload, LineOf
<1> QED
  BY <1>1, <1>2

(* After an import a line is a row of its file, or what it was before        *)
(* (_upsert_lines).                                                          *)
LEMMA LinesAfter ==
    ASSUME NEW f \in Files, PostedImport(f), NEW u \in DOMAIN lines'
    PROVE  \/ \E i \in DOMAIN f.rows :
                lines'[u] = LineOf(f.rows[i], Len(batches) + 1, Resolve(directory, f.rows).customerOf)
           \/ u \in DOMAIN lines /\ lines'[u] = lines[u]
<1> DEFINE pay == Payload(f, Len(batches) + 1, Resolve(directory, f.rows).customerOf)
<1>1. lines' = Upsert(lines, pay)
  BY DEF PostedImport
<1>2. DOMAIN pay = Uids(f)
  BY DEF Payload
<1>3. lines' = [k \in DOMAIN lines \cup Uids(f) |-> IF k \in Uids(f) THEN pay[k] ELSE lines[k]]
  <2> HIDE DEF pay
  <2> QED
    BY <1>1, <1>2 DEF Upsert
<1> HIDE DEF pay
<1>4. CASE u \in Uids(f)
  <2>1. \E i \in DOMAIN f.rows :
            pay[u] = LineOf(f.rows[i], Len(batches) + 1, Resolve(directory, f.rows).customerOf)
    BY <1>4, PayloadIsOfARow DEF pay
  <2>2. lines'[u] = pay[u]
    BY <1>3, <1>4
  <2> QED
    BY <2>1, <2>2
<1>5. CASE u \notin Uids(f)
  BY <1>3, <1>5
<1> QED
  BY <1>4, <1>5

-----------------------------------------------------------------------------
(* Identity.                                                                 *)

BatchesInOrder == batches \in Seq({batches[i] : i \in DOMAIN batches})

(* The key of a line has an owner.                                           *)
KeysAreOwned ==
    \A u \in DOMAIN lines :
        lines[u].raw # Unknown => lines[u].raw \in RawKeys /\ directory.owner[lines[u].raw] # Nobody

(* The inductive invariant of identity.                                      *)
IdentityInv == WellKept(directory) /\ BatchesInOrder /\ KeysAreOwned /\ SplitIsReported

(* No two customers own one phone, so no two have it.                        *)
LEMMA PhonesAreOnes ==
    WellKept(directory) => PhoneIsOnes
<1> SUFFICES ASSUME WellKept(directory), NEW a \in Customers, NEW b \in Customers,
                    directory.people[a].phone = directory.people[b].phone,
                    directory.people[a].phone # Unknown
             PROVE  a = b
  BY DEF PhoneIsOnes
<1> QED
  BY DEF WellKept, Customers

(* A batch more is the last one, and the others stay.                        *)
LEMMA OneBatchMore ==
    ASSUME BatchesInOrder, NEW b, batches' = Append(batches, b)
    PROVE  /\ BatchesInOrder'
           /\ Len(batches) \in Nat /\ DOMAIN batches = 1..Len(batches)
           /\ DOMAIN batches' = 1..(Len(batches) + 1)
           /\ batches'[Len(batches) + 1] = b
           /\ \A i \in DOMAIN batches : batches'[i] = batches[i]
<1> DEFINE S == {batches[i] : i \in DOMAIN batches}
<1>1. batches \in Seq(S)
  BY DEF BatchesInOrder
<1>2. /\ Len(batches) \in Nat /\ DOMAIN batches = 1..Len(batches)
      /\ DOMAIN batches' = 1..(Len(batches) + 1)
      /\ batches'[Len(batches) + 1] = b
      /\ \A i \in DOMAIN batches : batches'[i] = batches[i]
  <2> HIDE DEF S
  <2> QED
    BY <1>1
<1>3. BatchesInOrder'
  <2> DEFINE T == {batches'[i] : i \in DOMAIN batches'}
  <2>1. \A i \in 1..(Len(batches) + 1) : batches'[i] \in T
    BY <1>2
  <2>2. b \in T /\ \A i \in 1..Len(batches) : batches[i] \in T
    BY <1>2, <2>1
  <2> HIDE DEF T
  <2>3. batches \in Seq(T)
    <3>1. batches = [i \in 1..Len(batches) |-> batches[i]]
      BY <1>1
    <3> HIDE DEF S
    <3> QED
      BY <2>2, <3>1, <1>2
  <2>4. batches' \in Seq(T)
    BY <2>2, <2>3
  <2> QED
    BY <2>4 DEF BatchesInOrder, T
<1> QED
  BY <1>2, <1>3

(* An import of a file keeps identity in order (write_import).               *)
LEMMA PostedKeepsIdentity ==
    ASSUME IdentityInv, NEW f \in Files, PostedImport(f)
    PROVE  IdentityInv' /\ Grows(directory, directory')
<1> DEFINE found == Resolve(directory, f.rows)
           n == Len(batches) + 1
<1>1. /\ WellKept(found.directory) /\ Grows(directory, found.directory) /\ Reported(found)
      /\ \A i \in DOMAIN f.rows : f.rows[i].raw # Unknown => f.rows[i].raw \in DOMAIN found.customerOf
  BY ResolveKeeps DEF IdentityInv
<1>2. directory' = found.directory
  BY DEF PostedImport
<1>3. PICK b : batches' = Append(batches, b) /\ b.candidates = found.candidates /\ b.status # "BLOCKED"
  <2> DEFINE all == Upsert(lines, Payload(f, Len(batches) + 1, found.customerOf))
             status == Verdict(Checks(f, Len(batches) + 1, all, Overlap(f)))
             updated == Cardinality(Uids(f) \cap DOMAIN lines)
             b == Batch(f, status, Cardinality(Uids(f)) - updated, updated, Overlap(f), found.candidates)
  <2>1. batches' = Append(batches, b)
    BY DEF PostedImport
  <2>2. status # "BLOCKED"
    BY DEF Verdict
  <2> HIDE DEF status, updated, found
  <2>3. b.candidates = found.candidates /\ b.status = status
    BY DEF Batch
  <2> QED
    BY <2>1, <2>2, <2>3
<1>4. /\ BatchesInOrder'
      /\ Len(batches) \in Nat /\ DOMAIN batches = 1..Len(batches)
      /\ DOMAIN batches' = 1..n /\ batches'[n] = b
      /\ \A i \in DOMAIN batches : batches'[i] = batches[i]
  BY <1>3, OneBatchMore DEF IdentityInv
<1>5. n \in Posted' /\ Posted \subseteq Posted'
  BY <1>3, <1>4 DEF Posted
<1> HIDE DEF found, n
<1>6. ASSUME NEW u \in DOMAIN lines', lines'[u].raw # Unknown
      PROVE  /\ lines'[u].raw \in RawKeys /\ directory'.owner[lines'[u].raw] # Nobody
             /\ lines'[u].customer # directory'.owner[lines'[u].raw] =>
                  \E i \in Posted' : \E c \in batches'[i].candidates :
                    /\ c.raw = lines'[u].raw
                    /\ c.resolved = lines'[u].customer
                    /\ c.other = directory'.owner[lines'[u].raw]
  <2>1. CASE \E i \in DOMAIN f.rows : lines'[u] = LineOf(f.rows[i], n, found.customerOf)
    <3>1. PICK i \in DOMAIN f.rows : lines'[u] = LineOf(f.rows[i], n, found.customerOf)
      BY <2>1
    <3>2. /\ lines'[u].raw = f.rows[i].raw
          /\ lines'[u].customer = IF f.rows[i].raw = Unknown THEN Nobody ELSE found.customerOf[f.rows[i].raw]
      BY <3>1 DEF LineOf
    <3>3. lines'[u].raw \in DOMAIN found.customerOf /\ lines'[u].customer = found.customerOf[lines'[u].raw]
      BY <3>2, <1>1, <1>6
    <3>4. /\ lines'[u].raw \in RawKeys /\ directory'.owner[lines'[u].raw] # Nobody
          /\ lines'[u].customer # directory'.owner[lines'[u].raw] =>
                \E c \in found.candidates :
                    /\ c.raw = lines'[u].raw
                    /\ c.resolved = lines'[u].customer
                    /\ c.other = directory'.owner[lines'[u].raw]
      BY <3>3, <1>1, <1>2 DEF Reported
    <3> QED
      BY <3>4, <1>3, <1>4, <1>5
  <2>2. CASE u \in DOMAIN lines /\ lines'[u] = lines[u]
    <3>1. /\ lines[u].raw \in RawKeys /\ directory.owner[lines[u].raw] # Nobody
          /\ lines[u].customer # directory.owner[lines[u].raw] =>
               \E i \in Posted : \E c \in batches[i].candidates :
                 /\ c.raw = lines[u].raw
                 /\ c.resolved = lines[u].customer
                 /\ c.other = directory.owner[lines[u].raw]
      BY <2>2, <1>6 DEF IdentityInv, KeysAreOwned, SplitIsReported
    <3>2. directory'.owner[lines[u].raw] = directory.owner[lines[u].raw]
      BY <3>1, <1>1, <1>2 DEF Grows, Keys
    <3>3. \A i \in Posted : i \in Posted' /\ batches'[i] = batches[i]
      BY <1>4, <1>5 DEF Posted
    <3> QED
      BY <2>2, <3>1, <3>2, <3>3
  <2> QED
    BY <2>1, <2>2, LinesAfter DEF n, found
<1>7. KeysAreOwned'
  BY <1>6 DEF KeysAreOwned
<1>8. SplitIsReported'
  BY <1>6 DEF SplitIsReported
<1> QED
  BY <1>1, <1>2, <1>4, <1>7, <1>8 DEF IdentityInv

(* A file that is refused leaves only its batch (_record_blocked_batch).     *)
LEMMA BlockedKeepsIdentity ==
    ASSUME IdentityInv, NEW f \in Files, BlockedImport(f)
    PROVE  IdentityInv' /\ directory' = directory
<1>1. directory' = directory /\ lines' = lines
  BY DEF BlockedImport
<1>2. PICK b : batches' = Append(batches, b)
  BY DEF BlockedImport
<1>3. /\ BatchesInOrder'
      /\ Len(batches) \in Nat /\ DOMAIN batches = 1..Len(batches)
      /\ DOMAIN batches' = 1..(Len(batches) + 1)
      /\ \A i \in DOMAIN batches : batches'[i] = batches[i]
  BY <1>2, OneBatchMore DEF IdentityInv
<1>4. \A i \in Posted : i \in Posted' /\ batches'[i] = batches[i]
  BY <1>3 DEF Posted
<1>5. SplitIsReported'
  BY <1>1, <1>4 DEF SplitIsReported, IdentityInv
<1> QED
  BY <1>1, <1>3, <1>5 DEF IdentityInv, KeysAreOwned

-----------------------------------------------------------------------------
(* Prices.                                                                   *)

LinesTyped ==
    \A u \in DOMAIN lines : DOMAIN lines[u] = LineFields /\ lines[u].date \in Nat

PointsTyped == \A p \in history \cup applied : p.from \in Nat /\ p.cost \in Int

(* A product that was priced once still has a price, and a line that was     *)
(* priced from the history is of such a product.                             *)
PricesStay ==
    /\ \A p \in applied : Points(history, p.product) # {}
    /\ \A u \in DOMAIN lines :
        lines[u].confidence \in {"history_exact", "history_imputed"} =>
            Points(applied, lines[u].product) # {}

(* The inductive invariant of prices.                                        *)
PriceInv == LinesTyped /\ PointsTyped /\ PricesStay /\ PricedAsOfSale

(* The cost in force on a day is the last of those that began by then        *)
(* (CostLookup.at).                                                          *)
LEMMA CostOfTheDay ==
    ASSUME NEW points, \A p \in points : p.from \in Nat /\ p.cost \in Int, NEW date \in Nat
    PROVE  LET due == {p \in points : p.from <= date}
               found == CostAt(points, date)
           IN /\ due # {} => /\ found.confidence = "history_exact"
                             /\ \E p \in due : found.cost = p.cost /\ \A q \in due : q.from <= p.from
              /\ due = {} => found.confidence = "history_imputed"
<1> DEFINE due == {p \in points : p.from <= date}
           found == CostAt(points, date)
<1>1. ASSUME due # {}
      PROVE  /\ found.confidence = "history_exact"
             /\ \E p \in due : found.cost = p.cost /\ \A q \in due : q.from <= p.from
  <2> DEFINE D == {p.from : p \in due}
  <2>1. \A p \in due : p.from \in D
    OBVIOUS
  <2>2. D \in SUBSET Nat /\ D # {} /\ \A n \in D : n <= date
    BY <1>1
  <2>3. \E p \in due : \A q \in due : q.from <= p.from
    <3>1. \A n \in D : \E p \in due : p.from = n
      OBVIOUS
    <3> HIDE DEF D
    <3>2. PICK n \in D : \A m \in D : m <= n
      BY <2>2, GreatestExists
    <3>3. PICK p \in due : p.from = n
      BY <3>1
    <3> QED
      BY <2>1, <3>2, <3>3
  <2>4. Latest(due) \in due /\ \A q \in due : q.from <= Latest(due).from
    <3> HIDE DEF due
    <3> QED
      BY <2>3 DEF Latest
  <2>5. found = [cost |-> Latest(due).cost, confidence |-> "history_exact"]
    BY <1>1 DEF CostAt
  <2> HIDE DEF due, found
  <2>6. found.cost = Latest(due).cost /\ found.confidence = "history_exact"
    BY <2>5
  <2> QED
    BY <2>4, <2>6
<1>2. ASSUME due = {} PROVE found.confidence = "history_imputed"
  BY <1>2 DEF CostAt
<1> QED
  BY <1>1, <1>2

(* What repricing does to one line (apply_costs).                            *)
LEMMA PricedLine ==
    ASSUME NEW line, DOMAIN line = LineFields, line.date \in Nat,
           NEW hist, \A p \in hist : p.from \in Nat /\ p.cost \in Int
    PROVE  LET res == Priced(hist, line)
               unit == IF line.ret THEN -res.cost ELSE res.cost
               due == {p \in Points(hist, line.product) : p.from <= line.date}
           IN /\ DOMAIN res = LineFields
              /\ \A field \in {"batch", "raw", "product", "ret", "customer", "date", "amount", "header"} :
                    res[field] = line[field]
              /\ line.confidence # "from_file" /\ Points(hist, line.product) # {} =>
                    /\ res.confidence = IF due = {} THEN "history_imputed" ELSE "history_exact"
                    /\ due # {} => \E p \in due : unit = p.cost /\ \A q \in due : q.from <= p.from
                    /\ res.profit = Profit(line.amount, res.cost)
              /\ line.confidence = "from_file" \/ Points(hist, line.product) = {} => res = line
<1> DEFINE points == Points(hist, line.product)
           found == CostAt(points, line.date)
           cost == IF line.ret THEN -found.cost ELSE found.cost
           res == Priced(hist, line)
           unit == IF line.ret THEN -res.cost ELSE res.cost
           due == {p \in points : p.from <= line.date}
<1>1. \A p \in points : p \in hist /\ p.from \in Nat /\ p.cost \in Int
  BY DEF Points
<1>2. /\ due # {} => /\ found.confidence = "history_exact"
                     /\ \E p \in due : found.cost = p.cost /\ \A q \in due : q.from <= p.from
      /\ due = {} => found.confidence = "history_imputed"
  <2> HIDE DEF points
  <2> QED
    BY <1>1, CostOfTheDay
<1>3. CASE line.confidence = "from_file" \/ points = {}
  <2>1. res = line
    BY <1>3 DEF Priced
  <2> QED
    BY <2>1, <1>3
<1>4. CASE ~(line.confidence = "from_file" \/ points = {})
  <2>1. res = [line EXCEPT !.cost = cost, !.confidence = found.confidence,
                           !.profit = Profit(line.amount, cost)]
    BY <1>4 DEF Priced
  <2> HIDE DEF found, res, points, cost
  <2>2. /\ DOMAIN res = LineFields
        /\ \A field \in {"batch", "raw", "product", "ret", "customer", "date", "amount", "header"} :
              res[field] = line[field]
        /\ res.cost = cost /\ res.confidence = found.confidence /\ res.profit = Profit(line.amount, cost)
    BY <2>1 DEF LineFields
  <2>3. due # {} => \E p \in due : unit = p.cost /\ \A q \in due : q.from <= p.from
    <3> SUFFICES ASSUME due # {} PROVE \E p \in due : unit = p.cost /\ \A q \in due : q.from <= p.from
      OBVIOUS
    <3>1. PICK p \in due : found.cost = p.cost /\ \A q \in due : q.from <= p.from
      BY <1>2
    <3>2. found.cost \in Int
      BY <3>1, <1>1
    <3>3. unit = found.cost
      BY <2>2, <3>2 DEF cost
    <3> QED
      BY <3>1, <3>3
  <2>4. res.confidence = IF due = {} THEN "history_imputed" ELSE "history_exact"
    BY <1>2, <2>2
  <2> QED
    BY <1>4, <2>2, <2>3, <2>4 DEF points, res
<1> QED
  BY <1>3, <1>4

(* A line of a file has its own cost or none, and the profit that goes with  *)
(* it; no price of the history is on it yet.                                 *)
LEMMA PostedKeepsPrices ==
    ASSUME PriceInv, NEW f \in Files, PostedImport(f), UNCHANGED costVars
    PROVE  PriceInv'
<1>1. history' = history /\ applied' = applied
  BY DEF costVars
<1>2. ASSUME NEW u \in DOMAIN lines', NEW i \in DOMAIN f.rows, NEW batch, NEW customerOf,
             lines'[u] = LineOf(f.rows[i], batch, customerOf)
      PROVE  /\ DOMAIN lines'[u] = LineFields /\ lines'[u].date \in Nat
             /\ lines'[u].confidence \in {"none", "from_file"}
             /\ lines'[u].profit = Profit(lines'[u].amount, lines'[u].cost)
  <2>1. f.rows[i].date \in Nat
    BY FileAssumption
  <2>2. DOMAIN lines'[u] = LineFields
    BY <1>2 DEF LineOf, LineFields
  <2> QED
    BY <1>2, <2>1, <2>2 DEF LineOf
<1>3. ASSUME NEW u \in DOMAIN lines'
      PROVE  /\ DOMAIN lines'[u] = LineFields /\ lines'[u].date \in Nat
             /\ \/ /\ lines'[u].confidence \in {"none", "from_file"}
                   /\ lines'[u].profit = Profit(lines'[u].amount, lines'[u].cost)
                \/ u \in DOMAIN lines /\ lines'[u] = lines[u]
  <2>1. CASE \E i \in DOMAIN f.rows :
                lines'[u] = LineOf(f.rows[i], Len(batches) + 1, Resolve(directory, f.rows).customerOf)
    BY <2>1, <1>2
  <2>2. CASE u \in DOMAIN lines /\ lines'[u] = lines[u]
    BY <2>2 DEF PriceInv, LinesTyped
  <2> QED
    BY <2>1, <2>2, LinesAfter
<1>4. LinesTyped' /\ PointsTyped' /\ PricesStay'
  BY <1>1, <1>3 DEF PriceInv, LinesTyped, PointsTyped, PricesStay, Points
<1>5. PricedAsOfSale'
  BY <1>1, <1>3 DEF PriceInv, PricedAsOfSale, Profit, Points
<1> QED
  BY <1>4, <1>5 DEF PriceInv

(* A cost file adds dates or corrects them; it takes no product's last price *)
(* away (import_costs).                                                      *)
LEMMA RegisterKeepsPrices ==
    ASSUME PriceInv, NEW row \in CostRows, RegisterCost(row), UNCHANGED lines
    PROVE  PriceInv'
<1> DEFINE from == IF row.from = Unknown THEN Fallback ELSE row.from
           point == [product |-> row.product, from |-> from, cost |-> row.cost]
<1>1. applied' = applied /\ lines' = lines
  BY DEF RegisterCost
<1>2. history' = history
      \/ history' = {p \in history : p.product # row.product \/ p.from # from} \cup {point}
  BY DEF RegisterCost
<1>3. point.from \in Nat /\ point.cost \in Int
  BY CostAssumption DEF Fallback
<1>4. PointsTyped'
  BY <1>1, <1>2, <1>3 DEF PointsTyped, PriceInv
<1>5. ASSUME NEW p \in history PROVE Points(history', p.product) # {}
  <2>1. CASE p \in history'
    BY <2>1 DEF Points
  <2>2. CASE p \notin history'
    <3>1. p.product = point.product /\ point \in history'
      BY <2>2, <1>2
    <3> QED
      BY <3>1 DEF Points
  <2> QED
    BY <2>1, <2>2
<1>6. ASSUME NEW p \in applied PROVE Points(history', p.product) # {}
  <2>1. PICK q \in history : q.product = p.product
    BY DEF PriceInv, PricesStay, Points
  <2>2. Points(history', q.product) # {}
    BY <1>5
  <2> QED
    BY <2>1, <2>2
<1>7. PricesStay'
  BY <1>1, <1>6 DEF PricesStay, PriceInv
<1> QED
  BY <1>1, <1>4, <1>7 DEF PriceInv, LinesTyped, PricedAsOfSale, Points

(* Applying the costs reprices every line whose cost did not come with its   *)
(* file (apply_costs).                                                       *)
LEMMA ApplyKeepsPrices ==
    ASSUME PriceInv, ApplyCosts
    PROVE  PriceInv'
<1>1. /\ history' = history /\ applied' = history
      /\ lines' = [u \in DOMAIN lines |-> Priced(history, lines[u])]
  BY DEF ApplyCosts
<1>2. \A p \in history : p.from \in Nat /\ p.cost \in Int
  BY DEF PriceInv, PointsTyped
<1>3. PointsTyped'
  BY <1>1, <1>2 DEF PointsTyped
<1>4. ASSUME NEW u \in DOMAIN lines'
      PROVE  /\ DOMAIN lines'[u] = LineFields /\ lines'[u].date \in Nat
             /\ lines'[u].confidence \in {"history_exact", "history_imputed"} =>
                    Points(history, lines'[u].product) # {}
             /\ LET line == lines'[u]
                    unit == IF line.ret THEN -line.cost ELSE line.cost
                    due == {p \in Points(history, line.product) : p.from <= line.date}
                IN /\ line.confidence = "history_exact" =>
                        \E p \in due : unit = p.cost /\ \A q \in due : q.from <= p.from
                   /\ line.confidence = "history_imputed" => due = {}
                   /\ line.profit = Profit(line.amount, line.cost)
  <2> DEFINE old == lines[u]
             new == lines'[u]
             unit == IF old.ret THEN -new.cost ELSE new.cost
             due == {p \in Points(history, old.product) : p.from <= old.date}
  <2>1. u \in DOMAIN lines /\ new = Priced(history, old) /\ DOMAIN old = LineFields /\ old.date \in Nat
    BY <1>1 DEF PriceInv, LinesTyped
  <2>2. /\ DOMAIN new = LineFields
        /\ new.product = old.product /\ new.ret = old.ret /\ new.date = old.date /\ new.amount = old.amount
        /\ old.confidence # "from_file" /\ Points(history, old.product) # {} =>
              /\ new.confidence = IF due = {} THEN "history_imputed" ELSE "history_exact"
              /\ due # {} => \E p \in due : unit = p.cost /\ \A q \in due : q.from <= p.from
              /\ new.profit = Profit(old.amount, new.cost)
        /\ old.confidence = "from_file" \/ Points(history, old.product) = {} => new = old
    <3> HIDE DEF old, new
    <3> QED
      BY <2>1, <1>2, PricedLine
  <2>3. /\ old.confidence \in {"history_exact", "history_imputed"} => Points(applied, old.product) # {}
        /\ old.profit = Profit(old.amount, old.cost)
    BY <2>1 DEF PriceInv, PricesStay, PricedAsOfSale, Profit
  <2>4. old.confidence \in {"history_exact", "history_imputed"} => Points(history, old.product) # {}
    BY <2>3 DEF PriceInv, PricesStay, Points
  <2>5. CASE old.confidence = "from_file" \/ Points(history, old.product) = {}
    <3>1. new = old
      BY <2>2, <2>5
    <3>2. new.confidence \notin {"history_exact", "history_imputed"}
      BY <2>4, <2>5, <3>1
    <3> QED
      BY <2>1, <2>2, <2>3, <3>1, <3>2
  <2>6. CASE old.confidence # "from_file" /\ Points(history, old.product) # {}
    <3>1. /\ new.confidence = IF due = {} THEN "history_imputed" ELSE "history_exact"
          /\ due # {} => \E p \in due : unit = p.cost /\ \A q \in due : q.from <= p.from
          /\ new.profit = Profit(old.amount, new.cost)
      BY <2>2, <2>6
    <3>2. /\ DOMAIN new = LineFields /\ new.date \in Nat
          /\ new.product = old.product /\ new.ret = old.ret /\ new.date = old.date
          /\ new.amount = old.amount /\ Points(history, old.product) # {}
      BY <2>1, <2>2, <2>6
    <3> HIDE DEF old, new
    <3>3. CASE due = {}
      BY <3>1, <3>2, <3>3 DEF old, new
    <3>4. CASE due # {}
      <4>1. new.confidence = "history_exact"
        BY <3>1, <3>4
      <4>2. \E p \in {p \in Points(history, new.product) : p.from <= new.date} :
                /\ (IF new.ret THEN -new.cost ELSE new.cost) = p.cost
                /\ \A q \in {q \in Points(history, new.product) : q.from <= new.date} : q.from <= p.from
        BY <3>1, <3>2, <3>4
      <4> QED
        BY <3>1, <3>2, <4>1, <4>2 DEF new
    <3> QED
      BY <3>3, <3>4
  <2> QED
    BY <2>5, <2>6
<1>5. LinesTyped'
  BY <1>4 DEF LinesTyped
<1>6. PricesStay'
  BY <1>1, <1>4 DEF PricesStay, Points
<1>7. PricedAsOfSale'
  BY <1>1, <1>4 DEF PricedAsOfSale, Profit
<1> QED
  BY <1>3, <1>5, <1>6, <1>7 DEF PriceInv

-----------------------------------------------------------------------------
(* The register and the gate.                                                *)

SuppressionRow == [customer : Nat, phone : Phones \cup {Unknown}, scope : Scopes, active : BOOLEAN]

(* A row is about people there are, and about one person: who has its phone  *)
(* is its customer.                                                          *)
RegisterKept(reg, dir) ==
    /\ reg \in Seq(SuppressionRow)
    /\ \A i \in DOMAIN reg :
        /\ reg[i].customer \in 0..Len(dir.people)
        /\ reg[i].customer # Nobody /\ reg[i].phone # Unknown =>
                HasPhone(dir, reg[i].phone) = {reg[i].customer}

(* The inductive invariant of consent.                                       *)
ConsentInv == WellKept(directory) /\ RegisterKept(register, directory)

RowBars(row, dir, c) ==
    /\ row.active /\ row.scope = "all"
    /\ \/ row.customer # Nobody /\ c = row.customer
       \/ row.phone # Unknown /\ c \in HasPhone(dir, row.phone)

(* Who has a phone is the only one (_customer_ids_for_phones).               *)
LEMMA OneHasIt ==
    ASSUME NEW d, WellKept(d), NEW p, NEW c \in HasPhone(d, p)
    PROVE  HasPhone(d, p) = {c}
BY DEF WellKept, HasPhone, PhoneOf

(* The gate asked of a customer is the register asked of him: numbers of     *)
(* customers, names and keys are not mistaken for each other (build_gate).   *)
LEMMA BarredByARow ==
    ASSUME NEW dir, WellKept(dir), NEW reg, RegisterKept(reg, dir), NEW c
    PROVE  c \in Barred(reg, dir) <=> \E i \in DOMAIN reg : RowBars(reg[i], dir, c)
<1> DEFINE n == Len(dir.people)
           B == BarredCustomers(reg, dir)
<1>1. n \in Nat /\ DOMAIN dir.people = 1..n /\ \A b \in 1..n : dir.people[b].name \in Keys
  <2>1. n \in Nat /\ DOMAIN dir.people = 1..n /\ \A b \in 1..n : dir.people[b] \in Person
    BY DEF WellKept
  <2> QED
    BY <2>1 DEF Person, Keys
<1>2. \A i \in DOMAIN reg : /\ reg[i].customer \in 0..n
                            /\ reg[i].phone \in Phones \cup {Unknown}
  <2>1. \A i \in DOMAIN reg : reg[i].customer \in 0..n /\ reg[i] \in SuppressionRow
    BY DEF RegisterKept
  <2> QED
    BY <2>1 DEF SuppressionRow
<1>3. \A b : b \in B <=> \E i \in DOMAIN reg : RowBars(reg[i], dir, b)
  <2> SUFFICES ASSUME NEW b PROVE b \in B <=> \E i \in DOMAIN reg : RowBars(reg[i], dir, b)
    OBVIOUS
  <2>1. ASSUME b \in B PROVE \E i \in DOMAIN reg : RowBars(reg[i], dir, b)
    <3>1. CASE b \in {r.customer : r \in Active(reg, "all")} \ {Nobody}
      <4>1. PICK i \in DOMAIN reg : reg[i].active /\ reg[i].scope = "all" /\ b = reg[i].customer
        BY <3>1 DEF Active
      <4> QED
        BY <4>1, <3>1 DEF RowBars
    <3>2. CASE \E p \in BarredPhones(reg) : b \in HasPhone(dir, p)
      <4>1. PICK p \in BarredPhones(reg) : b \in HasPhone(dir, p)
        BY <3>2
      <4>2. PICK i \in DOMAIN reg : reg[i].active /\ reg[i].scope = "all" /\ p = reg[i].phone /\ p # Unknown
        BY <4>1 DEF BarredPhones, Active
      <4> QED
        BY <4>1, <4>2 DEF RowBars
    <3> QED
      BY <2>1, <3>1, <3>2 DEF BarredCustomers
  <2>2. ASSUME NEW i \in DOMAIN reg, RowBars(reg[i], dir, b) PROVE b \in B
    <3>1. reg[i] \in Active(reg, "all")
      BY <2>2 DEF Active, RowBars
    <3>2. CASE reg[i].customer # Nobody /\ b = reg[i].customer
      BY <3>1, <3>2 DEF BarredCustomers
    <3>3. CASE reg[i].phone # Unknown /\ b \in HasPhone(dir, reg[i].phone)
      <4>1. reg[i].phone \in BarredPhones(reg)
        BY <3>1, <3>3 DEF BarredPhones
      <4> QED
        BY <3>3, <4>1 DEF BarredCustomers
    <3> QED
      BY <2>2, <3>2, <3>3 DEF RowBars
  <2> QED
    BY <2>1, <2>2
<1>4. B \subseteq 1..n
  <2> SUFFICES ASSUME NEW b \in B PROVE b \in 1..n
    OBVIOUS
  <2>1. PICK i \in DOMAIN reg : RowBars(reg[i], dir, b)
    BY <1>3
  <2>2. CASE reg[i].customer # Nobody /\ b = reg[i].customer
    BY <2>2, <1>1, <1>2 DEF Nobody
  <2>3. CASE b \in HasPhone(dir, reg[i].phone)
    BY <2>3, <1>1 DEF HasPhone
  <2> QED
    BY <2>1, <2>2, <2>3 DEF RowBars
<1> HIDE DEF B, n
<1>5. ASSUME NEW b \in 1..n PROVE b \in Identifiers(dir, B) <=> b \in B
  <2>1. b \notin Keys
    BY <1>1, ScopesAssumption
  <2>2. \A o \in B : dir.people[o].name # b
    BY <2>1, <1>1, <1>4
  <2>3. b \notin {k \in Keys : dir.owner[k] \in B} /\ b \notin {dir.people[o].name : o \in B}
    BY <2>1, <2>2
  <2> QED
    BY <2>3, Zenon DEF Identifiers
<1>6. ASSUME NEW b \in 1..n, PhoneOf(dir, b) \in BarredPhones(reg) PROVE b \in B
  <2>1. PhoneOf(dir, b) # Unknown
    BY <1>6 DEF BarredPhones
  <2>2. b \in HasPhone(dir, PhoneOf(dir, b))
    BY <1>1, <2>1 DEF HasPhone
  <2> QED
    BY <1>6, <2>2 DEF BarredCustomers, B
<1>7. Barred(reg, dir) = B
  <2>1. \A b \in 1..n : Refuses(reg, dir, b, PhoneOf(dir, b)) <=> b \in B
    BY <1>5, <1>6 DEF Refuses, B
  <2> QED
    BY <2>1, <1>1, <1>4 DEF Barred
<1> QED
  BY <1>3, <1>7

(* The customers are not more than the keys that named them (customer_keys). *)
LEMMA AsManyAsKeys ==
    ASSUME NEW d, WellKept(d)
    PROVE  Len(d.people) \in Nat /\ Len(d.people) <= Cardinality(RawKeys)
<1> DEFINE n == Len(d.people)
           f == [c \in 1..n |-> d.people[c].name]
<1>1. n \in Nat /\ DOMAIN d.people = 1..n /\ \A c \in 1..n : d.people[c] \in Person
  BY DEF WellKept
<1>2. f \in [1..n -> RawKeys]
  BY <1>1 DEF Person
<1>3. \A b, c \in 1..n : f[b] = f[c] => b = c
  BY <1>1 DEF WellKept
<1>4. IsFiniteSet(RawKeys) /\ Cardinality(RawKeys) \in Nat
  BY IdentityAssumption, FS_CardinalityType
<1>5. f \in Injection(1..n, RawKeys)
  <2> HIDE DEF f
  <2> QED
    BY <1>2, <1>3 DEF Injection, IsInjective
<1>6. Cardinality(1..n) <= Cardinality(RawKeys)
  BY <1>4, <1>5, FS_Injection
<1>7. Cardinality(1..n) = n
  BY <1>1, FS_Interval
<1> QED
  BY <1>1, <1>6, <1>7

(* What the directory keeps, the register keeps too, and nobody who is barred *)
(* is free when more becomes known of him (_resolve_customers).              *)
LEMMA KnownBetter ==
    ASSUME NEW d, NEW e, WellKept(d), WellKept(e), Grows(d, e), NEW reg, RegisterKept(reg, d)
    PROVE  RegisterKept(reg, e) /\ Barred(reg, d) \subseteq Barred(reg, e)
<1>1. /\ Len(d.people) \in Nat /\ DOMAIN d.people = 1..Len(d.people)
      /\ Len(e.people) \in Nat /\ DOMAIN e.people = 1..Len(e.people)
      /\ Len(d.people) <= Len(e.people)
  BY DEF WellKept, Grows
<1>2. ASSUME NEW p PROVE HasPhone(d, p) \subseteq HasPhone(e, p)
  <2> SUFFICES ASSUME NEW c \in HasPhone(d, p) PROVE c \in HasPhone(e, p)
    OBVIOUS
  <2>1. c \in DOMAIN d.people /\ p # Unknown /\ d.people[c].phone = p
    BY DEF HasPhone, PhoneOf
  <2>2. c \in DOMAIN e.people /\ e.people[c].phone = p
    BY <1>1, <2>1 DEF Grows
  <2> QED
    BY <2>1, <2>2 DEF HasPhone, PhoneOf
<1>3. RegisterKept(reg, e)
  <2>1. ASSUME NEW i \in DOMAIN reg
        PROVE  /\ reg[i].customer \in 0..Len(e.people)
               /\ reg[i].customer # Nobody /\ reg[i].phone # Unknown =>
                    HasPhone(e, reg[i].phone) = {reg[i].customer}
    <3>1. /\ reg[i].customer \in 0..Len(d.people)
          /\ reg[i].customer # Nobody /\ reg[i].phone # Unknown =>
                    HasPhone(d, reg[i].phone) = {reg[i].customer}
      BY DEF RegisterKept
    <3>2. reg[i].customer \in 0..Len(e.people)
      BY <3>1, <1>1
    <3>3. ASSUME reg[i].customer # Nobody, reg[i].phone # Unknown
          PROVE  HasPhone(e, reg[i].phone) = {reg[i].customer}
      <4>1. reg[i].customer \in HasPhone(e, reg[i].phone)
        BY <3>1, <3>3, <1>2
      <4> QED
        BY <4>1, OneHasIt
    <3> QED
      BY <3>2, <3>3
  <2> QED
    BY <2>1 DEF RegisterKept
<1>4. ASSUME NEW c \in Barred(reg, d) PROVE c \in Barred(reg, e)
  <2>1. PICK i \in DOMAIN reg : RowBars(reg[i], d, c)
    BY BarredByARow
  <2>2. RowBars(reg[i], e, c)
    BY <2>1, <1>2 DEF RowBars
  <2> QED
    BY <2>2, <1>3, BarredByARow
<1> QED
  BY <1>3, <1>4

(* The row a request finds is one of its customer, or else of its phone.     *)
LEMMA FoundRow ==
    ASSUME NEW reg, reg \in Seq(SuppressionRow), NEW c, NEW p, NEW scope
    PROVE  \/ FindRow(reg, c, p, scope) = 0
           \/ /\ FindRow(reg, c, p, scope) \in DOMAIN reg
              /\ reg[FindRow(reg, c, p, scope)].scope = scope
              /\ \/ c # Nobody /\ reg[FindRow(reg, c, p, scope)].customer = c
                 \/ p # Unknown /\ reg[FindRow(reg, c, p, scope)].phone = p
<1> DEFINE byId == IF c = Nobody THEN {} ELSE RowsWhere(reg, "customer", c, scope)
           byPhone == IF p = Unknown THEN {} ELSE RowsWhere(reg, "phone", p, scope)
           i == FindRow(reg, c, p, scope)
<1>1. \A j \in byId : j \in DOMAIN reg /\ reg[j].scope = scope /\ c # Nobody /\ reg[j].customer = c
  BY DEF RowsWhere
<1>2. \A j \in byPhone : j \in DOMAIN reg /\ reg[j].scope = scope /\ p # Unknown /\ reg[j].phone = p
  BY DEF RowsWhere
<1>3. i = IF byId # {} THEN CHOOSE j \in byId : TRUE
          ELSE IF byPhone # {} THEN CHOOSE j \in byPhone : TRUE ELSE 0
  BY DEF FindRow
<1> HIDE DEF byId, byPhone, i
<1>4. i = 0 \/ i \in byId \/ i \in byPhone
  BY <1>3
<1> QED
  BY <1>1, <1>2, <1>4 DEF i

(* A refusal that is recorded keeps the register in order and frees nobody   *)
(* (_record_opt_out_in_session).                                             *)
LEMMA RecordedKeeps ==
    ASSUME NEW dir, WellKept(dir), NEW reg, RegisterKept(reg, dir),
           NEW customer \in 0..Len(dir.people), NEW phone \in Phones \cup {Unknown},
           NEW scope \in Scopes, customer = Nobody \/ phone = Unknown
    PROVE  /\ RegisterKept(Recorded(reg, dir, customer, phone, scope), dir)
           /\ Barred(reg, dir) \subseteq Barred(Recorded(reg, dir, customer, phone, scope), dir)
<1> DEFINE p == IF customer # Nobody /\ phone = Unknown THEN PhoneOf(dir, customer) ELSE phone
           c == IF customer = Nobody /\ HasPhone(dir, p) # {}
                THEN CHOOSE id \in HasPhone(dir, p) : \A o \in HasPhone(dir, p) : id <= o
                ELSE customer
           i == FindRow(reg, c, p, scope)
           row == [customer |-> c, phone |-> p, scope |-> scope, active |-> TRUE]
           new == Recorded(reg, dir, customer, phone, scope)
           n == Len(dir.people)
<1>1. n \in Nat /\ DOMAIN dir.people = 1..n /\ \A b \in 1..n : dir.people[b] \in Person
  BY DEF WellKept
<1>2. p \in Phones \cup {Unknown}
  <2>1. CASE customer # Nobody /\ phone = Unknown
    <3>1. customer \in 1..n
      BY <2>1, <1>1 DEF Nobody
    <3> QED
      BY <2>1, <3>1, <1>1 DEF Person, PhoneOf
  <2> QED
    BY <2>1
<1> HIDE DEF p
<1>3. HasPhone(dir, p) \subseteq 1..n
  BY <1>1 DEF HasPhone
<1>4. c \in 0..n /\ (c # Nobody /\ p # Unknown => HasPhone(dir, p) = {c})
  <2>1. CASE customer = Nobody /\ HasPhone(dir, p) # {}
    <3>1. PICK b : b \in HasPhone(dir, p)
      BY <2>1
    <3>2. HasPhone(dir, p) = {b} /\ b \in 1..n
      BY <3>1, <1>3, OneHasIt
    <3>3. c = CHOOSE id \in {b} : \A o \in {b} : id <= o
      BY <2>1, <3>2
    <3>4. c = b
      BY <3>2, <3>3, <1>1
    <3> QED
      BY <3>2, <3>4, <1>1
  <2>2. CASE customer = Nobody /\ HasPhone(dir, p) = {}
    BY <2>2, <1>1 DEF Nobody
  <2>3. CASE customer # Nobody
    <3>1. c = customer /\ p = PhoneOf(dir, customer) /\ customer \in 1..n
      BY <2>3, <1>1 DEF p, Nobody
    <3>2. p # Unknown => customer \in HasPhone(dir, p)
      BY <3>1, <1>1 DEF HasPhone
    <3> QED
      BY <3>1, <3>2, OneHasIt
  <2> QED
    BY <2>1, <2>2, <2>3
<1> HIDE DEF c
<1>5. reg \in Seq(SuppressionRow) /\ Len(reg) \in Nat /\ DOMAIN reg = 1..Len(reg)
      /\ \A j \in DOMAIN reg :
            /\ reg[j] \in SuppressionRow /\ reg[j].customer \in 0..n
            /\ reg[j].customer # Nobody /\ reg[j].phone # Unknown =>
                    HasPhone(dir, reg[j].phone) = {reg[j].customer}
  <2>1. reg \in Seq(SuppressionRow)
    BY DEF RegisterKept
  <2>2. Len(reg) \in Nat /\ DOMAIN reg = 1..Len(reg) /\ \A j \in DOMAIN reg : reg[j] \in SuppressionRow
    BY <2>1
  <2> QED
    BY <2>1, <2>2 DEF RegisterKept
<1>6. new = IF i = 0 THEN Append(reg, row) ELSE [reg EXCEPT ![i] = Completed(@, c, p)]
  BY DEF Recorded, c, p
<1>7. \/ i = 0
      \/ /\ i \in DOMAIN reg /\ reg[i].scope = scope
         /\ (c # Nobody /\ reg[i].customer = c) \/ (p # Unknown /\ reg[i].phone = p)
  BY <1>5, FoundRow
<1> HIDE DEF i, new, n
<1>8. ASSUME i = 0
      PROVE  RegisterKept(new, dir) /\ \A j \in DOMAIN reg : j \in DOMAIN new /\ new[j] = reg[j]
  <2>1. row \in SuppressionRow
    BY <1>1, <1>2, <1>4 DEF SuppressionRow
  <2>2. row.customer = c /\ row.phone = p
    OBVIOUS
  <2> HIDE DEF row
  <2>3. /\ new \in Seq(SuppressionRow) /\ DOMAIN new = 1..(Len(reg) + 1)
        /\ new[Len(reg) + 1] = row
        /\ \A j \in 1..Len(reg) : new[j] = reg[j]
    BY <1>5, <1>6, <1>8, <2>1
  <2>4. ASSUME NEW j \in DOMAIN new
        PROVE  /\ new[j].customer \in 0..n
               /\ new[j].customer # Nobody /\ new[j].phone # Unknown =>
                      HasPhone(dir, new[j].phone) = {new[j].customer}
    <3>1. CASE j = Len(reg) + 1
      BY <3>1, <2>2, <2>3, <1>4
    <3>2. CASE j # Len(reg) + 1
      <4>1. j \in 1..Len(reg)
        BY <3>2, <2>3, <1>5
      <4> QED
        BY <4>1, <2>3, <1>5
    <3> QED
      BY <3>1, <3>2
  <2>5. RegisterKept(new, dir)
    BY <2>3, <2>4 DEF RegisterKept, n
  <2>6. \A j \in DOMAIN reg : j \in DOMAIN new /\ new[j] = reg[j]
    BY <2>3, <1>5
  <2> QED
    BY <2>5, <2>6
<1>9. ASSUME i # 0
      PROVE  /\ RegisterKept(new, dir) /\ DOMAIN new = DOMAIN reg
             /\ \A j \in DOMAIN reg :
                  /\ new[j].scope = reg[j].scope /\ (reg[j].active => new[j].active)
                  /\ reg[j].customer # Nobody => new[j].customer = reg[j].customer
                  /\ reg[j].phone # Unknown => new[j].phone = reg[j].phone
  <2> DEFINE old == reg[i]
             done == Completed(reg[i], c, p)
  <2>1. /\ i \in DOMAIN reg /\ old \in SuppressionRow
        /\ (c # Nobody /\ old.customer = c) \/ (p # Unknown /\ old.phone = p)
    BY <1>5, <1>7, <1>9
  <2>2. /\ done \in SuppressionRow
        /\ done.active = TRUE /\ done.scope = old.scope
        /\ done.phone = (IF old.phone = Unknown THEN p ELSE old.phone)
        /\ done.customer = (IF old.customer = Nobody THEN c ELSE old.customer)
    <3> HIDE DEF old
    <3>1. c \in Nat
      BY <1>1, <1>4
    <3> QED
      BY <2>1, <3>1, <1>2 DEF Completed, SuppressionRow, old
  <2>3. new = [reg EXCEPT ![i] = done]
    BY <1>6, <1>9
  <2> HIDE DEF done
  <2>4. /\ new \in Seq(SuppressionRow) /\ DOMAIN new = DOMAIN reg /\ new[i] = done
        /\ \A j \in DOMAIN reg : j # i => new[j] = reg[j]
    BY <2>1, <2>2, <2>3, <1>5, ExceptSeq
  <2>5. /\ done.customer \in 0..n
        /\ done.customer # Nobody /\ done.phone # Unknown => HasPhone(dir, done.phone) = {done.customer}
    <3>1. /\ old.customer \in 0..n
          /\ old.customer # Nobody /\ old.phone # Unknown => HasPhone(dir, old.phone) = {old.customer}
      BY <2>1, <1>5
    <3> HIDE DEF old
    <3> QED
      BY <2>1, <2>2, <3>1, <1>4
  <2>6. RegisterKept(new, dir)
    <3>1. \A j \in DOMAIN new :
            /\ new[j].customer \in 0..n
            /\ new[j].customer # Nobody /\ new[j].phone # Unknown =>
                   HasPhone(dir, new[j].phone) = {new[j].customer}
      BY <2>4, <2>5, <1>5
    <3> QED
      BY <2>4, <3>1 DEF RegisterKept, n
  <2> QED
    BY <2>1, <2>2, <2>4, <2>6
<1>10. RegisterKept(new, dir)
  BY <1>8, <1>9
<1>11. ASSUME NEW b \in Barred(reg, dir) PROVE b \in Barred(new, dir)
  <2>1. PICK j \in DOMAIN reg : RowBars(reg[j], dir, b)
    BY BarredByARow
  <2>2. CASE i = 0
    <3>1. j \in DOMAIN new /\ RowBars(new[j], dir, b)
      BY <2>1, <2>2, <1>8
    <3> QED
      BY <3>1, <1>10, BarredByARow
  <2>3. CASE i # 0
    <3>1. j \in DOMAIN new /\ RowBars(new[j], dir, b)
      BY <2>1, <2>3, <1>9 DEF RowBars
    <3> QED
      BY <3>1, <1>10, BarredByARow
  <2> QED
    BY <2>2, <2>3
<1> QED
  BY <1>10, <1>11 DEF new

(* A transaction that frees nobody bars some more, or does nothing that      *)
(* Consent sees.                                                             *)
LEMMA BarsSome ==
    ASSUME NEW before, NEW after, NEW some \in SUBSET (1..Cardinality(RawKeys)),
           before = Barred(register, directory), after = Barred(register, directory)',
           before \subseteq some, after = before \cup some, freed' = freed \ some
    PROVE  [Promise!ConsentNext]_<<Barred(register, directory), freed>>
<1>1. CASE some = {}
  BY <1>1
<1>2. CASE some # {}
  <2>1. Promise!Bar(some)
    BY <1>2 DEF Promise!Bar
  <2> QED
    BY <2>1 DEF Promise!ConsentNext
<1> QED
  BY <1>1, <1>2

(* The customers of a kept register are no more than the people of Consent.  *)
LEMMA BarredArePeople ==
    ASSUME NEW dir, WellKept(dir), NEW reg
    PROVE  Barred(reg, dir) \in SUBSET (1..Cardinality(RawKeys)) /\ DOMAIN dir.people \subseteq 1..Cardinality(RawKeys)
<1>1. DOMAIN dir.people = 1..Len(dir.people)
  BY DEF WellKept
<1>2. Len(dir.people) \in Nat /\ Len(dir.people) <= Cardinality(RawKeys)
  BY AsManyAsKeys
<1>3. Cardinality(RawKeys) \in Nat
  BY IdentityAssumption, FS_CardinalityType
<1> QED
  BY <1>1, <1>2, <1>3 DEF Barred

(* A committed request keeps the register in order and frees nobody, and one *)
(* that is rolled back changes nothing.                                      *)
LEMMA CommitKeeps ==
    ASSUME ConsentInv, NEW reg, RegisterKept(reg, directory),
           Barred(register, directory) \subseteq Barred(reg, directory),
           Commit(reg), directory' = directory
    PROVE  ConsentInv' /\ [Promise!ConsentNext]_<<Barred(register, directory), freed>>
<1> DEFINE before == Barred(register, directory)
           after == Barred(register', directory)
<1>1. register' = reg \/ register' = register
  BY DEF Commit
<1>2. before \subseteq after
  BY <1>1
<1>3. ConsentInv'
  BY <1>1 DEF ConsentInv
<1>4. freed' = freed \ after
  BY DEF Commit
<1>5. after \in SUBSET (1..Cardinality(RawKeys))
  BY BarredArePeople DEF ConsentInv
<1>6. after = Barred(register, directory)'
  OBVIOUS
<1>7. after = before \cup after
  BY <1>2
<1> HIDE DEF after, before
<1>8. [Promise!ConsentNext]_<<Barred(register, directory), freed>>
  BY <1>2, <1>4, <1>5, <1>6, <1>7, BarsSome DEF before
<1> QED
  BY <1>3, <1>8

(* One phone of a list, if it is one.                                        *)
LEMMA ListedKeeps ==
    ASSUME WellKept(directory), NEW reg, RegisterKept(reg, directory), NEW p \in Phones \cup {Unknown}
    PROVE  /\ RegisterKept(Listed(reg, p), directory)
           /\ Barred(reg, directory) \subseteq Barred(Listed(reg, p), directory)
<1>1. CASE p = Unknown
  BY <1>1 DEF Listed
<1>2. CASE p # Unknown
  <2>1. Nobody \in 0..Len(directory.people) /\ "all" \in Scopes
    BY ScopesAssumption DEF Nobody, WellKept
  <2>2. Listed(reg, p) = Recorded(reg, directory, Nobody, p, "all")
    BY <1>2 DEF Listed
  <2> QED
    BY <2>1, <2>2, RecordedKeeps
<1> QED
  BY <1>1, <1>2

(* A withdrawal frees nobody but whom it names (revoke_opt_out).             *)
LEMMA RevokeKeeps ==
    ASSUME ConsentInv, NEW c, NEW p, NEW scope, Revoke(c, p, scope), directory' = directory,
           (c \in Customers /\ p = Unknown) \/ (c = Nobody /\ p \in Phones)
    PROVE  ConsentInv' /\ [Promise!ConsentNext]_<<Barred(register, directory), freed>>
<1> DEFINE i == FindRow(register, c, p, scope)
           named == ({c} \ {Nobody}) \cup HasPhone(directory, p)
           before == Barred(register, directory)
           after == Barred(register', directory)
<1>1. /\ WellKept(directory) /\ RegisterKept(register, directory)
      /\ register \in Seq(SuppressionRow)
      /\ \A j \in DOMAIN register : register[j] \in SuppressionRow
  <2>1. WellKept(directory) /\ RegisterKept(register, directory) /\ register \in Seq(SuppressionRow)
    BY DEF ConsentInv, RegisterKept
  <2> QED
    BY <2>1
<1>2. /\ i \in DOMAIN register /\ register' = [register EXCEPT ![i].active = FALSE]
      /\ freed' = freed \cup named
      /\ (c # Nobody /\ register[i].customer = c) \/ (p # Unknown /\ register[i].phone = p)
  BY <1>1, FoundRow DEF Revoke
<1> HIDE DEF i
<1>3. named \subseteq DOMAIN directory.people
  BY DEF HasPhone, Customers, Nobody
<1>4. /\ register' \in Seq(SuppressionRow) /\ DOMAIN register' = DOMAIN register
      /\ register'[i].active = FALSE
      /\ register'[i].customer = register[i].customer /\ register'[i].phone = register[i].phone
      /\ \A j \in DOMAIN register : j # i => register'[j] = register[j]
  <2> DEFINE done == [register[i] EXCEPT !.active = FALSE]
  <2>1. /\ done \in SuppressionRow /\ done.active = FALSE
        /\ done.customer = register[i].customer /\ done.phone = register[i].phone
    <3>1. register[i] \in SuppressionRow
      BY <1>1, <1>2
    <3> QED
      BY <3>1 DEF SuppressionRow
  <2>2. register' = [register EXCEPT ![i] = done]
    BY <1>2
  <2> HIDE DEF done
  <2> QED
    BY <2>1, <2>2, <1>1, <1>2, ExceptSeq
<1>5. RegisterKept(register', directory)
  <2>1. \A j \in DOMAIN register' :
            register'[j].customer = register[j].customer /\ register'[j].phone = register[j].phone
    BY <1>4
  <2>2. \A j \in DOMAIN register :
            /\ register[j].customer \in 0..Len(directory.people)
            /\ register[j].customer # Nobody /\ register[j].phone # Unknown =>
                    HasPhone(directory, register[j].phone) = {register[j].customer}
    BY <1>1 DEF RegisterKept
  <2> QED
    BY <2>1, <2>2, <1>4 DEF RegisterKept
<1>6. ASSUME NEW b \in after PROVE b \in before
  <2>1. PICK j \in DOMAIN register' : RowBars(register'[j], directory, b)
    BY <1>1, <1>5, BarredByARow
  <2>2. j # i
    BY <2>1, <1>4 DEF RowBars
  <2>3. j \in DOMAIN register /\ RowBars(register[j], directory, b)
    BY <2>1, <2>2, <1>4
  <2> QED
    BY <2>3, <1>1, BarredByARow
<1>7. ASSUME NEW b \in before, b \notin after PROVE b \in named
  <2>1. PICK j \in DOMAIN register : RowBars(register[j], directory, b)
    BY <1>1, BarredByARow
  <2>2. j = i
    <3>1. CASE j # i
      <4>1. j \in DOMAIN register' /\ RowBars(register'[j], directory, b)
        BY <2>1, <3>1, <1>4
      <4>2. b \in after
        BY <4>1, <1>1, <1>5, BarredByARow
      <4> QED
        BY <4>2, <1>7
    <3> QED
      BY <3>1
  <2>3. \/ register[i].customer # Nobody /\ b = register[i].customer
        \/ register[i].phone # Unknown /\ b \in HasPhone(directory, register[i].phone)
    BY <2>1, <2>2 DEF RowBars
  <2>4. register[i].customer # Nobody /\ register[i].phone # Unknown =>
            HasPhone(directory, register[i].phone) = {register[i].customer}
    BY <1>1, <1>2 DEF RegisterKept
  <2>5. CASE c # Nobody /\ register[i].customer = c
    <3>1. b = c
      BY <2>3, <2>4, <2>5
    <3> QED
      BY <3>1, <2>5
  <2>6. CASE p # Unknown /\ register[i].phone = p
    <3>1. b \in HasPhone(directory, p)
      BY <2>3, <2>4, <2>6
    <3> QED
      BY <3>1
  <2> QED
    BY <1>2, <2>5, <2>6
<1>8. ConsentInv'
  BY <1>1, <1>5 DEF ConsentInv
<1>9. Promise!Allow(named)
  <2>1. before \ after \in SUBSET named /\ after = before \ (before \ after)
    BY <1>6, <1>7
  <2>2. after = Barred(register, directory)'
    OBVIOUS
  <2> HIDE DEF named, after, before
  <2> QED
    BY <2>1, <2>2, <1>2 DEF Promise!Allow, before
<1>10. named \in SUBSET (1..Cardinality(RawKeys))
  BY <1>1, <1>3, BarredArePeople
<1>11. Promise!ConsentNext
  BY <1>9, <1>10 DEF Promise!ConsentNext
<1> QED
  BY <1>8, <1>11

-----------------------------------------------------------------------------
(* Policy.                                                                   *)

(* The inductive invariant of the settings.                                  *)
PolicyInv ==
    /\ settings = [k \in Keys7 |-> settings[k]]
    /\ \A k \in {"high", "low", "min_lines"} : settings[k] \in Int \cup {Unset}
    /\ ThresholdsOrdered

(* Storing one key leaves the thresholds and the ladder alone (set_setting). *)
LEMMA StoreKeepsPolicy ==
    ASSUME PolicyInv, NEW key \in {"floor", "capacity", "cell"}, NEW v, Store(key, v)
    PROVE  PolicyInv'
<1>1. settings' = [settings EXCEPT ![key] = v] /\ DOMAIN settings = Keys7
  BY DEF Store, PolicyInv
<1>2. settings' = [k \in Keys7 |-> settings'[k]]
  BY <1>1
<1>3. \A k \in {"high", "low", "min_lines", "ladder"} : settings'[k] = settings[k]
  BY <1>1 DEF Keys7
<1>4. /\ settings'["high"] = settings["high"] /\ settings'["low"] = settings["low"]
      /\ settings'["min_lines"] = settings["min_lines"] /\ settings'["ladder"] = settings["ladder"]
  BY <1>3
<1>5. ThresholdsOrdered'
  BY <1>4 DEF PolicyInv, ThresholdsOrdered, Thresholds, Stored, GoodLadder
<1>6. \A k \in {"high", "low", "min_lines"} : settings'[k] \in Int \cup {Unset}
  BY <1>3 DEF PolicyInv
<1> QED
  BY <1>2, <1>5, <1>6 DEF PolicyInv

(* One request that sets a ladder and thresholds, whichever of them is       *)
(* refused (write_offer_policy).                                             *)
LEMMA OfferKeepsPolicy ==
    ASSUME PolicyInv, NEW hasLadder \in BOOLEAN, NEW rungs,
           NEW high \in Numbers \cup {Unset}, NEW low \in Numbers \cup {Unset}, NEW min \in Numbers \cup {Unset},
           WriteOfferPolicy(hasLadder, rungs, high, low, min)
    PROVE  PolicyInv'
<1> DEFINE taken == {high, low, min} # {Unset} /\ GoodThresholds(high, low, min)
<1>1. /\ Thresholds.high \in Int /\ Thresholds.low \in Int /\ Thresholds.min_lines \in Int
      /\ high \in Int \cup {Unset} /\ low \in Int \cup {Unset} /\ min \in Int \cup {Unset}
      /\ settings["high"] \in Int \cup {Unset} /\ settings["low"] \in Int \cup {Unset}
      /\ settings["min_lines"] \in Int \cup {Unset}
  BY SettingsAssumption DEF PolicyInv, Thresholds, Stored
<1>2. /\ settings'["ladder"] = IF hasLadder THEN Ladder(rungs) ELSE settings["ladder"]
      /\ settings'["high"] = IF taken THEN Given(high, Thresholds.high) ELSE settings["high"]
      /\ settings'["low"] = IF taken THEN Given(low, Thresholds.low) ELSE settings["low"]
      /\ settings'["min_lines"] = IF taken THEN Given(min, Thresholds.min_lines) ELSE settings["min_lines"]
      /\ settings' = [k \in Keys7 |-> settings'[k]]
      /\ hasLadder => GoodLadder(rungs)
  <2> HIDE DEF taken
  <2>1. settings' = [k \in Keys7 |->
           IF k = "ladder" /\ hasLadder THEN Ladder(rungs)
           ELSE IF k \in {"high", "low", "min_lines"} /\ taken
                THEN Given(CASE k = "high" -> high [] k = "low" -> low [] OTHER -> min, Thresholds[k])
           ELSE settings[k]]
    BY DEF WriteOfferPolicy, taken
  <2>2. hasLadder => GoodLadder(rungs)
    BY DEF WriteOfferPolicy
  <2> QED
    BY <2>1, <2>2 DEF Keys7
<1>3. /\ settings'["high"] \in Int \cup {Unset} /\ settings'["low"] \in Int \cup {Unset}
      /\ settings'["min_lines"] \in Int \cup {Unset}
  BY <1>1, <1>2 DEF Given
<1>4. /\ 0 <= Thresholds.low /\ Thresholds.low < Thresholds.high /\ Thresholds.high <= 10000
      /\ settings["ladder"] # Unset => GoodLadder(settings["ladder"]) /\ settings["ladder"] # {}
  BY DEF PolicyInv, ThresholdsOrdered
<1>5. Thresholds'.low = Stored("low", DefaultLow)' /\ Thresholds'.high = Stored("high", DefaultHigh)'
  BY DEF Thresholds
<1>6. 0 <= Thresholds'.low /\ Thresholds'.low < Thresholds'.high /\ Thresholds'.high <= 10000
  <2>1. CASE taken
    <3>1. /\ 0 <= Given(low, Thresholds.low) /\ Given(low, Thresholds.low) < Given(high, Thresholds.high)
          /\ Given(high, Thresholds.high) <= 10000
      BY <2>1 DEF GoodThresholds
    <3>2. Given(low, Thresholds.low) \in Int /\ Given(high, Thresholds.high) \in Int
      BY <1>1 DEF Given
    <3>3. Thresholds'.low = Given(low, Thresholds.low) /\ Thresholds'.high = Given(high, Thresholds.high)
      BY <2>1, <3>2, <1>2, <1>5, SettingsAssumption DEF Stored
    <3> QED
      BY <3>1, <3>3
  <2>2. CASE ~taken
    <3>1. Thresholds'.low = Thresholds.low /\ Thresholds'.high = Thresholds.high
      BY <2>2, <1>2, <1>5 DEF Thresholds, Stored
    <3> QED
      BY <3>1, <1>4
  <2> QED
    BY <2>1, <2>2
<1>7. settings'["ladder"] # Unset => GoodLadder(settings'["ladder"]) /\ settings'["ladder"] # {}
  BY <1>2, <1>4 DEF Ladder
<1>8. ThresholdsOrdered'
  BY <1>6, <1>7 DEF ThresholdsOrdered, GoodLadder
<1> QED
  BY <1>2, <1>3, <1>8 DEF PolicyInv

(* The setters, one by one and two in one request.                           *)
LEMMA GovernKeepsPolicy ==
    ASSUME PolicyInv, SettingsNext
    PROVE  PolicyInv'
<1>1. CASE \E v \in Numbers \cup {Unset} : SetFloor(v) \/ SetCapacity(v) \/ SetCell(v)
  <2>1. PICK v : SetFloor(v) \/ SetCapacity(v) \/ SetCell(v)
    BY <1>1
  <2>2. PICK key \in {"floor", "capacity", "cell"} : Store(key, v)
    BY <2>1 DEF SetFloor, SetCapacity, SetCell
  <2> QED
    BY <2>2, StoreKeepsPolicy
<1>2. CASE \E rungs \in {S \in SUBSET Numbers : Cardinality(S) <= 1}, given \in BOOLEAN,
              high, low, min \in Numbers \cup {Unset} : WriteOfferPolicy(given, rungs, high, low, min)
  BY <1>2, OfferKeepsPolicy
<1> QED
  BY <1>1, <1>2 DEF SettingsNext

-----------------------------------------------------------------------------
(* The business.                                                             *)

vars == <<directory, ledgerVars, costVars, optOutVars, settings, schemaVars, focus>>

(* The four inductive invariants; that of identity needs the lines to be     *)
(* typed, for what an application of costs does to them.                     *)
LedgerInv == IdentityInv /\ PriceInv /\ ConsentInv /\ PolicyInv

(* An empty business is in order.                                            *)
LEMMA InitInOrder == Init => LedgerInv
<1> SUFFICES ASSUME Init PROVE LedgerInv
  OBVIOUS
<1>1. /\ directory = [people |-> <<>>, owner |-> [k \in Keys |-> Nobody]]
      /\ batches = <<>> /\ DOMAIN lines = {} /\ history = {} /\ applied = {} /\ register = <<>>
      /\ settings = [k \in Keys7 |-> Unset]
  BY DEF Init, IdentityInit, LedgerInit, OptOutInit, CostInit, SettingsInit, EmptyTable
<1>2. WellKept(directory)
  BY <1>1 DEF WellKept, Nobody
<1>3. IdentityInv
  BY <1>1, <1>2 DEF IdentityInv, BatchesInOrder, KeysAreOwned, SplitIsReported
<1>4. PriceInv
  BY <1>1 DEF PriceInv, LinesTyped, PointsTyped, PricesStay, PricedAsOfSale
<1>5. ConsentInv
  BY <1>1, <1>2 DEF ConsentInv, RegisterKept
<1>6. PolicyInv
  <2>1. \A k \in Keys7 : settings[k] = Unset
    BY <1>1
  <2>2. /\ settings["high"] = Unset /\ settings["low"] = Unset /\ settings["min_lines"] = Unset
        /\ settings["ladder"] = Unset
    BY <2>1 DEF Keys7
  <2>3. ThresholdsOrdered
    BY <2>2, SettingsAssumption DEF ThresholdsOrdered, Thresholds, Stored
  <2> QED
    BY <1>1, <2>2, <2>3 DEF PolicyInv
<1> QED
  BY <1>3, <1>4, <1>5, <1>6 DEF LedgerInv

(* Learning from an export, or from a refused one.                           *)
LEMMA LearnKeeps ==
    ASSUME LedgerInv, Learn, UNCHANGED settings
    PROVE  LedgerInv' /\ [Promise!ConsentNext]_<<Barred(register, directory), freed>>
<1>1. PICK f \in Files : BlockedImport(f) \/ PostedImport(f)
  BY DEF Learn, Import
<1>2. /\ register' = register /\ UNCHANGED costVars
      /\ freed' = freed \ Barred(register, directory')
  BY DEF Learn
<1>3. PolicyInv'
  BY DEF LedgerInv, PolicyInv, ThresholdsOrdered, Thresholds, Stored, GoodLadder
<1>4. CASE BlockedImport(f)
  <2>1. IdentityInv' /\ directory' = directory /\ lines' = lines
    BY <1>4, BlockedKeepsIdentity DEF LedgerInv, BlockedImport
  <2>2. PriceInv'
    BY <2>1, <1>2 DEF LedgerInv, PriceInv, LinesTyped, PointsTyped, PricesStay, PricedAsOfSale, Points, costVars
  <2>3. ConsentInv'
    BY <2>1, <1>2 DEF LedgerInv, ConsentInv
  <2>4. Barred(register, directory') \in SUBSET (1..Cardinality(RawKeys))
    BY <2>1, BarredArePeople DEF LedgerInv, ConsentInv
  <2>5. [Promise!ConsentNext]_<<Barred(register, directory), freed>>
    <3>1. Barred(register, directory)' = Barred(register, directory)
      BY <2>1, <1>2
    <3>2. freed' = freed \ Barred(register, directory)
      BY <2>1, <1>2
    <3>3. Barred(register, directory) \in SUBSET (1..Cardinality(RawKeys))
      BY <2>1, <2>4
    <3> QED
      BY <3>1, <3>2, <3>3, BarsSome
  <2> QED
    BY <1>3, <2>1, <2>2, <2>3, <2>5 DEF LedgerInv
<1>5. CASE PostedImport(f)
  <2>1. IdentityInv' /\ Grows(directory, directory')
    BY <1>5, PostedKeepsIdentity DEF LedgerInv
  <2>2. PriceInv'
    BY <1>2, <1>5, PostedKeepsPrices DEF LedgerInv
  <2>3. WellKept(directory) /\ WellKept(directory') /\ RegisterKept(register, directory)
    BY <2>1 DEF LedgerInv, IdentityInv, ConsentInv
  <2>4. /\ RegisterKept(register, directory')
        /\ Barred(register, directory) \subseteq Barred(register, directory')
    BY <2>1, <2>3, KnownBetter
  <2>5. ConsentInv'
    BY <2>3, <2>4, <1>2 DEF ConsentInv
  <2>6. Barred(register, directory)' = Barred(register, directory')
    BY <1>2
  <2>7. Barred(register, directory') \in SUBSET (1..Cardinality(RawKeys))
    BY <2>3, BarredArePeople
  <2>8. [Promise!ConsentNext]_<<Barred(register, directory), freed>>
    <3>1. Barred(register, directory)' = Barred(register, directory) \cup Barred(register, directory')
      BY <2>4, <2>6
    <3> QED
      BY <3>1, <2>4, <2>7, <1>2, BarsSome
  <2> QED
    BY <1>3, <2>1, <2>2, <2>5, <2>8 DEF LedgerInv
<1> QED
  BY <1>1, <1>4, <1>5

(* A request about consent.                                                  *)
LEMMA AskKeeps ==
    ASSUME LedgerInv, Ask, UNCHANGED settings
    PROVE  LedgerInv' /\ [Promise!ConsentNext]_<<Barred(register, directory), freed>>
<1>1. /\ directory' = directory /\ batches' = batches /\ lines' = lines
      /\ history' = history /\ applied' = applied /\ settings' = settings
  BY DEF Ask, ledgerVars, costVars
<1>2. IdentityInv' /\ PriceInv' /\ PolicyInv'
  <2>1. IdentityInv'
    BY <1>1 DEF LedgerInv, IdentityInv, BatchesInOrder, KeysAreOwned, SplitIsReported, Posted
  <2>2. PriceInv'
    BY <1>1 DEF LedgerInv, PriceInv, LinesTyped, PointsTyped, PricesStay, PricedAsOfSale, Points
  <2>3. PolicyInv'
    BY <1>1 DEF LedgerInv, PolicyInv, ThresholdsOrdered, Thresholds, Stored, GoodLadder
  <2> QED
    BY <2>1, <2>2, <2>3
<1>3. /\ ConsentInv /\ WellKept(directory) /\ RegisterKept(register, directory)
      /\ Len(directory.people) \in Nat /\ Customers = 1..Len(directory.people)
  BY DEF LedgerInv, ConsentInv, Customers, WellKept
<1>4. Customers \subseteq 0..Len(directory.people) /\ Nobody \in 0..Len(directory.people)
  BY <1>3 DEF Nobody
<1>5. ConsentInv' /\ [Promise!ConsentNext]_<<Barred(register, directory), freed>>
  <2>1. CASE \E c \in Customers, s \in Scopes : OptOutCustomer(c, s)
    <3>1. PICK c \in Customers, s \in Scopes : OptOutCustomer(c, s)
      BY <2>1
    <3> DEFINE reg == Recorded(register, directory, c, Unknown, s)
    <3>2. RegisterKept(reg, directory) /\ Barred(register, directory) \subseteq Barred(reg, directory)
      BY <1>3, <1>4, RecordedKeeps
    <3>3. Commit(reg)
      BY <3>1 DEF OptOutCustomer
    <3> HIDE DEF reg
    <3> QED
      BY <3>2, <3>3, <1>1, <1>3, CommitKeeps
  <2>2. CASE \E p \in Phones, s \in Scopes : OptOutPhone(p, s)
    <3>1. PICK p \in Phones, s \in Scopes : OptOutPhone(p, s)
      BY <2>2
    <3> DEFINE reg == Recorded(register, directory, Nobody, p, s)
    <3>2. RegisterKept(reg, directory) /\ Barred(register, directory) \subseteq Barred(reg, directory)
      BY <1>3, <1>4, RecordedKeeps
    <3>3. Commit(reg)
      BY <3>1 DEF OptOutPhone
    <3> HIDE DEF reg
    <3> QED
      BY <3>2, <3>3, <1>1, <1>3, CommitKeeps
  <2>3. CASE \E p, q \in Phones \cup {Unknown} : OptOutList(p, q)
    <3>1. PICK p \in Phones \cup {Unknown}, q \in Phones \cup {Unknown} : OptOutList(p, q)
      BY <2>3
    <3> DEFINE one == Listed(register, p)
               both == Listed(one, q)
    <3>2. RegisterKept(one, directory) /\ Barred(register, directory) \subseteq Barred(one, directory)
      BY <1>3, ListedKeeps
    <3>3. Commit(both)
      BY <3>1 DEF OptOutList
    <3> HIDE DEF one
    <3>4. RegisterKept(both, directory) /\ Barred(one, directory) \subseteq Barred(both, directory)
      BY <3>2, <1>3, ListedKeeps
    <3> HIDE DEF both
    <3>5. Barred(register, directory) \subseteq Barred(both, directory)
      BY <3>2, <3>4
    <3> QED
      BY <3>3, <3>4, <3>5, <1>1, <1>3, CommitKeeps
  <2>4. CASE \E c \in Customers, s \in Scopes : Revoke(c, Unknown, s)
    BY <2>4, <1>1, <1>3, RevokeKeeps
  <2>5. CASE \E p \in Phones, s \in Scopes : Revoke(Nobody, p, s)
    BY <2>5, <1>1, <1>3, RevokeKeeps
  <2> QED
    BY <2>1, <2>2, <2>3, <2>4, <2>5 DEF Ask, OptOutNext
<1> QED
  BY <1>2, <1>5 DEF LedgerInv

(* Cost files move the prices of lines and nothing else of them.             *)
LEMMA CostsKeep ==
    ASSUME LedgerInv, PostCosts, UNCHANGED settings
    PROVE  LedgerInv' /\ [Promise!ConsentNext]_<<Barred(register, directory), freed>>
<1>1. /\ directory' = directory /\ batches' = batches /\ register' = register /\ freed' = freed
      /\ settings' = settings
  BY DEF PostCosts, optOutVars
<1>2. /\ PriceInv'
      /\ \/ lines' = lines
         \/ lines' = [u \in DOMAIN lines |-> Priced(history, lines[u])]
  <2>1. CASE \E row \in CostRows : RegisterCost(row) /\ UNCHANGED lines
    BY <2>1, RegisterKeepsPrices DEF LedgerInv
  <2>2. CASE ApplyCosts
    BY <2>2, ApplyKeepsPrices DEF LedgerInv, ApplyCosts
  <2>3. CASE ApplyLost
    BY <2>3 DEF ApplyLost, LedgerInv, PriceInv, LinesTyped, PointsTyped, PricesStay, PricedAsOfSale, Points
  <2> QED
    BY <2>1, <2>2, <2>3 DEF PostCosts
<1>3. /\ DOMAIN lines' = DOMAIN lines
      /\ \A u \in DOMAIN lines : lines'[u].raw = lines[u].raw /\ lines'[u].customer = lines[u].customer
  <2>1. CASE lines' = lines
    BY <2>1
  <2>2. CASE lines' = [u \in DOMAIN lines |-> Priced(history, lines[u])]
    <3>1. ASSUME NEW u \in DOMAIN lines
          PROVE  lines'[u].raw = lines[u].raw /\ lines'[u].customer = lines[u].customer
      <4> DEFINE line == lines[u]
                 res == Priced(history, line)
      <4>1. lines'[u] = res /\ DOMAIN line = LineFields /\ line.date \in Nat
        BY <2>2 DEF LedgerInv, PriceInv, LinesTyped
      <4>2. \A p \in history : p.from \in Nat /\ p.cost \in Int
        BY DEF LedgerInv, PriceInv, PointsTyped
      <4> HIDE DEF line
      <4>3. \A field \in {"batch", "raw", "product", "ret", "customer", "date", "amount", "header"} :
                res[field] = line[field]
        BY <4>1, <4>2, PricedLine
      <4> HIDE DEF res
      <4>4. res.raw = line.raw /\ res.customer = line.customer
        BY <4>3
      <4> QED
        BY <4>1, <4>4 DEF line
    <3> QED
      BY <3>1, <2>2
  <2> QED
    BY <2>1, <2>2, <1>2
<1>4. IdentityInv'
  <2>1. KeysAreOwned'
    BY <1>1, <1>3 DEF LedgerInv, IdentityInv, KeysAreOwned
  <2>2. SplitIsReported'
    BY <1>1, <1>3 DEF LedgerInv, IdentityInv, SplitIsReported, Posted
  <2> QED
    BY <1>1, <2>1, <2>2 DEF LedgerInv, IdentityInv, BatchesInOrder
<1>5. ConsentInv' /\ UNCHANGED <<Barred(register, directory), freed>>
  BY <1>1 DEF LedgerInv, ConsentInv
<1>6. PolicyInv'
  BY <1>1 DEF LedgerInv, PolicyInv, ThresholdsOrdered, Thresholds, Stored, GoodLadder
<1> QED
  BY <1>2, <1>4, <1>5, <1>6 DEF LedgerInv

(* Nothing happens but in the business.                                      *)
LEMMA StutterKeeps ==
    ASSUME LedgerInv, UNCHANGED <<directory, ledgerVars, costVars, optOutVars>>, settings' = settings \/ SettingsNext
    PROVE  LedgerInv' /\ [Promise!ConsentNext]_<<Barred(register, directory), freed>>
<1>1. /\ directory' = directory /\ batches' = batches /\ lines' = lines
      /\ history' = history /\ applied' = applied /\ register' = register /\ freed' = freed
  BY DEF ledgerVars, costVars, optOutVars
<1>2. IdentityInv'
  BY <1>1 DEF LedgerInv, IdentityInv, BatchesInOrder, KeysAreOwned, SplitIsReported, Posted
<1>3. PriceInv'
  BY <1>1 DEF LedgerInv, PriceInv, LinesTyped, PointsTyped, PricesStay, PricedAsOfSale, Points
<1>4. ConsentInv' /\ UNCHANGED <<Barred(register, directory), freed>>
  BY <1>1 DEF LedgerInv, ConsentInv
<1>5. PolicyInv'
  <2>1. CASE settings' = settings
    BY <2>1 DEF LedgerInv, PolicyInv, ThresholdsOrdered, Thresholds, Stored, GoodLadder
  <2>2. CASE SettingsNext
    BY <2>2, GovernKeepsPolicy DEF LedgerInv
  <2> QED
    BY <2>1, <2>2
<1> QED
  BY <1>2, <1>3, <1>4, <1>5 DEF LedgerInv

(* Every step of the business keeps it in order and is one of Consent.       *)
LEMMA StepKeeps ==
    ASSUME LedgerInv, [Next]_vars
    PROVE  LedgerInv' /\ [Promise!ConsentNext]_<<Barred(register, directory), freed>>
<1>1. CASE Learn /\ UNCHANGED settings
  BY <1>1, LearnKeeps
<1>2. CASE Ask /\ UNCHANGED settings
  BY <1>2, AskKeeps
<1>3. CASE PostCosts /\ UNCHANGED settings
  BY <1>3, CostsKeep
<1>4. CASE Govern
  BY <1>4, StutterKeeps DEF Govern
<1>5. CASE Upgrade
  BY <1>5, StutterKeeps DEF Upgrade
<1>6. CASE UNCHANGED vars
  BY <1>6, StutterKeeps DEF vars
<1> QED
  BY <1>1, <1>2, <1>3, <1>4, <1>5, <1>6 DEF Next

(* The inductive invariant of the business, for every set of exports, of     *)
(* cost files and of phones.                                                 *)
THEOREM LedgerInOrder == Spec => []LedgerInv
<1>1. LedgerInv /\ [Next]_vars => LedgerInv'
  BY StepKeeps
<1> QED
  BY <1>1, InitInOrder, PTL DEF Spec, vars

(* A phone stands for one customer, and a line that is somebody else's than  *)
(* its key says is listed, whatever exports came in and in whatever order    *)
(* (resolve_customers_with_candidates).                                      *)
THEOREM IdentityHolds == Spec => []IdentitySound
<1>1. LedgerInv => IdentitySound
  BY PhonesAreOnes DEF LedgerInv, IdentityInv, IdentitySound
<1> QED
  BY <1>1, LedgerInOrder, PTL

(* A line that was priced from the history is priced as of the day it was    *)
(* sold, through every order of imports, corrections and cost files, and     *)
(* though the second transaction of a request may be lost (apply_costs).     *)
THEOREM PricesAreOfTheDay == Spec => []PricedAsOfSale
<1>1. LedgerInv => PricedAsOfSale
  BY DEF LedgerInv, PriceInv
<1> QED
  BY <1>1, LedgerInOrder, PTL

(* The thresholds of full price stay in order, set alone, together or        *)
(* refused halfway (write_offer_policy).                                     *)
THEOREM ThresholdsHold == Spec => []ThresholdsOrdered
<1>1. LedgerInv => ThresholdsOrdered
  BY DEF LedgerInv, PolicyInv
<1> QED
  BY <1>1, LedgerInOrder, PTL

(* The register with its customers, phones and scopes, the imports that make *)
(* more known of people, and the gate that expands what a person is called,  *)
(* implement Consent: nobody is freed but whom a withdrawal names.           *)
THEOREM RegisterKeepsConsent == Spec => KeepsConsent
<1>1. Init => Promise!ConsentInit
  <2> SUFFICES ASSUME Init PROVE Barred(register, directory) = {} /\ freed = {}
    BY DEF Promise!ConsentInit
  <2>1. register = <<>> /\ directory.people = <<>> /\ freed = {}
    BY DEF Init, OptOutInit, IdentityInit
  <2> QED
    BY <2>1 DEF Barred
<1>2. LedgerInv /\ [Next]_vars => [Promise!ConsentNext]_<<Barred(register, directory), freed>>
  BY StepKeeps
<1> QED
  BY <1>1, <1>2, LedgerInOrder, PTL DEF Spec, vars, KeepsConsent, Promise!ConsentSpec

-----------------------------------------------------------------------------
(* Sums of lines and of rows.                                                *)

Amounts(all) == [u \in DOMAIN all |-> all[u].amount]
RowAmounts(f) == [i \in DOMAIN f.rows |-> f.rows[i].amount]

SoldIn(all, S) == {u \in S : ~all[u].ret}
ReturnedIn(all, S) == {u \in S : all[u].ret}

(* What an order sold and took back is summed over its lines                 *)
(* (_recompute_order_headers).                                               *)
LEMMA SalesAreSums ==
    ASSUME NEW all, NEW S \in SUBSET (DOMAIN all), IsFiniteSet(S), \A u \in S : all[u].amount \in Int
    PROVE  Sales(all, S) = SumOver(Amounts(all), SoldIn(all, S))
<1> DEFINE A == SoldIn(all, S)
           f == Amounts(all)
           E(it) == [s \in SUBSET A |-> IF s = {} THEN 0 ELSE it[s \ {Pick(s)}] + all[Pick(s)].amount]
           F(it) == [s \in SUBSET A |-> IF s = {} THEN 0 ELSE it[s \ {Pick(s)}] + f[Pick(s)]]
<1>1. Sales(all, S) = (CHOOSE it : it = E(it))[A]
  BY DEF Sales, SoldIn, Total, FoldSet, MapThenFoldSet, Pick
<1>2. ASSUME NEW it PROVE E(it) = F(it)
  <2>1. ASSUME NEW s \in SUBSET A, s # {} PROVE all[Pick(s)].amount = f[Pick(s)]
    BY <2>1, PickIsIn DEF SoldIn, Amounts
  <2> HIDE DEF f
  <2> QED
    BY <2>1
<1>3. IsFiniteSet(A) /\ \A x \in A : f[x] \in Int
  BY FS_Subset DEF SoldIn, Amounts
<1>4. (\E g : g = F(g)) /\ \A g : g = F(g) => g[A] = SumOver(f, A)
  <2> HIDE DEF f, A
  <2> QED
    BY <1>3, SumBackwards
<1>5. (\E g : g = E(g)) /\ \A g : g = E(g) => g[A] = SumOver(f, A)
  <2> HIDE DEF E, F
  <2> QED
    BY <1>2, <1>4
<1> QED
  <2> HIDE DEF E
  <2> QED
    BY <1>1, <1>5

LEMMA ReturnsAreSums ==
    ASSUME NEW all, NEW S \in SUBSET (DOMAIN all), IsFiniteSet(S), \A u \in S : all[u].amount \in Int
    PROVE  Returns(all, S) = -SumOver(Amounts(all), ReturnedIn(all, S))
<1> DEFINE A == ReturnedIn(all, S)
           f == Amounts(all)
           E(it) == [s \in SUBSET A |-> IF s = {} THEN 0 ELSE it[s \ {Pick(s)}] + all[Pick(s)].amount]
           F(it) == [s \in SUBSET A |-> IF s = {} THEN 0 ELSE it[s \ {Pick(s)}] + f[Pick(s)]]
<1>1. Returns(all, S) = -((CHOOSE it : it = E(it))[A])
  BY DEF Returns, ReturnedIn, Total, FoldSet, MapThenFoldSet, Pick
<1>2. ASSUME NEW it PROVE E(it) = F(it)
  <2>1. ASSUME NEW s \in SUBSET A, s # {} PROVE all[Pick(s)].amount = f[Pick(s)]
    BY <2>1, PickIsIn DEF ReturnedIn, Amounts
  <2> HIDE DEF f
  <2> QED
    BY <2>1
<1>3. IsFiniteSet(A) /\ \A x \in A : f[x] \in Int
  BY FS_Subset DEF ReturnedIn, Amounts
<1>4. (\E g : g = F(g)) /\ \A g : g = F(g) => g[A] = SumOver(f, A)
  <2> HIDE DEF f, A
  <2> QED
    BY <1>3, SumBackwards
<1>5. (\E g : g = E(g)) /\ \A g : g = E(g) => g[A] = SumOver(f, A)
  <2> HIDE DEF E, F
  <2> QED
    BY <1>2, <1>4
<1> QED
  <2> HIDE DEF E
  <2> QED
    BY <1>1, <1>5

LEMMA LineTotalIsSum ==
    ASSUME NEW all, NEW S \in SUBSET (DOMAIN all), IsFiniteSet(S), \A u \in S : all[u].amount \in Int
    PROVE  Total(S, LAMBDA u : all[u].amount) = SumOver(Amounts(all), S)
<1> DEFINE f == Amounts(all)
           E(it) == [s \in SUBSET S |-> IF s = {} THEN 0 ELSE it[s \ {Pick(s)}] + all[Pick(s)].amount]
           F(it) == [s \in SUBSET S |-> IF s = {} THEN 0 ELSE it[s \ {Pick(s)}] + f[Pick(s)]]
<1>1. Total(S, LAMBDA u : all[u].amount) = (CHOOSE it : it = E(it))[S]
  BY DEF Total, FoldSet, MapThenFoldSet, Pick
<1>2. ASSUME NEW it PROVE E(it) = F(it)
  <2>1. ASSUME NEW s \in SUBSET S, s # {} PROVE all[Pick(s)].amount = f[Pick(s)]
    BY <2>1, PickIsIn DEF Amounts
  <2> HIDE DEF f
  <2> QED
    BY <2>1
<1>3. \A x \in S : f[x] \in Int
  BY DEF Amounts
<1>4. (\E g : g = F(g)) /\ \A g : g = F(g) => g[S] = SumOver(f, S)
  <2> HIDE DEF f
  <2> QED
    BY <1>3, SumBackwards
<1>5. (\E g : g = E(g)) /\ \A g : g = E(g) => g[S] = SumOver(f, S)
  <2> HIDE DEF E, F
  <2> QED
    BY <1>2, <1>4
<1> QED
  <2> HIDE DEF E
  <2> QED
    BY <1>1, <1>5

(* And what the analysis sums, over the rows of the file (kpis.py).          *)
LEMMA RowSumIsSum ==
    ASSUME NEW f \in Files, NEW S \in SUBSET (DOMAIN f.rows)
    PROVE  /\ IsFiniteSet(S)
           /\ \A i \in S : RowAmounts(f)[i] \in Int
           /\ RowSum(f, S) = SumOver(RowAmounts(f), S)
<1> DEFINE m == RowAmounts(f)
           E(it) == [s \in SUBSET S |-> IF s = {} THEN 0 ELSE it[s \ {Pick(s)}] + f.rows[Pick(s)].amount]
           F(it) == [s \in SUBSET S |-> IF s = {} THEN 0 ELSE it[s \ {Pick(s)}] + m[Pick(s)]]
<1>1. RowSum(f, S) = (CHOOSE it : it = E(it))[S]
  BY DEF RowSum, Total, FoldSet, MapThenFoldSet, Pick
<1>2. ASSUME NEW it PROVE E(it) = F(it)
  <2>1. ASSUME NEW s \in SUBSET S, s # {} PROVE f.rows[Pick(s)].amount = m[Pick(s)]
    BY <2>1, PickIsIn DEF RowAmounts
  <2> HIDE DEF m
  <2> QED
    BY <2>1
<1>3. IsFiniteSet(S)
  <2>1. IsFiniteSet(DOMAIN f.rows)
    BY RowsAreASequence, FS_Interval
  <2> QED
    BY <2>1, FS_Subset
<1>4. \A i \in S : m[i] \in Int
  BY FileAssumption DEF RowAmounts
<1>5. (\E g : g = F(g)) /\ \A g : g = F(g) => g[S] = SumOver(m, S)
  <2> HIDE DEF m
  <2> QED
    BY <1>3, <1>4, SumBackwards
<1>6. (\E g : g = E(g)) /\ \A g : g = E(g) => g[S] = SumOver(m, S)
  <2> HIDE DEF E, F
  <2> QED
    BY <1>2, <1>5
<1>7. RowSum(f, S) = SumOver(m, S)
  <2> HIDE DEF E
  <2> QED
    BY <1>1, <1>6
<1> QED
  BY <1>3, <1>4, <1>7

-----------------------------------------------------------------------------
(* The names of lines.                                                       *)

(* The rows of one product and one kind in one order.                        *)
InGroup(f, g) == {i \in DOMAIN f.rows : HasOrder(f.rows[i]) /\ GroupOf(f.rows[i]) = g}

LEMMA GroupsAreFinite ==
    ASSUME NEW f \in Files, NEW g
    PROVE  InGroup(f, g) \in SUBSET Nat /\ IsFiniteSet(InGroup(f, g)) /\ Cardinality(InGroup(f, g)) \in Nat
<1>1. DOMAIN f.rows \subseteq Nat /\ IsFiniteSet(DOMAIN f.rows)
  <2>1. Len(f.rows) \in Nat /\ DOMAIN f.rows = 1..Len(f.rows)
    BY RowsAreASequence
  <2>2. IsFiniteSet(1..Len(f.rows))
    BY <2>1, FS_Interval
  <2> QED
    BY <2>1, <2>2
<1>2. InGroup(f, g) \in SUBSET (DOMAIN f.rows)
  BY DEF InGroup
<1> QED
  BY <1>1, <1>2, FS_Subset, FS_CardinalityType

(* A row's ordinal counts the rows of its group before it.                   *)
LEMMA OrdinalIsRank ==
    ASSUME NEW f \in Files, NEW i \in DOMAIN f.rows
    PROVE  Ordinal(f, i) = Cardinality({k \in InGroup(f, GroupOf(f.rows[i])) : k < i})
<1> DEFINE g == GroupOf(f.rows[i])
           A == {j \in 1..(i - 1) : HasOrder(f.rows[j]) /\ GroupOf(f.rows[j]) = g}
           B == {k \in InGroup(f, g) : k < i}
<1>1. Len(f.rows) \in Nat /\ DOMAIN f.rows = 1..Len(f.rows) /\ i \in 1..Len(f.rows)
  BY RowsAreASequence
<1>2. \A k : k \in 1..(i - 1) <=> k \in 1..Len(f.rows) /\ k < i
  BY <1>1
<1>3. A = B
  <2> HIDE DEF g
  <2> QED
    BY <1>1, <1>2 DEF InGroup
<1>4. Ordinal(f, i) = Cardinality(A)
  BY DEF Ordinal
<1> QED
  BY <1>3, <1>4

(* No two rows of a file are one line (line_uid_for_order, line_uid).        *)
LEMMA RowsAreDistinctLines ==
    ASSUME NEW f \in Files, NEW i \in DOMAIN f.rows, NEW j \in DOMAIN f.rows, LineUid(f, i) = LineUid(f, j)
    PROVE  i = j
<1>1. CASE HasOrder(f.rows[i]) /\ HasOrder(f.rows[j])
  <2>1. LineUid(f, i)[2] = GroupOf(f.rows[i]) /\ LineUid(f, i)[3] = Ordinal(f, i)
    BY <1>1 DEF LineUid
  <2>2. LineUid(f, j)[2] = GroupOf(f.rows[j]) /\ LineUid(f, j)[3] = Ordinal(f, j)
    BY <1>1 DEF LineUid
  <2>3. GroupOf(f.rows[i]) = GroupOf(f.rows[j]) /\ Ordinal(f, i) = Ordinal(f, j)
    BY <2>1, <2>2
  <2> DEFINE R == InGroup(f, GroupOf(f.rows[i]))
  <2>4. i \in R /\ j \in R
    BY <1>1, <2>3 DEF InGroup
  <2>5. R \in SUBSET Nat /\ IsFiniteSet(R)
    BY GroupsAreFinite
  <2>6. Cardinality({k \in R : k < i}) = Cardinality({k \in R : k < j})
    BY <2>3, OrdinalIsRank
  <2> HIDE DEF R
  <2> QED
    BY <2>4, <2>5, <2>6, RanksAreInjective
<1>2. CASE ~HasOrder(f.rows[i]) /\ ~HasOrder(f.rows[j])
  <2>1. LineUid(f, i)[3] = i /\ LineUid(f, j)[3] = j
    BY <1>2 DEF LineUid
  <2> QED
    BY <2>1
<1>3. CASE HasOrder(f.rows[i]) /\ ~HasOrder(f.rows[j])
  <2>1. LineUid(f, i)[1] = "order" /\ LineUid(f, j)[1] = "row"
    BY <1>3 DEF LineUid
  <2> QED
    BY <2>1
<1>4. CASE ~HasOrder(f.rows[i]) /\ HasOrder(f.rows[j])
  <2>1. LineUid(f, i)[1] = "row" /\ LineUid(f, j)[1] = "order"
    BY <1>4 DEF LineUid
  <2> QED
    BY <2>1
<1> QED
  BY <1>1, <1>2, <1>3, <1>4

(* The lines of a group are numbered from nought, in every file.             *)
LEMMA GroupIsNumbered ==
    ASSUME NEW f \in Files, NEW g
    PROVE  {u \in Uids(f) : u[1] = "order" /\ u[2] = g} =
           {<<"order", g, k>> : k \in 0..(Cardinality(InGroup(f, g)) - 1)}
<1> DEFINE R == InGroup(f, g)
           U == {u \in Uids(f) : u[1] = "order" /\ u[2] = g}
           rank(i) == Cardinality({k \in R : k < i})
<1>1. ASSUME NEW i \in R
      PROVE  i \in DOMAIN f.rows /\ LineUid(f, i) = <<"order", g, rank(i)>>
  <2>1. i \in DOMAIN f.rows /\ HasOrder(f.rows[i]) /\ GroupOf(f.rows[i]) = g
    BY DEF InGroup
  <2>2. Ordinal(f, i) = rank(i)
    BY <2>1, OrdinalIsRank
  <2> HIDE DEF rank
  <2> QED
    BY <2>1, <2>2 DEF LineUid
<1>2. ASSUME NEW u \in U PROVE \E i \in R : u = LineUid(f, i)
  <2>1. PICK i \in DOMAIN f.rows : u = LineUid(f, i)
    BY DEF Uids
  <2>2. HasOrder(f.rows[i])
    BY <2>1 DEF LineUid
  <2>3. GroupOf(f.rows[i]) = g
    BY <2>1, <2>2 DEF LineUid
  <2> QED
    BY <2>1, <2>2, <2>3 DEF InGroup
<1>3. ASSUME NEW i \in R PROVE LineUid(f, i) \in U
  <2>1. LineUid(f, i) \in Uids(f)
    BY <1>1 DEF Uids
  <2>2. LineUid(f, i)[1] = "order" /\ LineUid(f, i)[2] = g
    <3> HIDE DEF rank
    <3> QED
      BY <1>1
  <2> QED
    BY <2>1, <2>2
<1>4. U = {<<"order", g, rank(i)>> : i \in R}
  <2> HIDE DEF R, U, rank
  <2> QED
    BY <1>1, <1>2, <1>3
<1>5. {rank(i) : i \in R} = 0..(Cardinality(R) - 1)
  <2>1. R \in SUBSET Nat /\ IsFiniteSet(R)
    BY GroupsAreFinite
  <2> HIDE DEF R
  <2> QED
    BY <2>1, RanksFillUp
<1> QED
  <2> HIDE DEF R, U, rank
  <2>1. U = {<<"order", g, k>> : k \in 0..(Cardinality(R) - 1)}
    BY <1>4, <1>5
  <2> QED
    BY <2>1 DEF R, U

(* As many names as numbers.                                                 *)
LEMMA NumberedGroup ==
    ASSUME NEW g, NEW n \in Nat
    PROVE  /\ IsFiniteSet({<<"order", g, k>> : k \in 0..(n - 1)})
           /\ Cardinality({<<"order", g, k>> : k \in 0..(n - 1)}) = n
<1> DEFINE K == 0..(n - 1)
           h == [k \in K |-> <<"order", g, k>>]
<1>1. IsFiniteSet(K) /\ Cardinality(K) = n
  <2>1. 0 \in Int /\ n - 1 \in Int
    OBVIOUS
  <2>2. IsFiniteSet(0..(n - 1)) /\ Cardinality(0..(n - 1)) = IF 0 > n - 1 THEN 0 ELSE (n - 1) - 0 + 1
    BY <2>1, FS_Interval
  <2> QED
    BY <2>2
<1>2. \A x, y \in K : h[x] = h[y] => x = y
  OBVIOUS
<1>3. {h[k] : k \in K} = {<<"order", g, k>> : k \in K}
  OBVIOUS
<1>4. IsFiniteSet({h[k] : k \in K}) /\ Cardinality({h[k] : k \in K}) = n
  <2> HIDE DEF h, K
  <2> QED
    BY <1>1, <1>2, SizeAcross
<1> QED
  BY <1>3, <1>4
-----------------------------------------------------------------------------
(* The sums of the ledger.                                                   *)

(* The order its name puts a line under.                                     *)
NamedUnder(u) == IF u[1] = "order" THEN <<u[2][1], u[2][2]>> ELSE <<>>

(* A line is under the order its name says, and belongs to a batch.          *)
LinesNamed ==
    \A u \in DOMAIN lines :
        /\ lines[u].header = NamedUnder(u)
        /\ lines[u].amount \in Int /\ lines[u].ret \in BOOLEAN
        /\ lines[u].batch \in DOMAIN batches

(* The lines are those of the files that were posted, and no others.         *)
LinesArePosted ==
    /\ \A b \in DOMAIN batches : batches[b].file \in Files
    /\ IsFiniteSet(DOMAIN lines)
    /\ DOMAIN lines = UNION {Uids(batches[b].file) : b \in Posted}

(* The inductive invariant of sums: lines without a number have no header.   *)
SumsInv ==
    /\ LinesNamed /\ LinesArePosted /\ <<>> \notin DOMAIN headers
    /\ HeadersAddUp /\ FailureIsTheFiles

(* The rows of a file are finitely many, and so are its lines.               *)
LEMMA FilesAreFinite ==
    ASSUME NEW f \in Files
    PROVE  /\ IsFiniteSet(DOMAIN f.rows) /\ Cardinality(DOMAIN f.rows) = Len(f.rows)
           /\ IsFiniteSet(Uids(f)) /\ Cardinality(Uids(f)) = Len(f.rows)
<1> DEFINE D == DOMAIN f.rows
           h == [i \in D |-> LineUid(f, i)]
<1>1. Len(f.rows) \in Nat /\ D = 1..Len(f.rows)
  BY RowsAreASequence
<1>2. IsFiniteSet(D) /\ Cardinality(D) = Len(f.rows)
  <2>1. 1 \in Int /\ Len(f.rows) \in Int
    BY <1>1
  <2>2. /\ IsFiniteSet(1..Len(f.rows))
        /\ Cardinality(1..Len(f.rows)) = IF 1 > Len(f.rows) THEN 0 ELSE Len(f.rows) - 1 + 1
    BY <2>1, FS_Interval
  <2> HIDE DEF D
  <2> QED
    BY <1>1, <2>2
<1>3. Uids(f) = {h[i] : i \in D}
  BY DEF Uids
<1>4. \A i, j \in D : h[i] = h[j] => i = j
  BY RowsAreDistinctLines
<1>5. IsFiniteSet({h[i] : i \in D}) /\ Cardinality({h[i] : i \in D}) = Cardinality(D)
  <2> HIDE DEF D, h
  <2> QED
    BY <1>2, <1>4, SizeAcross
<1> QED
  <2> HIDE DEF h
  <2> QED
    BY <1>2, <1>3, <1>5

(* Of each product in an order the ledger has as many lines as the export    *)
(* that had most of them (_overlap_with_other_uploads).                      *)
LEMMA GroupIsTheLargest ==
    ASSUME LinesArePosted, NEW g, NEW a \in Posted
    PROVE  LET held == Cardinality({u \in DOMAIN lines : u[1] = "order" /\ u[2] = g})
           IN /\ \A b \in Posted : Cardinality(InGroup(batches[b].file, g)) <= held
              /\ \E b \in Posted : Cardinality(InGroup(batches[b].file, g)) = held
<1> DEFINE H == {u \in DOMAIN lines : u[1] = "order" /\ u[2] = g}
           size(b) == Cardinality(InGroup(batches[b].file, g))
           part(b) == {<<"order", g, k>> : k \in 0..(size(b) - 1)}
<1>1. \A b \in Posted : batches[b].file \in Files /\ size(b) \in Nat
  <2>1. \A b \in Posted : batches[b].file \in Files
    BY DEF LinesArePosted, Posted
  <2> QED
    BY <2>1, GroupsAreFinite
<1>2. \A b \in Posted : part(b) = {u \in Uids(batches[b].file) : u[1] = "order" /\ u[2] = g}
  BY <1>1, GroupIsNumbered
<1>3. H = UNION {part(b) : b \in Posted}
  <2>1. DOMAIN lines = UNION {Uids(batches[b].file) : b \in Posted}
    BY DEF LinesArePosted
  <2> HIDE DEF part
  <2> QED
    BY <1>2, <2>1
<1>4. IsFiniteSet(H) /\ Cardinality(H) \in Nat
  <2>1. IsFiniteSet(DOMAIN lines) /\ H \in SUBSET (DOMAIN lines)
    BY DEF LinesArePosted
  <2> HIDE DEF H
  <2> QED
    BY <2>1, FS_Subset, FS_CardinalityType
<1>5. \A b \in Posted : IsFiniteSet(part(b)) /\ Cardinality(part(b)) = size(b)
  <2> HIDE DEF size
  <2> QED
    BY <1>1, NumberedGroup
<1>6. \A b \in Posted : size(b) <= Cardinality(H)
  <2>1. \A b \in Posted : part(b) \in SUBSET H
    <3> HIDE DEF part, H
    <3> QED
      BY <1>3
  <2>2. \A b \in Posted : Cardinality(part(b)) <= Cardinality(H)
    <3> HIDE DEF part, H
    <3> QED
      BY <1>4, <2>1, FS_Subset
  <2> HIDE DEF part, H, size
  <2> QED
    BY <1>5, <2>2
<1>7. PICK b \in Posted : \A d \in Posted : size(d) <= size(b)
  <2> DEFINE N == {size(d) : d \in Posted}
  <2>1. N \in SUBSET Nat /\ N # {} /\ \A n \in N : n <= Cardinality(H)
    <3> HIDE DEF size, H
    <3> QED
      BY <1>1, <1>6
  <2>2. \E n \in N : \A m \in N : m <= n
    <3> HIDE DEF N, H
    <3> QED
      BY <1>4, <2>1, GreatestExists
  <2> HIDE DEF size
  <2> QED
    BY <2>2
<1>8. H = part(b)
  <2>1. \A d \in Posted : part(d) \subseteq part(b)
    <3> HIDE DEF size
    <3> QED
      BY <1>1, <1>7
  <2> HIDE DEF part, H
  <2> QED
    BY <1>3, <2>1
<1>9. size(b) = Cardinality(H)
  <2> HIDE DEF part, H, size
  <2> QED
    BY <1>5, <1>8
<1> QED
  <2> HIDE DEF part
  <2> QED
    BY <1>6, <1>9

LEMMA SharedLinesCountOnce == LinesArePosted => OverlapCountedOnce
<1> SUFFICES ASSUME LinesArePosted PROVE OverlapCountedOnce
  OBVIOUS
<1> DEFINE rowsOf(b, g) == {i \in DOMAIN batches[b].file.rows :
                              /\ HasOrder(batches[b].file.rows[i])
                              /\ GroupOf(batches[b].file.rows[i]) = g}
           ordered(b) == {i \in DOMAIN batches[b].file.rows : HasOrder(batches[b].file.rows[i])}
           groups == UNION {{GroupOf(batches[b].file.rows[i]) : i \in ordered(b)} : b \in Posted}
           held(g) == Cardinality({u \in DOMAIN lines : u[1] = "order" /\ u[2] = g})
<1>1. ASSUME NEW g \in groups
      PROVE  /\ \A b \in Posted : Cardinality(rowsOf(b, g)) <= held(g)
             /\ \E b \in Posted : Cardinality(rowsOf(b, g)) = held(g)
  <2>1. PICK a \in Posted : TRUE
    OBVIOUS
  <2>2. \A b \in Posted : rowsOf(b, g) = InGroup(batches[b].file, g)
    BY DEF InGroup
  <2> HIDE DEF rowsOf, groups
  <2> QED
    BY <2>1, <2>2, GroupIsTheLargest
<1> QED
  BY <1>1 DEF OverlapCountedOnce

(* What an import leaves: every row in a line of its own, every other line    *)
(* as it was (write_import).                                                 *)
LEMMA WrittenLines ==
    ASSUME BatchesInOrder, NEW f \in Files, PostedImport(f)
    PROVE  LET n == Len(batches) + 1
               customerOf == Resolve(directory, f.rows).customerOf
           IN /\ n \in Nat /\ DOMAIN batches = 1..Len(batches) /\ n \notin DOMAIN batches
              /\ DOMAIN batches' = 1..n
              /\ \A b \in DOMAIN batches : batches'[b] = batches[b]
              /\ batches'[n].file = f
              /\ batches'[n].status = Verdict(Checks(f, n, lines', Overlap(f)))
              /\ DOMAIN lines' = DOMAIN lines \cup Uids(f)
              /\ \A i \in DOMAIN f.rows : lines'[LineUid(f, i)] = LineOf(f.rows[i], n, customerOf)
              /\ \A u \in DOMAIN lines \ Uids(f) : lines'[u] = lines[u]
              /\ headers' = Upsert(headers, NewHeaders(f, n, customerOf, lines'))
<1> DEFINE n == Len(batches) + 1
           found == Resolve(directory, f.rows)
           pay == Payload(f, n, found.customerOf)
           status == Verdict(Checks(f, n, lines', Overlap(f)))
           updated == Cardinality(Uids(f) \cap DOMAIN lines)
           b == Batch(f, status, Cardinality(Uids(f)) - updated, updated, Overlap(f), found.candidates)
<1>1. /\ lines' = Upsert(lines, pay)
      /\ headers' = Upsert(headers, NewHeaders(f, n, found.customerOf, Upsert(lines, pay)))
      /\ batches' = Append(batches, Batch(f, Verdict(Checks(f, n, Upsert(lines, pay), Overlap(f))),
                                          Cardinality(Uids(f)) - updated, updated, Overlap(f), found.candidates))
  BY DEF PostedImport
<1>2. headers' = Upsert(headers, NewHeaders(f, n, found.customerOf, lines')) /\ batches' = Append(batches, b)
  <2> HIDE DEF pay, found, updated
  <2> QED
    BY <1>1
<1>3. b.file = f /\ b.status = status
  <2> HIDE DEF status, updated, found
  <2> QED
    BY DEF Batch
<1> HIDE DEF b, status, updated
<1>4. /\ Len(batches) \in Nat /\ DOMAIN batches = 1..Len(batches)
      /\ DOMAIN batches' = 1..(Len(batches) + 1)
      /\ batches'[Len(batches) + 1] = b
      /\ \A i \in DOMAIN batches : batches'[i] = batches[i]
  BY <1>2, OneBatchMore
<1>5. DOMAIN pay = Uids(f)
  BY DEF Payload
<1>6. lines' = [k \in DOMAIN lines \cup Uids(f) |-> IF k \in Uids(f) THEN pay[k] ELSE lines[k]]
  <2> HIDE DEF pay
  <2> QED
    BY <1>1, <1>5 DEF Upsert
<1>7. ASSUME NEW i \in DOMAIN f.rows
      PROVE  LineUid(f, i) \in Uids(f) /\ pay[LineUid(f, i)] = LineOf(f.rows[i], n, found.customerOf)
  <2> DEFINE j == CHOOSE k \in DOMAIN f.rows : LineUid(f, k) = LineUid(f, i)
  <2>1. LineUid(f, i) \in Uids(f)
    BY DEF Uids
  <2>2. j \in DOMAIN f.rows /\ LineUid(f, j) = LineUid(f, i)
    OBVIOUS
  <2>3. j = i
    <3> HIDE DEF j
    <3> QED
      BY <2>2, RowsAreDistinctLines
  <2>4. pay[LineUid(f, i)] = LineOf(f.rows[j], n, found.customerOf)
    <3> HIDE DEF found, n
    <3> QED
      BY <2>1 DEF Payload, LineOf
  <2> QED
    BY <2>1, <2>3, <2>4
<1>8. \A i \in DOMAIN f.rows : lines'[LineUid(f, i)] = LineOf(f.rows[i], n, found.customerOf)
  <2> HIDE DEF pay, found, n
  <2> QED
    BY <1>6, <1>7
<1>9. DOMAIN lines' = DOMAIN lines \cup Uids(f) /\ \A u \in DOMAIN lines \ Uids(f) : lines'[u] = lines[u]
  <2> HIDE DEF pay
  <2> QED
    BY <1>6
<1> HIDE DEF pay, found
<1>10. batches'[n].file = f /\ batches'[n].status = Verdict(Checks(f, n, lines', Overlap(f)))
  BY <1>3, <1>4 DEF status
<1>11. n \in Nat /\ n \notin DOMAIN batches
  BY <1>4
<1> QED
  BY <1>2, <1>4, <1>8, <1>9, <1>10, <1>11 DEF found

(* A batch as its import wrote it.                                           *)
WrittenBy(f, all, n, customerOf) ==
    /\ {u \in DOMAIN all : all[u].batch = n} = Uids(f)
    /\ \A i \in DOMAIN f.rows : all[LineUid(f, i)] = LineOf(f.rows[i], n, customerOf)

LEMMA WrittenLine ==
    ASSUME NEW f, NEW all, NEW n, NEW customerOf, WrittenBy(f, all, n, customerOf),
           NEW i \in DOMAIN f.rows
    PROVE  LET r == f.rows[i]
               line == all[LineUid(f, i)]
           IN /\ LineUid(f, i) \in Uids(f) /\ LineUid(f, i) \in DOMAIN all
              /\ line.ret = r.ret /\ line.amount = r.amount /\ line.product = r.product
              /\ line.customer = IF r.raw = Unknown THEN Nobody ELSE customerOf[r.raw]
<1> DEFINE line == all[LineUid(f, i)]
<1>1. line = LineOf(f.rows[i], n, customerOf)
  BY DEF WrittenBy
<1>2. LineUid(f, i) \in Uids(f)
  BY DEF Uids
<1>3. LineUid(f, i) \in DOMAIN all
  <2>1. Uids(f) \subseteq DOMAIN all
    BY DEF WrittenBy
  <2> QED
    BY <1>2, <2>1
<1> HIDE DEF line
<1> QED
  BY <1>1, <1>2, <1>3 DEF LineOf, line

(* Some rows of a file, and their lines, are as many and sum up to the same. *)
LEMMA RowsAndTheirLines ==
    ASSUME NEW f \in Files, NEW all, NEW n, NEW customerOf, WrittenBy(f, all, n, customerOf),
           NEW T \in SUBSET (DOMAIN f.rows)
    PROVE  LET L == {LineUid(f, i) : i \in T}
           IN /\ Cardinality(L) = Cardinality(T)
              /\ SumOver(Amounts(all), L) = RowSum(f, T)
<1> DEFINE h == [i \in DOMAIN f.rows |-> LineUid(f, i)]
           L == {LineUid(f, i) : i \in T}
<1>1. L = {h[i] : i \in T}
  OBVIOUS
<1>2. \A i, j \in T : h[i] = h[j] => i = j
  BY RowsAreDistinctLines
<1>3. /\ IsFiniteSet(T) /\ \A i \in T : RowAmounts(f)[i] \in Int
      /\ RowSum(f, T) = SumOver(RowAmounts(f), T)
  BY RowSumIsSum
<1>4. \A i \in T : Amounts(all)[h[i]] = RowAmounts(f)[i]
  <2> SUFFICES ASSUME NEW i \in T PROVE Amounts(all)[h[i]] = RowAmounts(f)[i]
    OBVIOUS
  <2>1. i \in DOMAIN f.rows /\ h[i] = LineUid(f, i) /\ LineUid(f, i) \in Uids(f)
    BY DEF Uids
  <2>2. LineUid(f, i) \in DOMAIN all /\ all[LineUid(f, i)].amount = f.rows[i].amount
    BY <2>1, WrittenLine
  <2> HIDE DEF h
  <2> QED
    BY <2>1, <2>2 DEF Amounts, RowAmounts
<1> HIDE DEF h
<1>5. Cardinality({h[i] : i \in T}) = Cardinality(T)
  BY <1>2, <1>3, SizeAcross
<1>6. SumOver(Amounts(all), {h[i] : i \in T}) = SumOver(RowAmounts(f), T)
  BY <1>2, <1>3, <1>4, SumAcross
<1> QED
  BY <1>1, <1>3, <1>5, <1>6

(* L01, L02, L03 and L05: rows, sales, returns and the lines of returns.     *)
LEMMA MoneyReconciles ==
    ASSUME NEW f \in Files, NEW all, NEW n, NEW customerOf, WrittenBy(f, all, n, customerOf), NEW overlap
    PROVE  LET c == Checks(f, n, all, overlap)
           IN c.L01 = "OK" /\ c.L02 = "OK" /\ c.L03 = "OK" /\ c.L05 = "OK"
<1> DEFINE D == DOMAIN f.rows
           rets == {i \in D : f.rows[i].ret}
           W == {u \in DOMAIN all : all[u].batch = n}
           lineOf(T) == {LineUid(f, i) : i \in T}
<1>1. W = Uids(f) /\ Uids(f) = lineOf(D)
  BY DEF WrittenBy, Uids
<1>2. \A i \in D : /\ all[LineUid(f, i)].ret = f.rows[i].ret
                   /\ all[LineUid(f, i)].amount = f.rows[i].amount
                   /\ f.rows[i].ret \in BOOLEAN /\ f.rows[i].amount \in Int
  <2>1. \A i \in D : f.rows[i].ret \in BOOLEAN /\ f.rows[i].amount \in Int
    BY FileAssumption
  <2>2. \A i \in D : all[LineUid(f, i)].ret = f.rows[i].ret /\ all[LineUid(f, i)].amount = f.rows[i].amount
    BY WrittenLine
  <2> QED
    BY <2>1, <2>2
<1>3. SoldIn(all, W) = lineOf(D \ rets) /\ ReturnedIn(all, W) = lineOf(rets)
  <2> HIDE DEF W
  <2> QED
    BY <1>1, <1>2 DEF SoldIn, ReturnedIn
<1>4. IsFiniteSet(W) /\ Cardinality(W) = Len(f.rows) /\ \A u \in W : all[u].amount \in Int
  <2>1. IsFiniteSet(Uids(f)) /\ Cardinality(Uids(f)) = Len(f.rows)
    BY FilesAreFinite
  <2> HIDE DEF W
  <2> QED
    BY <1>1, <1>2, <2>1
<1>5. W \in SUBSET (DOMAIN all)
  OBVIOUS
<1>6. Sales(all, W) = SumOver(Amounts(all), lineOf(D \ rets))
  <2> HIDE DEF W, D, rets, lineOf
  <2> QED
    BY <1>3, <1>4, <1>5, SalesAreSums
<1>7. Returns(all, W) = -SumOver(Amounts(all), lineOf(rets))
  <2> HIDE DEF W, D, rets, lineOf
  <2> QED
    BY <1>3, <1>4, <1>5, ReturnsAreSums
<1>8. /\ Cardinality(lineOf(rets)) = Cardinality(rets)
      /\ SumOver(Amounts(all), lineOf(rets)) = RowSum(f, rets)
      /\ SumOver(Amounts(all), lineOf(D \ rets)) = RowSum(f, D \ rets)
  <2>1. rets \in SUBSET D /\ D \ rets \in SUBSET D
    OBVIOUS
  <2> HIDE DEF rets
  <2> QED
    BY <2>1, RowsAndTheirLines
<1>9. {u \in W : all[u].ret} = lineOf(rets)
  BY <1>3 DEF ReturnedIn
<1>10. /\ Checks(f, n, all, overlap).L01 = Equal(Len(f.rows), Cardinality(W))
       /\ Checks(f, n, all, overlap).L02 = Equal(RowSum(f, D \ rets), Sales(all, W))
       /\ Checks(f, n, all, overlap).L03 = Equal(-RowSum(f, rets), Returns(all, W))
       /\ Checks(f, n, all, overlap).L05 = Equal(Cardinality(rets), Cardinality({u \in W : all[u].ret}))
  BY DEF Checks
<1> HIDE DEF W, D, rets, lineOf
<1> QED
  BY <1>4, <1>6, <1>7, <1>8, <1>9, <1>10 DEF Equal

(* L06 and L10: people and products merge, they do not multiply, where nobody  *)
(* comes only to bring something back.                                        *)
LEMMA NamesAreFinite ==
    ASSUME NEW f \in Files, NEW field
    PROVE  IsFiniteSet(Names(f, field)) /\ Cardinality(Names(f, field)) \in Nat
<1> DEFINE D == DOMAIN f.rows
           h == [i \in D |-> f.rows[i][field]]
<1>1. IsFiniteSet(D)
  BY FilesAreFinite
<1>2. IsFiniteSet({h[i] : i \in D})
  <2> HIDE DEF D, h
  <2> QED
    BY <1>1, SizeAcross
<1>3. Names(f, field) \in SUBSET {h[i] : i \in D}
  BY DEF Names
<1> HIDE DEF D, h
<1> QED
  BY <1>2, <1>3, FS_Subset, FS_CardinalityType

LEMMA PeopleReconcile ==
    ASSUME NEW f \in Files, NEW all, NEW n, NEW customerOf, WrittenBy(f, all, n, customerOf), NEW overlap,
           Names(f, "raw") = Buyers(f)
    PROVE  Checks(f, n, all, overlap).L06 = "OK" /\ Checks(f, n, all, overlap).L10 # "MISMATCH"
<1> DEFINE W == {u \in DOMAIN all : all[u].batch = n}
           customers == {all[u].customer : u \in W} \ {Nobody}
           made == {all[u].product : u \in W} \ {Unknown}
           raws == Names(f, "raw")
           called == Names(f, "product")
<1>1. ASSUME NEW u \in W
      PROVE  \E i \in DOMAIN f.rows :
                /\ all[u].product = f.rows[i].product
                /\ all[u].customer = IF f.rows[i].raw = Unknown THEN Nobody ELSE customerOf[f.rows[i].raw]
  <2>1. u \in Uids(f)
    BY DEF WrittenBy
  <2>2. PICK i \in DOMAIN f.rows : u = LineUid(f, i)
    BY <2>1 DEF Uids
  <2> HIDE DEF W
  <2> QED
    BY <2>2, WrittenLine
<1>2. customers \in SUBSET {customerOf[r] : r \in raws}
  <2> HIDE DEF W
  <2> QED
    BY <1>1 DEF Names
<1>3. made \in SUBSET called
  <2> HIDE DEF W
  <2> QED
    BY <1>1 DEF Names
<1>4. /\ IsFiniteSet(raws) /\ Cardinality(raws) \in Nat
      /\ IsFiniteSet(called) /\ Cardinality(called) \in Nat
  BY NamesAreFinite
<1>5. /\ Checks(f, n, all, overlap).L06 = CustomerCheck(Cardinality(raws), Cardinality(customers))
      /\ Checks(f, n, all, overlap).L10 = ProductCheck(Cardinality(called), Cardinality(made),
                                              Cardinality({u \in W : all[u].product = Unknown}))
  <2>1. Buyers(f) = raws
    OBVIOUS
  <2> QED
    BY <2>1 DEF Checks
<1> HIDE DEF W, customers, made, raws, called
<1>6. IsFiniteSet(made) /\ Cardinality(made) <= Cardinality(called) /\ Cardinality(made) \in Nat
  BY <1>3, <1>4, FS_Subset, FS_CardinalityType
<1>7. Cardinality(customers) <= Cardinality(raws) /\ Cardinality(customers) \in Nat
  <2> DEFINE P == {customerOf[r] : r \in raws}
  <2>1. IsFiniteSet(P) /\ Cardinality(P) <= Cardinality(raws) /\ Cardinality(P) \in Nat
    BY <1>4, SizeAcross
  <2> HIDE DEF P
  <2>2. customers \in SUBSET P
    BY <1>2 DEF P
  <2>3. IsFiniteSet(customers) /\ Cardinality(customers) <= Cardinality(P)
    BY <2>1, <2>2, FS_Subset
  <2>4. Cardinality(customers) \in Nat
    BY <2>3, FS_CardinalityType
  <2> QED
    BY <1>4, <2>1, <2>3, <2>4
<1>8. CustomerCheck(Cardinality(raws), Cardinality(customers)) = "OK"
  BY <1>4, <1>7 DEF CustomerCheck
<1>9. \A w : ProductCheck(Cardinality(called), Cardinality(made), w) # "MISMATCH"
  BY <1>4, <1>6 DEF ProductCheck
<1> QED
  BY <1>5, <1>8, <1>9

(* L09: where a number is spelt in one way, counting spellings is counting    *)
(* numbers.                                                                  *)
LEMMA OrdersReconcile ==
    ASSUME NEW f \in Files, SpeltOnce(f)
    PROVE  KpiOrders(f) = LedgerOrders(f)
<1> DEFINE O == {i \in DOMAIN f.rows : HasOrder(f.rows[i])}
           spelt(i) == <<f.rows[i].order, f.rows[i].spelling>>
           alike(o) == {i \in O : f.rows[i].order = o}
           same(o) == {i \in O : spelt(i) = o}
           K == {o \in {spelt(i) : i \in O} : RowSum(f, same(o)) > 0}
           L == {o \in {f.rows[i].order : i \in O} : RowSum(f, alike(o)) > 0}
           h == [o \in K |-> o[1]]
<1>1. KpiOrders(f) = Cardinality(K)
  BY DEF KpiOrders
<1>2. LedgerOrders(f) = Cardinality(L)
  BY DEF LedgerOrders, NormalOrder
<1>3. \A i, j \in O : f.rows[i].order = f.rows[j].order => f.rows[i].spelling = f.rows[j].spelling
  BY DEF SpeltOnce
<1>4. ASSUME NEW i \in O
      PROVE  same(spelt(i)) = alike(f.rows[i].order) /\ spelt(i)[1] = f.rows[i].order
  <2>1. \A j \in O : spelt(j) = spelt(i) <=> f.rows[j].order = f.rows[i].order
    <3> HIDE DEF O
    <3> QED
      BY <1>3
  <2> HIDE DEF O
  <2> QED
    BY <2>1
<1>5. \A x, y \in K : h[x] = h[y] => x = y
  <2> SUFFICES ASSUME NEW x \in K, NEW y \in K, x[1] = y[1] PROVE x = y
    OBVIOUS
  <2>1. PICK i \in O : x = spelt(i)
    OBVIOUS
  <2>2. PICK j \in O : y = spelt(j)
    OBVIOUS
  <2>3. f.rows[i].order = f.rows[j].order
    BY <2>1, <2>2
  <2>4. f.rows[i].spelling = f.rows[j].spelling
    <3> HIDE DEF O
    <3> QED
      BY <1>3, <2>3
  <2> QED
    BY <2>1, <2>2, <2>3, <2>4
<1>6. {h[x] : x \in K} = L
  <2>1. ASSUME NEW x \in K PROVE h[x] \in L
    <3>1. PICK i \in O : x = spelt(i) /\ RowSum(f, same(spelt(i))) > 0
      OBVIOUS
    <3>2. h[x] = f.rows[i].order /\ RowSum(f, alike(f.rows[i].order)) > 0
      BY <1>4, <3>1
    <3> QED
      BY <3>2
  <2>2. ASSUME NEW o \in L PROVE \E x \in K : h[x] = o
    <3>1. PICK i \in O : o = f.rows[i].order /\ RowSum(f, alike(f.rows[i].order)) > 0
      OBVIOUS
    <3>2. RowSum(f, same(spelt(i))) > 0
      BY <1>4, <3>1
    <3>3. spelt(i) \in K
      BY <3>2
    <3>4. h[spelt(i)] = o
      BY <3>1, <3>3
    <3> QED
      BY <3>3, <3>4
  <2> HIDE DEF h, K, L
  <2> QED
    BY <2>1, <2>2
<1>7. IsFiniteSet(K)
  <2> DEFINE g == [i \in O |-> spelt(i)]
  <2>1. IsFiniteSet(O)
    BY FilesAreFinite, FS_Subset
  <2>2. IsFiniteSet({g[i] : i \in O})
    <3> HIDE DEF O, g
    <3> QED
      BY <2>1, SizeAcross
  <2>3. K \in SUBSET {g[i] : i \in O}
    OBVIOUS
  <2> HIDE DEF K, g, O
  <2> QED
    BY <2>2, <2>3, FS_Subset
<1>8. Cardinality({h[x] : x \in K}) = Cardinality(K)
  <2> HIDE DEF K, h
  <2> QED
    BY <1>5, <1>7, SizeAcross
<1> QED
  <2> HIDE DEF K, L, h
  <2> QED
    BY <1>1, <1>2, <1>6, <1>8

(* An import reconciles, unless its file spells a number in two ways or has a  *)
(* return of somebody who buys nothing in it (_reconcile).                    *)
LEMMA ImportReconciles ==
    ASSUME NEW f \in Files, NEW all, NEW n, NEW customerOf, WrittenBy(f, all, n, customerOf), NEW overlap,
           SpeltOnce(f), Names(f, "raw") = Buyers(f)
    PROVE  Verdict(Checks(f, n, all, overlap)) # "MISMATCH"
<1> DEFINE c == Checks(f, n, all, overlap)
<1>1. DOMAIN c = {"L01", "L02", "L03", "L05", "L06", "L09", "L10"}
  BY DEF Checks
<1>2. c.L09 = IF f.hasOrder THEN Equal(KpiOrders(f), LedgerOrders(f)) ELSE "WARN"
  BY DEF Checks
<1>3. c.L09 # "MISMATCH"
  BY <1>2, OrdersReconcile DEF Equal
<1>4. c.L01 = "OK" /\ c.L02 = "OK" /\ c.L03 = "OK" /\ c.L05 = "OK"
  BY MoneyReconciles
<1>5. c.L06 = "OK" /\ c.L10 # "MISMATCH"
  BY PeopleReconcile
<1> HIDE DEF c
<1>6. ~\E k \in DOMAIN c : c[k] = "MISMATCH"
  BY <1>1, <1>3, <1>4, <1>5
<1> QED
  BY <1>6 DEF Verdict, c

(* What an order sold less what it took back is the sum of its lines.        *)
LEMMA NetIsTheSum ==
    ASSUME NEW all, NEW S \in SUBSET (DOMAIN all), IsFiniteSet(S),
           \A u \in S : all[u].amount \in Int /\ all[u].ret \in BOOLEAN
    PROVE  Sales(all, S) - Returns(all, S) = SumOver(Amounts(all), S)
<1> DEFINE A == SoldIn(all, S)
           B == ReturnedIn(all, S)
           f == Amounts(all)
<1>1. A \in SUBSET S /\ B \in SUBSET S /\ A \cap B = {} /\ A \cup B = S
  BY DEF SoldIn, ReturnedIn
<1>2. \A u \in S : f[u] \in Int
  BY DEF Amounts
<1>3. Sales(all, S) = SumOver(f, A) /\ Returns(all, S) = -SumOver(f, B)
  BY SalesAreSums, ReturnsAreSums
<1> HIDE DEF A, B, f
<1>4. IsFiniteSet(A) /\ IsFiniteSet(B)
  BY <1>1, FS_Subset
<1>5. \A u \in A \cup B : f[u] \in Int
  BY <1>1, <1>2
<1>6. SumOver(f, A \cup B) = SumOver(f, A) + SumOver(f, B)
  BY <1>1, <1>4, <1>5, SumUnion
<1>7. SumOver(f, A) \in Int /\ SumOver(f, B) \in Int
  BY <1>4, <1>5, SumIsInt
<1>8. SumOver(f, S) = SumOver(f, A) + SumOver(f, B)
  BY <1>1, <1>6
<1> QED
  BY <1>3, <1>7, <1>8 DEF f

(* A header of the lines under it.                                           *)
SumsUp(header, all, S) ==
    /\ S # {}
    /\ header.count = Cardinality(S)
    /\ header.gross - header.returns = SumOver(Amounts(all), S)

HeadersSumUp ==
    \A h \in DOMAIN headers : SumsUp(headers[h], lines, {u \in DOMAIN lines : lines[u].header = h})

LEMMA AddingUpIsSumming == LinesNamed /\ LinesArePosted => (HeadersAddUp <=> HeadersSumUp)
<1> SUFFICES ASSUME LinesNamed, LinesArePosted PROVE HeadersAddUp <=> HeadersSumUp
  OBVIOUS
<1> DEFINE S(h) == {u \in DOMAIN lines : lines[u].header = h}
<1>1. ASSUME NEW h PROVE Total(S(h), LAMBDA u : lines[u].amount) = SumOver(Amounts(lines), S(h))
  <2>1. S(h) \in SUBSET (DOMAIN lines) /\ IsFiniteSet(S(h)) /\ \A u \in S(h) : lines[u].amount \in Int
    BY FS_Subset DEF LinesNamed, LinesArePosted
  <2> HIDE DEF S
  <2> QED
    BY <2>1, LineTotalIsSum
<1> QED
  BY <1>1 DEF HeadersAddUp, HeadersSumUp, SumsUp

LEMMA AddingUpStaysSumming == LinesNamed' /\ LinesArePosted' => (HeadersAddUp' <=> HeadersSumUp')
  BY AddingUpIsSumming, PTL

(* A row's line is under the row's order, and only such a line.              *)
LEMMA LinesOfAFile ==
    ASSUME NEW f \in Files
    PROVE  /\ \A i \in DOMAIN f.rows :
                NamedUnder(LineUid(f, i)) = IF HasOrder(f.rows[i]) THEN HeaderOf(f.rows[i]) ELSE <<>>
           /\ \A u \in Uids(f) : NamedUnder(u) \in HeadersIn(f) \cup {<<>>}
           /\ <<>> \notin HeadersIn(f)
           /\ \A h \in HeadersIn(f) : \E i \in DOMAIN f.rows :
                LineUid(f, i) \in Uids(f) /\ NamedUnder(LineUid(f, i)) = h
<1>1. ASSUME NEW i \in DOMAIN f.rows
      PROVE  NamedUnder(LineUid(f, i)) = IF HasOrder(f.rows[i]) THEN HeaderOf(f.rows[i]) ELSE <<>>
  BY DEF NamedUnder, LineUid, GroupOf, HeaderOf
<1>2. \A u \in Uids(f) : NamedUnder(u) \in HeadersIn(f) \cup {<<>>}
  BY <1>1 DEF Uids, HeadersIn
<1>3. <<>> \notin HeadersIn(f)
  BY DEF HeadersIn, HeaderOf
<1>4. \A h \in HeadersIn(f) : \E i \in DOMAIN f.rows :
        LineUid(f, i) \in Uids(f) /\ NamedUnder(LineUid(f, i)) = h
  BY <1>1 DEF Uids, HeadersIn
<1> QED
  BY <1>1, <1>2, <1>3, <1>4

(* An import writes the headers of its orders anew, over all of their lines,  *)
(* and leaves the lines of the others alone (_recompute_order_headers).       *)
LEMMA PostedKeepsSums ==
    ASSUME BatchesInOrder, SumsInv, NEW f \in Files, PostedImport(f)
    PROVE  SumsInv'
<1> DEFINE n == Len(batches) + 1
           customerOf == Resolve(directory, f.rows).customerOf
           under(h) == {u \in DOMAIN lines : lines[u].header = h}
           underNow(h) == {u \in DOMAIN lines' : lines'[u].header = h}
<1>1. /\ n \in Nat /\ DOMAIN batches = 1..Len(batches) /\ n \notin DOMAIN batches
      /\ DOMAIN batches' = 1..n
      /\ \A b \in DOMAIN batches : batches'[b] = batches[b]
      /\ batches'[n].file = f
      /\ batches'[n].status = Verdict(Checks(f, n, lines', Overlap(f)))
      /\ DOMAIN lines' = DOMAIN lines \cup Uids(f)
      /\ \A i \in DOMAIN f.rows : lines'[LineUid(f, i)] = LineOf(f.rows[i], n, customerOf)
      /\ \A u \in DOMAIN lines \ Uids(f) : lines'[u] = lines[u]
      /\ headers' = Upsert(headers, NewHeaders(f, n, customerOf, lines'))
  BY WrittenLines
<1> HIDE DEF customerOf
<1>2. n \in 1..n /\ DOMAIN batches \subseteq 1..n /\ DOMAIN batches' = DOMAIN batches \cup {n}
  <2>1. Len(batches) \in Nat
    BY OneBatchMore DEF PostedImport
  <2> QED
    BY <1>1, <2>1
<1> HIDE DEF n
<1>3. ASSUME NEW i \in DOMAIN f.rows
      PROVE  LET line == lines'[LineUid(f, i)]
             IN /\ line.header = NamedUnder(LineUid(f, i))
                /\ line.amount \in Int /\ line.ret \in BOOLEAN /\ line.batch = n
  <2>1. f.rows[i].amount \in Int /\ f.rows[i].ret \in BOOLEAN
    BY FileAssumption
  <2>2. lines'[LineUid(f, i)] = LineOf(f.rows[i], n, customerOf)
    BY <1>1
  <2>3. NamedUnder(LineUid(f, i)) = IF HasOrder(f.rows[i]) THEN HeaderOf(f.rows[i]) ELSE <<>>
    BY LinesOfAFile
  <2> QED
    BY <2>1, <2>2, <2>3 DEF LineOf
<1>4. ASSUME NEW u \in Uids(f)
      PROVE  /\ lines'[u].header = NamedUnder(u)
             /\ lines'[u].amount \in Int /\ lines'[u].ret \in BOOLEAN /\ lines'[u].batch = n
  <2>1. PICK i \in DOMAIN f.rows : u = LineUid(f, i)
    BY DEF Uids
  <2> QED
    BY <1>3, <2>1
<1>5. LinesNamed'
  <2>1. ASSUME NEW u \in DOMAIN lines'
        PROVE  /\ lines'[u].header = NamedUnder(u)
               /\ lines'[u].amount \in Int /\ lines'[u].ret \in BOOLEAN
               /\ lines'[u].batch \in DOMAIN batches'
    <3>1. CASE u \in Uids(f)
      BY <3>1, <1>2, <1>4
    <3>2. CASE u \notin Uids(f)
      <4>1. u \in DOMAIN lines /\ lines'[u] = lines[u]
        BY <3>2, <1>1
      <4> QED
        BY <4>1, <1>2 DEF SumsInv, LinesNamed
    <3> QED
      BY <3>1, <3>2
  <2> QED
    BY <2>1 DEF LinesNamed
<1>6. Posted' = Posted \cup {n}
  <2>1. batches'[n].status # "BLOCKED"
    BY <1>1 DEF Verdict
  <2> QED
    BY <1>1, <1>2, <2>1 DEF Posted
<1>7. LinesArePosted'
  <2>1. \A b \in DOMAIN batches' : batches'[b].file \in Files
    BY <1>1, <1>2 DEF SumsInv, LinesArePosted
  <2>2. IsFiniteSet(DOMAIN lines')
    <3>1. IsFiniteSet(DOMAIN lines) /\ IsFiniteSet(Uids(f))
      BY FilesAreFinite DEF SumsInv, LinesArePosted
    <3>2. IsFiniteSet(DOMAIN lines \cup Uids(f))
      BY <3>1, FS_Union
    <3> QED
      BY <1>1, <3>2
  <2>3. DOMAIN lines = UNION {Uids(batches[b].file) : b \in Posted}
    BY DEF SumsInv, LinesArePosted
  <2>4. \A b \in Posted : batches'[b].file = batches[b].file
    BY <1>1 DEF Posted
  <2>5. UNION {Uids(batches'[b].file) : b \in Posted'}
            = (UNION {Uids(batches[b].file) : b \in Posted}) \cup Uids(f)
    BY <1>1, <1>6, <2>4
  <2> QED
    BY <1>1, <2>1, <2>2, <2>3, <2>5 DEF LinesArePosted
<1>8. FailureIsTheFiles'
  <2>1. WrittenBy(f, lines', n, customerOf)
    <3>1. \A u \in DOMAIN lines \ Uids(f) : lines'[u].batch # n
      BY <1>1 DEF SumsInv, LinesNamed
    <3> QED
      BY <1>1, <1>4, <3>1 DEF WrittenBy
  <2>2. batches'[n].status = "MISMATCH" => ~SpeltOnce(f) \/ Names(f, "raw") # Buyers(f)
    <3>1. ASSUME SpeltOnce(f), Names(f, "raw") = Buyers(f)
          PROVE Verdict(Checks(f, n, lines', Overlap(f))) # "MISMATCH"
      BY <2>1, <3>1, ImportReconciles
    <3> QED
      BY <1>1, <3>1
  <2> QED
    BY <1>1, <1>2, <2>2 DEF SumsInv, FailureIsTheFiles
<1>9. /\ DOMAIN headers' = DOMAIN headers \cup HeadersIn(f)
      /\ \A h \in HeadersIn(f) :
            /\ headers'[h].gross = Sales(lines', underNow(h))
            /\ headers'[h].returns = Returns(lines', underNow(h))
            /\ headers'[h].count = Cardinality(underNow(h))
      /\ \A h \in DOMAIN headers \ HeadersIn(f) : headers'[h] = headers[h]
  <2> DEFINE new == NewHeaders(f, n, customerOf, lines')
  <2>1. DOMAIN new = HeadersIn(f)
    BY DEF NewHeaders
  <2>2. \A h \in HeadersIn(f) : /\ new[h].gross = Sales(lines', underNow(h))
                                /\ new[h].returns = Returns(lines', underNow(h))
                                /\ new[h].count = Cardinality(underNow(h))
    BY DEF NewHeaders, LinesUnder
  <2> HIDE DEF new, underNow
  <2>3. headers' = [h \in DOMAIN headers \cup HeadersIn(f) |->
                        IF h \in HeadersIn(f) THEN new[h] ELSE headers[h]]
    BY <1>1, <2>1 DEF Upsert, new
  <2> QED
    BY <2>2, <2>3
<1>10. <<>> \notin DOMAIN headers'
  BY <1>9, LinesOfAFile DEF SumsInv
<1>11. IsFiniteSet(DOMAIN lines) /\ IsFiniteSet(DOMAIN lines')
  BY <1>7 DEF SumsInv, LinesArePosted
<1>12. ASSUME NEW h \in DOMAIN headers' PROVE SumsUp(headers'[h], lines', underNow(h))
  <2>1. /\ underNow(h) \in SUBSET (DOMAIN lines') /\ IsFiniteSet(underNow(h))
        /\ \A u \in underNow(h) : lines'[u].amount \in Int /\ lines'[u].ret \in BOOLEAN
    BY <1>5, <1>11, FS_Subset DEF LinesNamed
  <2>2. CASE h \in HeadersIn(f)
    <3>1. underNow(h) # {}
      <4>1. PICK i \in DOMAIN f.rows : LineUid(f, i) \in Uids(f) /\ NamedUnder(LineUid(f, i)) = h
        BY <2>2, LinesOfAFile
      <4>2. LineUid(f, i) \in DOMAIN lines' /\ lines'[LineUid(f, i)].header = h
        BY <1>1, <1>4, <4>1
      <4> QED
        BY <4>2
    <3>2. Sales(lines', underNow(h)) - Returns(lines', underNow(h)) = SumOver(Amounts(lines'), underNow(h))
      <4> HIDE DEF underNow
      <4> QED
        BY <2>1, NetIsTheSum
    <3> HIDE DEF underNow
    <3> QED
      BY <1>9, <2>2, <3>1, <3>2 DEF SumsUp
  <2>3. CASE h \notin HeadersIn(f)
    <3>1. h \in DOMAIN headers /\ headers'[h] = headers[h] /\ h # <<>>
      BY <1>9, <2>3 DEF SumsInv
    <3>2. SumsUp(headers[h], lines, under(h))
      BY <3>1, AddingUpIsSumming DEF SumsInv, HeadersSumUp
    <3>3. \A u \in Uids(f) : NamedUnder(u) # h
      BY <2>3, <3>1, LinesOfAFile
    <3>4. \A u \in Uids(f) : u \notin underNow(h) /\ u \notin under(h)
      BY <1>4, <3>3 DEF SumsInv, LinesNamed
    <3>5. \A u \in DOMAIN lines \ Uids(f) : u \in underNow(h) <=> u \in under(h)
      BY <1>1
    <3>6. underNow(h) = under(h)
      <4>1. underNow(h) \subseteq DOMAIN lines \cup Uids(f) /\ under(h) \subseteq DOMAIN lines
        BY <1>1
      <4> HIDE DEF underNow, under
      <4> QED
        BY <3>4, <3>5, <4>1
    <3>7. \A u \in under(h) : Amounts(lines')[u] = Amounts(lines)[u]
      BY <1>1, <3>4 DEF Amounts
    <3>8. SumOver(Amounts(lines'), under(h)) = SumOver(Amounts(lines), under(h))
      <4> HIDE DEF underNow, under
      <4> QED
        BY <2>1, <3>6, <3>7, SumSame
    <3> HIDE DEF underNow, under
    <3> QED
      BY <3>1, <3>2, <3>6, <3>8 DEF SumsUp
  <2> QED
    BY <2>2, <2>3
<1>13. HeadersAddUp'
  <2>1. HeadersSumUp'
    BY <1>12 DEF HeadersSumUp
  <2> QED
    BY <1>5, <1>7, <2>1, AddingUpStaysSumming
<1> QED
  BY <1>5, <1>7, <1>8, <1>10, <1>13 DEF SumsInv

(* A refused file leaves its batch and nothing else.                         *)
LEMMA BlockedKeepsSums ==
    ASSUME BatchesInOrder, SumsInv, NEW f \in Files, BlockedImport(f)
    PROVE  SumsInv'
<1>1. PICK b : batches' = Append(batches, b) /\ b.file = f /\ b.status = "BLOCKED"
  BY DEF BlockedImport, Batch
<1>2. lines' = lines /\ headers' = headers
  BY DEF BlockedImport
<1>3. /\ Len(batches) \in Nat /\ DOMAIN batches = 1..Len(batches)
      /\ DOMAIN batches' = 1..(Len(batches) + 1)
      /\ batches'[Len(batches) + 1] = b
      /\ \A i \in DOMAIN batches : batches'[i] = batches[i]
  BY <1>1, OneBatchMore
<1>4. Posted' = Posted
  BY <1>1, <1>3 DEF Posted
<1>5. \A i \in Posted : batches'[i].file = batches[i].file
  BY <1>3 DEF Posted
<1>6. LinesArePosted'
  <2>1. \A i \in DOMAIN batches' : batches'[i].file \in Files
    BY <1>1, <1>3 DEF SumsInv, LinesArePosted
  <2>2. UNION {Uids(batches'[i].file) : i \in Posted'} = UNION {Uids(batches[i].file) : i \in Posted}
    BY <1>4, <1>5
  <2> QED
    BY <1>2, <2>1, <2>2 DEF SumsInv, LinesArePosted
<1>7. LinesNamed' /\ FailureIsTheFiles'
  BY <1>1, <1>2, <1>3 DEF SumsInv, LinesNamed, FailureIsTheFiles
<1>8. HeadersAddUp'
  <2>1. HeadersSumUp
    BY AddingUpIsSumming DEF SumsInv
  <2>2. HeadersSumUp'
    BY <1>2, <2>1 DEF HeadersSumUp
  <2> QED
    BY <1>6, <1>7, <2>2, AddingUpStaysSumming
<1> QED
  BY <1>2, <1>6, <1>7, <1>8 DEF SumsInv

(* A step that moves nothing a sum is made of.                               *)
LEMMA PricingKeepsSums ==
    ASSUME SumsInv, batches' = batches, headers' = headers, DOMAIN lines' = DOMAIN lines,
           \A u \in DOMAIN lines : /\ lines'[u].header = lines[u].header
                                   /\ lines'[u].amount = lines[u].amount
                                   /\ lines'[u].ret = lines[u].ret
                                   /\ lines'[u].batch = lines[u].batch
    PROVE  SumsInv'
<1>1. LinesNamed'
  BY DEF SumsInv, LinesNamed
<1>2. LinesArePosted'
  BY DEF SumsInv, LinesArePosted, Posted
<1>3. HeadersAddUp'
  <2> DEFINE under(h) == {u \in DOMAIN lines : lines[u].header = h}
             underNow(h) == {u \in DOMAIN lines' : lines'[u].header = h}
  <2>1. ASSUME NEW h
        PROVE  underNow(h) = under(h) /\ SumOver(Amounts(lines'), under(h)) = SumOver(Amounts(lines), under(h))
    <3>1. underNow(h) = under(h)
      OBVIOUS
    <3>2. under(h) \in SUBSET (DOMAIN lines) /\ IsFiniteSet(under(h))
      BY FS_Subset DEF SumsInv, LinesArePosted
    <3>3. \A u \in under(h) : Amounts(lines')[u] = Amounts(lines)[u]
      BY DEF Amounts
    <3> HIDE DEF underNow, under
    <3> QED
      BY <3>1, <3>2, <3>3, SumSame
  <2>2. \A h \in DOMAIN headers : SumsUp(headers[h], lines, under(h))
    BY AddingUpIsSumming DEF SumsInv, HeadersSumUp
  <2>3. \A h \in DOMAIN headers' : SumsUp(headers'[h], lines', underNow(h))
    <3> HIDE DEF underNow, under
    <3> QED
      BY <2>1, <2>2 DEF SumsUp
  <2>4. HeadersSumUp'
    BY <2>3 DEF HeadersSumUp
  <2> QED
    BY <1>1, <1>2, <2>4, AddingUpStaysSumming
<1> QED
  BY <1>1, <1>2, <1>3 DEF SumsInv, FailureIsTheFiles

(* Every step of the business keeps its sums.                                *)
LEMMA StepKeepsSums ==
    ASSUME LedgerInv, SumsInv, [Next]_vars
    PROVE  SumsInv'
<1>1. CASE Learn
  <2>1. PICK f \in Files : BlockedImport(f) \/ PostedImport(f)
    BY <1>1 DEF Learn, Import
  <2>2. BatchesInOrder
    BY DEF LedgerInv, IdentityInv
  <2> QED
    BY <2>1, <2>2, PostedKeepsSums, BlockedKeepsSums
<1>2. CASE Ask \/ Govern \/ Upgrade \/ UNCHANGED vars
  <2>1. batches' = batches /\ headers' = headers /\ lines' = lines
    BY <1>2 DEF Ask, Govern, Upgrade, vars, ledgerVars
  <2> QED
    BY <2>1, PricingKeepsSums
<1>3. CASE PostCosts
  <2>1. batches' = batches /\ headers' = headers
    BY <1>3 DEF PostCosts
  <2>2. CASE lines' = lines
    BY <2>1, <2>2, PricingKeepsSums
  <2>3. CASE lines' = [u \in DOMAIN lines |-> Priced(history, lines[u])]
    <3>1. ASSUME NEW u \in DOMAIN lines
          PROVE  /\ lines'[u].header = lines[u].header /\ lines'[u].amount = lines[u].amount
                 /\ lines'[u].ret = lines[u].ret /\ lines'[u].batch = lines[u].batch
      <4> DEFINE line == lines[u]
                 res == Priced(history, line)
      <4>1. lines'[u] = res /\ DOMAIN line = LineFields /\ line.date \in Nat
        BY <2>3 DEF LedgerInv, PriceInv, LinesTyped
      <4>2. \A p \in history : p.from \in Nat /\ p.cost \in Int
        BY DEF LedgerInv, PriceInv, PointsTyped
      <4> HIDE DEF line
      <4>3. \A field \in {"batch", "raw", "product", "ret", "customer", "date", "amount", "header"} :
                res[field] = line[field]
        BY <4>1, <4>2, PricedLine
      <4> HIDE DEF res
      <4>4. res.header = line.header /\ res.amount = line.amount /\ res.ret = line.ret /\ res.batch = line.batch
        BY <4>3
      <4> QED
        BY <4>1, <4>4 DEF line
    <3>2. DOMAIN lines' = DOMAIN lines
      BY <2>3
    <3> QED
      BY <2>1, <3>1, <3>2, PricingKeepsSums
  <2>4. lines' = lines \/ lines' = [u \in DOMAIN lines |-> Priced(history, lines[u])]
    BY <1>3 DEF PostCosts, ApplyCosts, ApplyLost
  <2> QED
    BY <2>2, <2>3, <2>4
<1> QED
  BY <1>1, <1>2, <1>3 DEF Next

(* The sums, through every order of imports, corrections and cost files.     *)
THEOREM SumsStay == Spec => []SumsInv
<1>1. Init => SumsInv
  <2> SUFFICES ASSUME Init PROVE SumsInv
    OBVIOUS
  <2>1. batches = <<>> /\ lines = EmptyTable /\ headers = EmptyTable
    BY DEF Init, LedgerInit
  <2>2. DOMAIN batches = {} /\ DOMAIN lines = {} /\ DOMAIN headers = {}
    BY <2>1 DEF EmptyTable
  <2>3. IsFiniteSet(DOMAIN lines) /\ Posted = {}
    BY <2>2, FS_EmptySet DEF Posted
  <2> QED
    BY <2>2, <2>3 DEF SumsInv, LinesNamed, LinesArePosted, HeadersAddUp, FailureIsTheFiles
<1>2. LedgerInv /\ SumsInv /\ [Next]_vars => SumsInv'
  BY StepKeepsSums
<1> QED
  BY <1>1, <1>2, LedgerInOrder, PTL DEF Spec, vars

(* However exports overlap and correct each other, every order says what its  *)
(* lines add up to, a shared line counts once, and a file that fails to       *)
(* reconcile spells a number in two ways or has a return of somebody who buys *)
(* nothing in it (_recompute_order_headers, _overlap_with_other_uploads,      *)
(* _reconcile).                                                              *)
THEOREM LedgerHolds == Spec => []LedgerAddsUp
<1>1. SumsInv => LedgerAddsUp
  BY SharedLinesCountOnce DEF SumsInv, LedgerAddsUp
<1> QED
  BY <1>1, SumsStay, PTL
=============================================================================
