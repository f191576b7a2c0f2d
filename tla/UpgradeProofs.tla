---------------------------- MODULE UpgradeProofs ----------------------------
(***************************************************************************)
(* What holds of an upgraded installation for any ledger an older version  *)
(* may have left: any orders and numbers, lines, uploads, days, customers  *)
(* and owners of addresses, and a process that may die between any two     *)
(* statements.  The rows matter: the headers before they had years, the    *)
(* copies that migration 17 drops and the headers that 18 makes are each   *)
(* described by what is true of them for all ledgers, and every step of    *)
(* the upgrade is shown to lead from one description to the next.          *)
(***************************************************************************)
EXTENDS SchemaMigration, NatFacts, FiniteSetTheorems, SequenceTheorems, TLAPS

(* The money of some lines is a sum.                                         *)
LEMMA MoneyIsSum ==
    ASSUME NEW L, IsFiniteSet(L)
    PROVE  Sum(L) = SumOver([l \in L |-> l.money], L)
<1> DEFINE f == [l \in L |-> l.money]
           E(it) == [s \in SUBSET L |-> IF s = {} THEN 0 ELSE Pick(s).money + it[s \ {Pick(s)}]]
<1>1. Sum(L) = (CHOOSE it : it = E(it))[L]
  BY DEF Sum, MapThenSumSet, MapThenFoldSet, Pick
<1>2. ASSUME NEW it
      PROVE  it = E(it) <=> SumsOf(f, L, it)
  <2>1. ASSUME NEW s \in SUBSET L, s # {}
        PROVE  f[Pick(s)] = Pick(s).money
    BY <2>1, PickIsIn
  <2>2. E(it) = [s \in SUBSET L |-> IF s = {} THEN 0 ELSE f[Pick(s)] + it[s \ {Pick(s)}]]
    <3> HIDE DEF f
    <3> QED
      BY <2>1
  <2> HIDE DEF E, f
  <2> QED
    BY <2>2 DEF SumsOf
<1>3. SumsOf(f, L, CHOOSE it : SumsOf(f, L, it))
  <2> HIDE DEF f
  <2> QED
    BY SumsExist
<1>4. PICK it : it = (CHOOSE x : x = E(x)) /\ it = E(it)
  <2> HIDE DEF E, f
  <2> QED
    BY <1>2, <1>3
<1>5. SumsOf(f, L, it)
  <2> HIDE DEF E, f
  <2> QED
    BY <1>2, <1>4
<1> HIDE DEF E, f
<1>6. it[L] = SumOver(f, L)
  BY <1>5, SumsAreIt
<1> QED
  BY <1>1, <1>4, <1>6 DEF f

(* Lines and what they are turned into: the same sales, one by one.          *)
Copies(h, S, T) ==
    /\ IsFiniteSet(S) /\ T = {h[l] : l \in S}
    /\ \A l \in S : /\ l.money \in Int
                    /\ h[l].id = l.id /\ h[l].money = l.money /\ h[l].ret = l.ret
    /\ \A l, k \in S : l.id = k.id => l = k

(* They are as many and add up to the same.                                  *)
LEMMA CopiesAddUp ==
    ASSUME NEW h, NEW S, NEW T, Copies(h, S, T)
    PROVE  Sum(T) = Sum(S) /\ Cardinality(T) = Cardinality(S) /\ IsFiniteSet(T)
<1> DEFINE f == [l \in S |-> l.money]
           g == [l \in T |-> l.money]
<1>1. IsFiniteSet(S) /\ T = {h[l] : l \in S} /\ \A l, k \in S : h[l] = h[k] => l = k
  BY DEF Copies
<1>2. IsFiniteSet(T) /\ Cardinality(T) = Cardinality(S)
  BY <1>1, SizeAcross
<1>3. \A x \in S : f[x] \in Int /\ g[h[x]] = f[x]
  BY <1>1 DEF Copies
<1>4. SumOver(g, {h[x] : x \in S}) = SumOver(f, S)
  <2> HIDE DEF f, g
  <2> QED
    BY <1>1, <1>3, SumAcross
<1> QED
  BY <1>1, <1>2, <1>4, MoneyIsSum

(* The totals of a header.                                                   *)
Adds(o, mine) ==
    /\ o.gross = Sum({l \in mine : ~l.ret}) /\ o.returns = -Sum({l \in mine : l.ret})
    /\ o.count = Cardinality(mine)
(* Of lines and what they are turned into they are the same.                 *)
LEMMA CopiesKeepTotals ==
    ASSUME NEW h, NEW S, NEW T, Copies(h, S, T), NEW o
    PROVE  Adds(o, T) <=> Adds(o, S)
<1>1. Copies(h, {l \in S : ~l.ret}, {l \in T : ~l.ret})
  BY FS_Subset DEF Copies
<1>2. Copies(h, {l \in S : l.ret}, {l \in T : l.ret})
  BY FS_Subset DEF Copies
<1> QED
  BY <1>1, <1>2, CopiesAddUp DEF Adds

-----------------------------------------------------------------------------
(* Some lines have a first, and it is the one the queries find.              *)
Ordered(S) ==
    IsFiniteSet(S) /\ \A l \in S : l.id \in Nat /\ l.day \in Int /\ l.ret \in BOOLEAN
(* Of any two lines one is the earlier.                                      *)
LEMMA EarlierIsTotal ==
    ASSUME NEW S, Ordered(S), NEW l \in S, NEW k \in S, NEW j \in S
    PROVE  /\ Earlier(l, k) \/ Earlier(k, l)
           /\ Earlier(l, k) /\ Earlier(k, l) => l.id = k.id
           /\ l.id = k.id /\ l.day = k.day /\ l.ret = k.ret /\ Earlier(k, j) => Earlier(l, j)
BY DEF Ordered, Earlier
(* What is earlier than an earlier line is earlier.                          *)
LEMMA EarlierGoesOn ==
    ASSUME NEW S, Ordered(S), NEW l \in S, NEW k \in S, NEW j \in S,
           \A a, b \in S : a.id = b.id => a = b, Earlier(l, k), Earlier(k, j)
    PROVE  Earlier(l, j)
BY DEF Ordered, Earlier
(* Some lines have a first.                                                  *)
LEMMA FirstIsFound ==
    ASSUME NEW S, Ordered(S), S # {}, \A a, b \in S : a.id = b.id => a = b
    PROVE  First(S) \in S /\ \A k \in S : Earlier(First(S), k)
<1> DEFINE bad == {T \in SUBSET S : T # {} /\ ~(\E l \in T : \A k \in T : Earlier(l, k))}
<1>1. ASSUME bad # {} PROVE FALSE
  <2>1. bad \in SUBSET (SUBSET S)
    OBVIOUS
  <2>2. PICK T \in bad : \A U \in bad : U \subseteq T => U = T
    <3>1. IsFiniteSet(S)
      BY DEF Ordered
    <3> HIDE DEF bad
    <3> QED
      BY <1>1, <2>1, <3>1, SmallestSubset
  <2>3. PICK x \in T : TRUE
    OBVIOUS
  <2>4. CASE T = {x}
    <3>1. Earlier(x, x)
      BY DEF Earlier
    <3> QED
      BY <2>4, <3>1
  <2>5. CASE T # {x}
    <3>1. T \ {x} \in SUBSET S /\ T \ {x} # {} /\ T \ {x} # T
      BY <2>5
    <3>2. PICK l \in T \ {x} : \A k \in T \ {x} : Earlier(l, k)
      BY <2>2, <3>1
    <3>3. l \in S /\ x \in S
      OBVIOUS
    <3>4. CASE Earlier(l, x)
      BY <3>2, <3>4
    <3>5. CASE Earlier(x, l)
      <4>1. \A k \in T \ {x} : Earlier(x, k)
        BY <3>2, <3>3, <3>5, EarlierGoesOn
      <4>2. Earlier(x, x)
        BY DEF Earlier
      <4> QED
        BY <4>1, <4>2
    <3> QED
      BY <3>3, <3>4, <3>5, EarlierIsTotal
  <2> QED
    BY <2>4, <2>5
<1>2. \E l \in S : \A k \in S : Earlier(l, k)
  BY <1>1
<1> QED
  BY <1>2 DEF First
(* A line before all the others is the first.                                *)
LEMMA FirstIs ==
    ASSUME NEW S, Ordered(S), \A a, b \in S : a.id = b.id => a = b,
           NEW x \in S, \A k \in S : Earlier(x, k)
    PROVE  First(S) = x
<1>1. First(S) \in S /\ \A k \in S : Earlier(First(S), k)
  BY FirstIsFound
<1> QED
  BY <1>1, EarlierIsTotal

-----------------------------------------------------------------------------
(* The lines of a ledger that this code wrote.                               *)
LinesKnown(L) ==
    /\ IsFiniteSet(L) /\ \A l \in L : IsLine(l)
    /\ \A l, k \in L : /\ l.id = k.id => l = k
                       /\ l.day <= k.day => Year(l.day) <= Year(k.day)

(* The fields of a header.                                                   *)
IsHeader(o) ==
    o = [id |-> o.id, key |-> o.key, period |-> o.period, number |-> o.number,
         gross |-> o.gross, returns |-> o.returns, count |-> o.count, date |-> o.date,
         customer |-> o.customer, branch |-> o.branch, batch |-> o.batch]

(* New totals leave everything else.                                         *)
LEMMA TotalsForm ==
    ASSUME NEW o, NEW L, IsHeader(o)
    PROVE  /\ IsHeader(Totals(o, L)) /\ Adds(Totals(o, L), Under(L, o.id))
           /\ Totals(o, L).id = o.id /\ Totals(o, L).key = o.key /\ Totals(o, L).period = o.period
           /\ Totals(o, L).number = o.number /\ Totals(o, L).date = o.date
           /\ Totals(o, L).customer = o.customer /\ Totals(o, L).branch = o.branch /\ Totals(o, L).batch = o.batch
           /\ (o = Totals(o, L) <=> Adds(o, Under(L, o.id)))
<1> DEFINE mine == Under(L, o.id)
           g == Sum({l \in mine : ~l.ret})
           r == -Sum({l \in mine : l.ret})
           n == Cardinality(mine)
           new == [id |-> o.id, key |-> o.key, period |-> o.period, number |-> o.number,
                   gross |-> g, returns |-> r, count |-> n, date |-> o.date,
                   customer |-> o.customer, branch |-> o.branch, batch |-> o.batch]
<1>1. Totals(o, L) = [o EXCEPT !.gross = g, !.returns = r, !.count = n]
  BY DEF Totals
<1> HIDE DEF g, r, n
<1>2. [o EXCEPT !.gross = g, !.returns = r, !.count = n] = new
  <2> DEFINE v(a, b, c) ==
        [id |-> o.id, key |-> o.key, period |-> o.period, number |-> o.number, gross |-> a, returns |-> b, count |-> c,
         date |-> o.date, customer |-> o.customer, branch |-> o.branch, batch |-> o.batch]
  <2>1. o = v(o.gross, o.returns, o.count)
    BY DEF IsHeader
  <2>2. \A a, b, c : [v(a, b, c) EXCEPT !.gross = g] = v(g, b, c)
    OBVIOUS
  <2>3. \A a, b, c : [v(a, b, c) EXCEPT !.returns = r] = v(a, r, c)
    OBVIOUS
  <2>4. \A a, b, c : [v(a, b, c) EXCEPT !.count = n] = v(a, b, n)
    OBVIOUS
  <2>5. [o EXCEPT !.gross = g, !.returns = r, !.count = n] = [[[o EXCEPT !.gross = g] EXCEPT !.returns = r] EXCEPT !.count = n]
    OBVIOUS
  <2>6. new = v(g, r, n)
    OBVIOUS
  <2> HIDE DEF v, new
  <2>7. [o EXCEPT !.gross = g] = v(g, o.returns, o.count)
    BY <2>1, <2>2
  <2>8. PICK o1 : o1 = [o EXCEPT !.gross = g]
    OBVIOUS
  <2>9. PICK o2 : o2 = [o1 EXCEPT !.returns = r]
    OBVIOUS
  <2>10. o1 = v(g, o.returns, o.count)
    BY <2>7, <2>8
  <2>11. o2 = v(g, r, o.count)
    BY <2>3, <2>9, <2>10
  <2>12. [o2 EXCEPT !.count = n] = v(g, r, n)
    BY <2>4, <2>11
  <2>13. [o EXCEPT !.gross = g, !.returns = r, !.count = n] = [o2 EXCEPT !.count = n]
    BY <2>5, <2>8, <2>9
  <2> QED
    BY <2>6, <2>12, <2>13
<1>3. Totals(o, L) = new
  BY <1>1, <1>2
<1>4. /\ new.id = o.id /\ new.key = o.key /\ new.period = o.period /\ new.number = o.number
      /\ new.gross = g /\ new.returns = r /\ new.count = n /\ new.date = o.date
      /\ new.customer = o.customer /\ new.branch = o.branch /\ new.batch = o.batch
  OBVIOUS
<1>5. IsHeader(new)
  BY <1>4 DEF IsHeader
<1>6. Adds(new, mine)
  BY <1>4 DEF Adds, g, r, n
<1>7. Adds(o, mine) => o = new
  BY DEF Adds, g, r, n, IsHeader
<1> HIDE DEF new, mine
<1> QED
  BY <1>3, <1>4, <1>5, <1>6, <1>7 DEF mine

-----------------------------------------------------------------------------
(* Identities.                                                               *)

(* A line with another identity or under another order.                      *)
LEMMA LineForms ==
    ASSUME NEW l, IsLine(l), NEW x
    PROVE  /\ [l EXCEPT !.uid = x] = [id |-> l.id, batch |-> l.batch, order |-> l.order, product |-> l.product, ret |-> l.ret,
                                      day |-> l.day, money |-> l.money, customer |-> l.customer, uid |-> x]
           /\ [l EXCEPT !.order = x] = [id |-> l.id, batch |-> l.batch, order |-> x, product |-> l.product, ret |-> l.ret,
                                        day |-> l.day, money |-> l.money, customer |-> l.customer, uid |-> l.uid]
<1>1. \A i, b, o, p, r, d, m, c, u, v, z :
         v = [id |-> i, batch |-> b, order |-> o, product |-> p, ret |-> r, day |-> d, money |-> m, customer |-> c, uid |-> u]
         => [v EXCEPT !.uid = z] = [id |-> i, batch |-> b, order |-> o, product |-> p, ret |-> r, day |-> d, money |-> m, customer |-> c, uid |-> z]
  OBVIOUS
<1>2. \A i, b, o, p, r, d, m, c, u, v, z :
         v = [id |-> i, batch |-> b, order |-> o, product |-> p, ret |-> r, day |-> d, money |-> m, customer |-> c, uid |-> u]
         => [v EXCEPT !.order = z] = [id |-> i, batch |-> b, order |-> z, product |-> p, ret |-> r, day |-> d, money |-> m, customer |-> c, uid |-> u]
  OBVIOUS
<1> QED
  BY <1>1, <1>2 DEF IsLine

(* The same sale, perhaps under another order or identity.                   *)
SameSale(k, l) ==
    /\ k.id = l.id /\ k.batch = l.batch /\ k.product = l.product /\ k.ret = l.ret
    /\ k.day = l.day /\ k.money = l.money /\ k.customer = l.customer

(* What is identified anew stays under its order.                            *)
Place(O, L, l) == Cardinality({k \in L : LineGroup(O, k) = LineGroup(O, l) /\ k.id < l.id})
Uid(O, L, l) == <<LineGroup(O, l), Place(O, L, l)>>
(* The form of the lines identified anew.                                    *)
LEMMA IdentifiedForm ==
    ASSUME NEW O, NEW L, LinesKnown(L)
    PROVE  /\ LinesKnown(Identified(O, L))
           /\ \A k \in Identified(O, L) : \E l \in L : SameSale(k, l) /\ k.order = l.order /\ k.uid = Uid(O, L, l)
           /\ \A l \in L : \E k \in Identified(O, L) : SameSale(k, l) /\ k.order = l.order /\ k.uid = Uid(O, L, l)
<1> DEFINE new(l) == [l EXCEPT !.uid = Uid(O, L, l)]
           M == Identified(O, L)
<1>1. M = {new(l) : l \in L}
  BY DEF Identified, Uid, Place
<1>2. ASSUME NEW l \in L
      PROVE  IsLine(new(l)) /\ SameSale(new(l), l) /\ new(l).order = l.order /\ new(l).uid = Uid(O, L, l)
  <2>1. PICK u : u = Uid(O, L, l)
    OBVIOUS
  <2>2. IsLine(l)
    BY DEF LinesKnown
  <2>3. [l EXCEPT !.uid = u] = [id |-> l.id, batch |-> l.batch, order |-> l.order, product |-> l.product, ret |-> l.ret,
                                day |-> l.day, money |-> l.money, customer |-> l.customer, uid |-> u]
    BY <2>2, LineForms
  <2>4. PICK k : k = [l EXCEPT !.uid = u]
    OBVIOUS
  <2>5. /\ k.id = l.id /\ k.batch = l.batch /\ k.order = l.order /\ k.product = l.product /\ k.ret = l.ret
        /\ k.day = l.day /\ k.money = l.money /\ k.customer = l.customer /\ k.uid = u
    BY <2>3, <2>4
  <2>6. k = [id |-> k.id, batch |-> k.batch, order |-> k.order, product |-> k.product, ret |-> k.ret,
             day |-> k.day, money |-> k.money, customer |-> k.customer, uid |-> k.uid]
    BY <2>3, <2>4, <2>5
  <2>7. IsLine(k) /\ SameSale(k, l)
    BY <2>2, <2>5, <2>6 DEF IsLine, SameSale
  <2>8. new(l) = k
    BY <2>1, <2>4
  <2> QED
    BY <2>1, <2>5, <2>7, <2>8
<1>3. IsFiniteSet(M)
  <2>1. [l \in L |-> new(l)] \in Surjection(L, {new(l) : l \in L})
    BY DEF Surjection
  <2> HIDE DEF new
  <2> QED
    BY <1>1, <2>1, FS_Surjection DEF LinesKnown
<1> HIDE DEF new, M
<1>4. LinesKnown(M)
  <2>1. \A k \in M : IsLine(k)
    BY <1>1, <1>2
  <2>2. ASSUME NEW k \in M, NEW j \in M
        PROVE  (k.id = j.id => k = j) /\ (k.day <= j.day => Year(k.day) <= Year(j.day))
    <3>1. PICK a \in L, b \in L : k = new(a) /\ j = new(b)
      BY <1>1
    <3>2. k.id = a.id /\ j.id = b.id /\ k.day = a.day /\ j.day = b.day
      BY <1>2, <3>1 DEF SameSale
    <3> QED
      BY <3>1, <3>2 DEF LinesKnown
  <2> QED
    BY <1>3, <2>1, <2>2 DEF LinesKnown
<1> QED
  BY <1>1, <1>2, <1>4 DEF M

(* No two lines get one identity.                                            *)
LEMMA IdentitiesDiffer ==
    ASSUME NEW O, NEW L, LinesKnown(L), NEW l \in L, NEW k \in L, Uid(O, L, l) = Uid(O, L, k)
    PROVE  l = k
<1> DEFINE before(j) == {i \in L : LineGroup(O, i) = LineGroup(O, j) /\ i.id < j.id}
<1>1. LineGroup(O, l) = LineGroup(O, k) /\ Cardinality(before(l)) = Cardinality(before(k))
  BY DEF Uid, Place
<1>2. \A j \in L : j.id \in Nat
  BY DEF LinesKnown, IsLine
<1>3. ASSUME NEW a \in L, NEW b \in L, LineGroup(O, a) = LineGroup(O, b), a.id < b.id
      PROVE  Cardinality(before(a)) # Cardinality(before(b))
  <2>1. IsFiniteSet(before(b))
    BY FS_Subset DEF LinesKnown
  <2>2. before(a) \subseteq before(b) /\ a \in before(b) /\ a \notin before(a)
    BY <1>2, <1>3
  <2> HIDE DEF before
  <2>3. Cardinality(before(a)) < Cardinality(before(b))
    BY <2>1, <2>2, FS_Subset, FS_CardinalityType
  <2>4. IsFiniteSet(before(a)) /\ Cardinality(before(a)) \in Nat /\ Cardinality(before(b)) \in Nat
    BY <2>1, <2>2, FS_Subset, FS_CardinalityType
  <2> QED
    BY <2>3, <2>4
<1> HIDE DEF before
<1>4. ~(l.id < k.id) /\ ~(k.id < l.id)
  BY <1>1, <1>3
<1>5. l.id = k.id
  BY <1>2, <1>4
<1> QED
  BY <1>5 DEF LinesKnown

-----------------------------------------------------------------------------
(* Headers without a year.                                                   *)

(* A header's date is of its first year and not after any of its lines, its  *)
(* branch is of the first line of its last upload.                           *)
Dated(o, mine) ==
    /\ \E l \in mine : Year(l.day) = Year(o.date)
    /\ \A l \in mine : o.date <= l.day /\ Year(o.date) <= Year(l.day)
Attributed(o, mine) ==
    \E x \in mine : /\ x.batch = o.batch /\ o.branch = Year(x.day)
                    /\ \A k \in mine : k.batch <= o.batch /\ (k.batch = o.batch => Earlier(x, k))
Stands(o, L) ==
    /\ IsHeader(o) /\ o.id \in {<<n>> : n \in DOMAIN NumberOf} /\ o.key \in Seq(Parts) /\ o.number = None
    /\ Adds(o, Under(L, o.id)) /\ Dated(o, Under(L, o.id)) /\ Attributed(o, Under(L, o.id))
Headed(O, L) ==
    /\ LinesKnown(L) /\ \A l \in L : \E o \in O : o.id = l.order
    /\ \A o, p \in O : (o.id = p.id => o = p) /\ (o.key = p.key => o = p)
Stage(O, L) == Headed(O, L) /\ \A o \in O : Stands(o, L)

(* The header of a line.                                                     *)
HeaderOf(O, l) == CHOOSE o \in O : o.id = l.order
(* Every line has one.                                                       *)
LEMMA HeaderOfIs ==
    ASSUME NEW O, NEW L, Headed(O, L), NEW l \in L
    PROVE  HeaderOf(O, l) \in O /\ HeaderOf(O, l).id = l.order
<1>1. \E o \in O : o.id = l.order
  BY DEF Headed
<1> QED
  BY <1>1 DEF HeaderOf
(* The group a line is counted in.                                           *)
LEMMA GroupForm ==
    ASSUME NEW O, NEW l
    PROVE  LineGroup(O, l) = <<Year(l.day), HeaderOf(O, l).key, l.product, l.ret>>
BY DEF LineGroup, HeaderOf

(* Equal lines are lines of one order.                                       *)
LEMMA TwinsShareOrder ==
    ASSUME NEW O, NEW L, Headed(O, L), NEW l \in L, NEW k \in L
    PROVE  Twins(O, l, k) <=> /\ Year(l.day) = Year(k.day) /\ l.order = k.order
                              /\ l.product = k.product /\ l.ret = k.ret /\ l.money = k.money
<1>1. /\ HeaderOf(O, l) \in O /\ HeaderOf(O, l).id = l.order
      /\ HeaderOf(O, k) \in O /\ HeaderOf(O, k).id = k.order
  BY HeaderOfIs
<1>2. HeaderOf(O, l).key = HeaderOf(O, k).key <=> l.order = k.order
  BY <1>1 DEF Headed
<1>3. \A a, b, c, d, e, f, g, h : <<a, b, c, d>> = <<e, f, g, h>> <=> a = e /\ b = f /\ c = g /\ d = h
  OBVIOUS
<1>4. LineGroup(O, l) = LineGroup(O, k) <=> /\ Year(l.day) = Year(k.day) /\ HeaderOf(O, l).key = HeaderOf(O, k).key
                                        /\ l.product = k.product /\ l.ret = k.ret
  BY <1>3, GroupForm
<1> QED
  BY <1>2, <1>4 DEF Twins

(* Of equal lines the newest upload's stay.                                  *)
LEMMA NewestSurvive ==
    ASSUME NEW O, NEW L, Headed(O, L), NEW l \in L
    PROVE  \E k \in Survivors(O, L) :
              /\ Twins(O, l, k) /\ l.batch <= k.batch /\ (l \notin Survivors(O, L) => l.batch < k.batch)
              /\ \A j \in L : Twins(O, j, k) /\ j.batch = k.batch => j \in Survivors(O, L)
<1> DEFINE class == {k \in L : Twins(O, l, k)}
           f == [k \in L |-> k.batch]
<1>1. IsFiniteSet(class) /\ \A k \in L : k.batch \in Nat
  BY FS_Subset DEF Headed, LinesKnown, IsLine
<1>2. l \in class
  BY DEF Twins
<1>3. \A k \in class : f[k] \in Int /\ f[k] = k.batch
  BY <1>1
<1>4. PICK k \in class : \A j \in class : f[j] <= f[k]
  <2> HIDE DEF f, class
  <2> QED
    BY <1>1, <1>2, <1>3, FiniteHasGreatest
<1>5. \A j \in class : j.batch <= k.batch
  BY <1>3, <1>4
<1>6. \A i, j \in L : Twins(O, i, j) /\ Twins(O, l, i) => j \in class
  BY DEF Twins
<1>7. \A j \in L : Twins(O, j, k) => j \in class
  BY <1>4 DEF Twins
<1>8. ASSUME NEW j \in class, j.batch = k.batch
      PROVE  j \in Survivors(O, L)
  <2>1. \A i \in L : Twins(O, j, i) => i \in class
    BY DEF Twins
  <2>2. \A i \in L : Twins(O, j, i) => ~(i.batch > j.batch)
    BY <1>1, <1>5, <1>8, <2>1
  <2> QED
    BY <2>2 DEF Survivors
<1>9. k \in Survivors(O, L)
  BY <1>8
<1>10. l \notin Survivors(O, L) => l.batch < k.batch
  <2>1. l.batch <= k.batch /\ (l.batch = k.batch => l \in Survivors(O, L))
    BY <1>2, <1>5, <1>8
  <2> QED
    BY <1>1, <2>1
<1>11. Twins(O, l, k) /\ l.batch <= k.batch
  BY <1>2, <1>4, <1>5
<1>12. \A j \in L : Twins(O, j, k) /\ j.batch = k.batch => j \in Survivors(O, L)
  BY <1>7, <1>8
<1> QED
  BY <1>9, <1>10, <1>11, <1>12

(* A header of all its lines stands on those that stay, but for its totals.  *)
LEMMA StaysFounded ==
    ASSUME NEW O, NEW L, Headed(O, L), NEW o \in O, Dated(o, Under(L, o.id)), Attributed(o, Under(L, o.id))
    PROVE  Dated(o, Under(Survivors(O, L), o.id)) /\ Attributed(o, Under(Survivors(O, L), o.id))
<1> DEFINE S == Survivors(O, L)
           mine == Under(L, o.id)
           left == Under(S, o.id)
<1>1. S \subseteq L /\ left \subseteq mine
  BY DEF Survivors, Under
<1>2. ASSUME NEW l \in mine
      PROVE  \E k \in left : Year(k.day) = Year(l.day)
  <2>1. l \in L /\ l.order = o.id
    BY DEF Under
  <2>2. PICK k \in S : Twins(O, l, k)
    BY <2>1, NewestSurvive
  <2>3. Year(l.day) = Year(k.day) /\ l.order = k.order
    BY <1>1, <2>1, <2>2, TwinsShareOrder
  <2> QED
    BY <2>1, <2>2, <2>3 DEF Under
<1>3. Dated(o, left)
  BY <1>1, <1>2 DEF Dated
<1>4. PICK x \in mine : /\ x.batch = o.batch /\ o.branch = Year(x.day)
                        /\ \A k \in mine : k.batch <= o.batch /\ (k.batch = o.batch => Earlier(x, k))
  BY DEF Attributed
<1>5. x \in left
  <2>1. x \in L /\ x.order = o.id /\ \A k \in L : k.batch \in Nat
    BY DEF Under, Headed, LinesKnown, IsLine
  <2>2. \A k \in L : Twins(O, x, k) => k \in mine
    BY <2>1, TwinsShareOrder DEF Under
  <2>3. \A k \in L : Twins(O, x, k) => ~(k.batch > x.batch)
    BY <1>4, <2>1, <2>2
  <2> QED
    BY <2>1, <2>3 DEF Survivors, Under
<1>6. Attributed(o, left)
  BY <1>1, <1>4, <1>5 DEF Attributed
<1> QED
  BY <1>3, <1>6

(* Lines that are the same sales, one by one.                                *)
Alike(S, T) ==
    /\ IsFiniteSet(S) /\ \A l \in S : l.money \in Int
    /\ \A l, k \in S : l.id = k.id => l = k
    /\ \A l, k \in T : l.id = k.id => l = k
    /\ \A k \in T : \E l \in S : SameSale(k, l)
    /\ \A l \in S : \E k \in T : SameSale(k, l)

(* What is said of a header goes for both.                                   *)
LEMMA SaidOfBoth ==
    ASSUME NEW S, NEW T, Alike(S, T), NEW o
    PROVE  /\ Adds(o, S) => Adds(o, T)
           /\ Dated(o, S) => Dated(o, T)
           /\ Attributed(o, S) => Attributed(o, T)
           /\ Speaks(o, S) => Speaks(o, T)
<1> DEFINE h == [l \in S |-> CHOOSE k \in T : SameSale(k, l)]
<1>1. \A l \in S : \E k \in T : SameSale(k, l)
  BY DEF Alike
<1>2. \A k \in T : \E l \in S : SameSale(k, l)
  BY DEF Alike
<1>3. \A l \in S : h[l] \in T /\ SameSale(h[l], l)
  BY <1>1
<1>4. \A l \in S : l.money \in Int
  BY DEF Alike
<1>5. \A k, j \in T : k.id = j.id => k = j
  BY DEF Alike
<1>6. \A l, j \in S : l.id = j.id => l = j
  BY DEF Alike
<1>7. IsFiniteSet(S)
  BY DEF Alike
<1> HIDE DEF h
<1>8. T = {h[l] : l \in S}
  <2>1. ASSUME NEW k \in T PROVE \E l \in S : k = h[l]
    BY <1>2, <1>3, <1>5 DEF SameSale
  <2> QED
    BY <1>3, <2>1
<1>9. Copies(h, S, T)
  BY <1>3, <1>4, <1>6, <1>7, <1>8 DEF Copies, SameSale
<1>10. Adds(o, S) => Adds(o, T)
  BY <1>9, CopiesKeepTotals
<1>11. Dated(o, S) => Dated(o, T)
  BY <1>1, <1>2 DEF Dated, SameSale
<1>12. \A l, j \in S : \A k, i \in T : SameSale(k, l) /\ SameSale(i, j) /\ Earlier(l, j) => Earlier(k, i)
  BY DEF SameSale, Earlier
<1>13. ASSUME Attributed(o, S) PROVE Attributed(o, T)
  <2>1. PICK x \in S : /\ x.batch = o.batch /\ o.branch = Year(x.day)
                       /\ \A k \in S : k.batch <= o.batch /\ (k.batch = o.batch => Earlier(x, k))
    BY <1>13 DEF Attributed
  <2>2. PICK y \in T : SameSale(y, x)
    BY <1>1
  <2>3. \A i \in T : i.batch <= o.batch /\ (i.batch = o.batch => Earlier(y, i))
    <3> TAKE i \in T
    <3>1. PICK j \in S : SameSale(i, j)
      BY <1>2
    <3> QED
      BY <1>12, <2>1, <2>2, <3>1 DEF SameSale
  <2>4. y.batch = o.batch /\ o.branch = Year(y.day)
    BY <2>1, <2>2 DEF SameSale
  <2> QED
    BY <2>3, <2>4 DEF Attributed
<1>14. Speaks(o, S) => Speaks(o, T)
  BY <1>1 DEF Speaks, SameSale
<1> QED
  BY <1>10, <1>11, <1>13, <1>14

(* Lines that are the same sales under the same orders.                      *)
Resembles(L, M) ==
    /\ LinesKnown(L) /\ LinesKnown(M)
    /\ \A k \in M : \E l \in L : SameSale(k, l) /\ k.order = l.order
    /\ \A l \in L : \E k \in M : SameSale(k, l) /\ k.order = l.order

(* A header stands on either.                                                *)
LEMMA StandsOnEither ==
    ASSUME NEW L, NEW M, Resembles(L, M), NEW o
    PROVE  /\ Adds(o, Under(L, o.id)) => Adds(o, Under(M, o.id))
           /\ Dated(o, Under(L, o.id)) => Dated(o, Under(M, o.id))
           /\ Attributed(o, Under(L, o.id)) => Attributed(o, Under(M, o.id))
           /\ Speaks(o, Under(L, o.id)) => Speaks(o, Under(M, o.id))
<1>1. Under(L, o.id) \subseteq L /\ IsFiniteSet(Under(L, o.id))
  BY FS_Subset DEF Under, Resembles, LinesKnown
<1>2. Alike(Under(L, o.id), Under(M, o.id))
  BY <1>1 DEF Alike, Under, Resembles, LinesKnown, IsLine
<1> QED
  BY <1>2, SaidOfBoth

(* A header under another key.                                               *)
WithKey(o, x) == [o EXCEPT !.key = x]
(* It is the same otherwise.                                                 *)
LEMMA KeyForm ==
    ASSUME NEW o, IsHeader(o), NEW x, NEW p, p = WithKey(o, x)
    PROVE  /\ IsHeader(p) /\ p.key = x
           /\ p.id = o.id /\ p.period = o.period /\ p.number = o.number /\ p.gross = o.gross
           /\ p.returns = o.returns /\ p.count = o.count
           /\ p.date = o.date /\ p.customer = o.customer /\ p.branch = o.branch /\ p.batch = o.batch
<1> DEFINE v(k) ==
        [id |-> o.id, key |-> k, period |-> o.period, number |-> o.number, gross |-> o.gross, returns |-> o.returns,
         count |-> o.count, date |-> o.date, customer |-> o.customer, branch |-> o.branch, batch |-> o.batch]
<1>1. o = v(o.key)
  BY DEF IsHeader
<1>2. \A k : [v(k) EXCEPT !.key = x] = v(x)
  OBVIOUS
<1>3. p = v(x)
  <2> HIDE DEF v
  <2> QED
    BY <1>1, <1>2 DEF WithKey
<1>4. IsHeader(v(x))
  BY DEF IsHeader
<1>5. /\ v(x).key = x
      /\ v(x).id = o.id /\ v(x).period = o.period /\ v(x).number = o.number /\ v(x).gross = o.gross
      /\ v(x).returns = o.returns /\ v(x).count = o.count
      /\ v(x).date = o.date /\ v(x).customer = o.customer /\ v(x).branch = o.branch /\ v(x).batch = o.batch
  OBVIOUS
<1> HIDE DEF v
<1> QED
  BY <1>3, <1>4, <1>5

(* The same header but for its key and totals.                               *)
SameHeader(p, o) ==
    /\ p.id = o.id /\ p.period = o.period /\ p.number = o.number /\ p.date = o.date
    /\ p.customer = o.customer /\ p.branch = o.branch /\ p.batch = o.batch
SameTotals(p, o) == p.gross = o.gross /\ p.returns = o.returns /\ p.count = o.count

(* What can be said of it goes for both.                                     *)
LEMMA SaidOfEither ==
    ASSUME NEW p, NEW o, SameHeader(p, o), NEW mine
    PROVE  /\ Dated(o, mine) => Dated(p, mine)
           /\ Attributed(o, mine) => Attributed(p, mine)
           /\ Speaks(o, mine) => Speaks(p, mine)
           /\ SameTotals(p, o) /\ Adds(o, mine) => Adds(p, mine)
BY DEF SameHeader, SameTotals, Dated, Attributed, Speaks, Adds

(* The numbers are definite wherever that makes no two the same.             *)
Renamable(O) == \A o \in O : Normal(o.key) \in Seq(Parts)
(* Each is the header it was, under a key of its own.                        *)
LEMMA RenumberedForm ==
    ASSUME NEW O, NEW L, Stage(O, L), Renamable(O)
    PROVE  /\ Headed(Renumbered(O), L)
           /\ \A p \in Renumbered(O) : \E o \in O : /\ SameHeader(p, o) /\ SameTotals(p, o)
                                                    /\ IsHeader(p) /\ p.key \in Seq(Parts)
           /\ \A o \in O : \E p \in Renumbered(O) : p.id = o.id
<1> DEFINE P == Renumbered(O)
           new(o) == IF o \in Rekeyed(O) THEN [o EXCEPT !.key = Normal(@)] ELSE o
<1>0. P = {new(o) : o \in O}
  BY DEF Renumbered
<1>1. ASSUME NEW o \in O
      PROVE  /\ SameHeader(new(o), o) /\ SameTotals(new(o), o) /\ IsHeader(new(o))
             /\ new(o).key \in Seq(Parts) /\ new(o).id = o.id
             /\ new(o).key = IF o \in Rekeyed(O) THEN Normal(o.key) ELSE o.key
  <2>1. IsHeader(o) /\ o.key \in Seq(Parts) /\ Normal(o.key) \in Seq(Parts)
    BY DEF Stage, Stands, Renamable
  <2>2. CASE o \in Rekeyed(O)
    <3>1. PICK x : x = Normal(o.key)
      OBVIOUS
    <3>2. PICK p : p = WithKey(o, x)
      OBVIOUS
    <3>3. new(o) = p
      BY <2>2, <3>1, <3>2 DEF WithKey
    <3> HIDE DEF new, P
    <3>4. /\ IsHeader(p) /\ p.key = x
          /\ p.id = o.id /\ p.period = o.period /\ p.number = o.number /\ p.gross = o.gross
          /\ p.returns = o.returns /\ p.count = o.count
          /\ p.date = o.date /\ p.customer = o.customer /\ p.branch = o.branch /\ p.batch = o.batch
      BY <2>1, <3>2, KeyForm
    <3> QED
      BY <2>1, <2>2, <3>1, <3>3, <3>4 DEF SameHeader, SameTotals
  <2>3. CASE o \notin Rekeyed(O)
    <3>1. new(o) = o
      BY <2>3
    <3> HIDE DEF new
    <3> QED
      BY <2>1, <2>3, <3>1 DEF SameHeader, SameTotals
  <2> QED
    BY <2>2, <2>3
<1>2. ASSUME NEW o \in O, NEW p \in O, new(o).key = new(p).key
      PROVE  o = p
  <2>1. /\ new(o).key = IF o \in Rekeyed(O) THEN Normal(o.key) ELSE o.key
        /\ new(p).key = IF p \in Rekeyed(O) THEN Normal(p.key) ELSE p.key
    BY <1>1
  <2>2. (o.key = p.key => o = p) /\ (o.id = p.id => o = p)
    BY DEF Stage, Headed
  <2>3. o.key \in {q.key : q \in O} /\ p.key \in {q.key : q \in O}
    OBVIOUS
  <2>4. \A q \in Rekeyed(O) : Normal(q.key) \notin {r.key : r \in O} /\ \A r \in O : Normal(r.key) = Normal(q.key) => q.id[1] <= r.id[1]
    BY DEF Rekeyed
  <2>5. CASE o \in Rekeyed(O) /\ p \in Rekeyed(O)
    <3>1. Normal(o.key) = Normal(p.key)
      BY <1>2, <2>1, <2>5
    <3>2. o.id[1] <= p.id[1] /\ p.id[1] <= o.id[1]
      BY <2>4, <2>5, <3>1
    <3>3. PICK n \in DOMAIN NumberOf, m \in DOMAIN NumberOf : o.id = <<n>> /\ p.id = <<m>>
      BY DEF Stage, Stands
    <3>4. n \in Nat /\ m \in Nat
      BY MigrationAssumption
    <3> QED
      BY <2>2, <3>2, <3>3, <3>4
  <2>6. CASE ~(o \in Rekeyed(O) /\ p \in Rekeyed(O))
    <3> HIDE DEF new
    <3> QED
      BY <1>2, <2>1, <2>2, <2>3, <2>4, <2>6
  <2> QED
    BY <2>5, <2>6
<1> HIDE DEF new, P
<1>3. Headed(P, L)
  <2>1. LinesKnown(L) /\ \A l \in L : \E o \in O : o.id = l.order
    BY DEF Stage, Headed
  <2>2. \A l \in L : \E p \in P : p.id = l.order
    BY <1>0, <1>1, <2>1
  <2>3. \A o, p \in O : o.id = p.id => o = p
    BY DEF Stage, Headed
  <2>4. \A q, r \in P : (q.id = r.id => q = r) /\ (q.key = r.key => q = r)
    BY <1>0, <1>1, <1>2, <2>3
  <2> QED
    BY <2>1, <2>2, <2>4 DEF Headed
<1>4. \A p \in P : \E o \in O : /\ SameHeader(p, o) /\ SameTotals(p, o)
                                /\ IsHeader(p) /\ p.key \in Seq(Parts)
  BY <1>0, <1>1
<1>5. \A o \in O : \E p \in P : p.id = o.id
  BY <1>0, <1>1
<1> QED
  BY <1>3, <1>4, <1>5 DEF P

(* So a renumbered ledger is one.                                            *)
LEMMA RenumberedStands ==
    ASSUME NEW O, NEW L, Stage(O, L), Renamable(O)
    PROVE  Stage(Renumbered(O), L)
           /\ ((\A o \in O : Speaks(o, Under(L, o.id))) => \A p \in Renumbered(O) : Speaks(p, Under(L, p.id)))
<1>1. Headed(Renumbered(O), L)
  BY RenumberedForm
<1>2. ASSUME NEW p \in Renumbered(O)
      PROVE  Stands(p, L) /\ ((\A o \in O : Speaks(o, Under(L, o.id))) => Speaks(p, Under(L, p.id)))
  <2>1. PICK o \in O : SameHeader(p, o) /\ SameTotals(p, o) /\ IsHeader(p) /\ p.key \in Seq(Parts)
    BY RenumberedForm
  <2>2. Stands(o, L) /\ p.id = o.id
    BY <2>1 DEF Stage, SameHeader
  <2>3. Adds(p, Under(L, p.id)) /\ Dated(p, Under(L, p.id)) /\ Attributed(p, Under(L, p.id))
    BY <2>1, <2>2, SaidOfEither DEF Stands
  <2>4. p.id \in {<<n>> : n \in DOMAIN NumberOf} /\ p.number = None
    BY <2>1, <2>2 DEF Stands, SameHeader
  <2>5. Speaks(o, Under(L, o.id)) => Speaks(p, Under(L, p.id))
    BY <2>1, <2>2, SaidOfEither
  <2> QED
    BY <2>1, <2>3, <2>4, <2>5 DEF Stands
<1> QED
  BY <1>1, <1>2 DEF Stage

(* What stays of a known ledger is known.                                    *)
LEMMA SurvivorsKnown ==
    ASSUME NEW O, NEW L, Headed(O, L)
    PROVE  Headed(O, Survivors(O, L)) /\ Survivors(O, L) \subseteq L
<1>1. Survivors(O, L) \subseteq L
  BY DEF Survivors
<1>2. LinesKnown(Survivors(O, L))
  BY <1>1, FS_Subset DEF Headed, LinesKnown
<1> QED
  BY <1>1, <1>2 DEF Headed

-----------------------------------------------------------------------------
(* Migration 17.                                                             *)

IsRows(d) == d = [lines |-> d.lines, orders |-> d.orders, owner |-> d.owner]
Retotalled(O, S, gone) == {IF o.id \in gone THEN Totals(o, S) ELSE o : o \in O}
Ids(L) == {l.id : l \in L}

(* No line goes but one that has an equal in a newer upload that stays.      *)
EqualSales(l, k) ==
    /\ Year(l.day) = Year(k.day) /\ l.order = k.order
    /\ l.product = k.product /\ l.ret = k.ret /\ l.money = k.money
LinesKept(L, M) ==
    /\ Ids(M) \subseteq Ids(L)
    /\ \A l \in L : l.id \notin Ids(M) =>
         \E k \in L : /\ EqualSales(l, k) /\ k.batch > l.batch
                      /\ \A j \in L : EqualSales(j, k) /\ j.batch = k.batch => j.id \in Ids(M)

(* The identities are of the lines' own orders.                              *)
UidsRight(O, L) ==
    /\ \A l, k \in L : l.uid = k.uid => l = k
    /\ \A l \in L : \E o \in O : o.id = l.order /\ l.uid[1] = <<Year(l.day), o.key, l.product, l.ret>>

(* Identified anew, they are.                                                *)
LEMMA IdentifiedUids ==
    ASSUME NEW O, NEW S, Headed(O, S), NEW M, M = Identified(O, S)
    PROVE  UidsRight(O, M) /\ Resembles(S, M)
<1>1. LinesKnown(S)
  BY DEF Headed
<1>2. /\ LinesKnown(M)
      /\ \A k \in M : \E l \in S : SameSale(k, l) /\ k.order = l.order /\ k.uid = Uid(O, S, l)
      /\ \A l \in S : \E k \in M : SameSale(k, l) /\ k.order = l.order /\ k.uid = Uid(O, S, l)
  BY <1>1, IdentifiedForm
<1>3. Resembles(S, M)
  BY <1>1, <1>2 DEF Resembles
<1>4. ASSUME NEW k \in M, NEW j \in M, k.uid = j.uid
      PROVE  k = j
  <2>1. PICK l \in S, i \in S : SameSale(k, l) /\ k.uid = Uid(O, S, l) /\ SameSale(j, i) /\ j.uid = Uid(O, S, i)
    BY <1>2
  <2>2. l = i
    BY <1>1, <1>4, <2>1, IdentitiesDiffer
  <2> QED
    BY <1>2, <2>1, <2>2 DEF SameSale, LinesKnown
<1>5. ASSUME NEW k \in M
      PROVE  \E o \in O : o.id = k.order /\ k.uid[1] = <<Year(k.day), o.key, k.product, k.ret>>
  <2>1. PICK l \in S : SameSale(k, l) /\ k.order = l.order /\ k.uid = Uid(O, S, l)
    BY <1>2
  <2>2. PICK o \in O : o = HeaderOf(O, l) /\ o.id = l.order
    BY HeaderOfIs
  <2>3. k.uid[1] = <<Year(l.day), o.key, l.product, l.ret>>
    BY <2>1, <2>2, GroupForm DEF Uid
  <2> QED
    BY <2>1, <2>2, <2>3 DEF SameSale
<1> QED
  BY <1>3, <1>4, <1>5 DEF UidsRight

(* Every line is one there was.                                              *)
Descends(M, L) == \A k \in M : \E l \in L : SameSale(k, l) /\ k.order[1] = l.order[1]

(* What migration 17 makes of the rows.                                      *)
LEMMA LineIdentityForm ==
    ASSUME NEW d, IsRows(d), NEW e, e = LineIdentity(d)
    PROVE  LET O == Renumbered(d.orders)
               S == Survivors(O, d.lines) IN
           /\ IsRows(e) /\ e.owner = d.owner /\ e.lines = Identified(O, S)
           /\ e.orders = Retotalled(O, S, {l.order : l \in d.lines \ S})
<1> DEFINE O == Renumbered(d.orders)
           S == Survivors(O, d.lines)
           N == Retotalled(O, S, {l.order : l \in d.lines \ S})
           M == Identified(O, S)
<1>1. LineIdentity(d) = [d EXCEPT !.lines = M, !.orders = N]
  BY DEF LineIdentity, Retotalled
<1> HIDE DEF M, N
<1>2. [d EXCEPT !.lines = M, !.orders = N] = [[d EXCEPT !.lines = M] EXCEPT !.orders = N]
  OBVIOUS
<1>3. PICK d1 : d1 = [d EXCEPT !.lines = M]
  OBVIOUS
<1>4. d1 = [lines |-> M, orders |-> d.orders, owner |-> d.owner]
  BY <1>3 DEF IsRows
<1>5. e = [d1 EXCEPT !.orders = N]
  BY <1>1, <1>2, <1>3
<1>6. e = [lines |-> M, orders |-> N, owner |-> d.owner]
  BY <1>4, <1>5
<1> QED
  BY <1>6 DEF IsRows, M, N

(* What is said of the headers when lines have gone.                         *)
LEMMA RetotalledStand ==
    ASSUME NEW O, NEW L, Stage(O, L), NEW S, S = Survivors(O, L),
           NEW gone, gone = {l.order : l \in L \ S},
           NEW o \in O, NEW p, p = IF o.id \in gone THEN Totals(o, S) ELSE o
    PROVE  /\ SameHeader(p, o) /\ IsHeader(p) /\ p.key = o.key
           /\ Adds(p, Under(S, o.id)) /\ Dated(p, Under(S, o.id)) /\ Attributed(p, Under(S, o.id))
<1>1. IsHeader(o) /\ Adds(o, Under(L, o.id)) /\ Dated(o, Under(L, o.id)) /\ Attributed(o, Under(L, o.id))
  BY DEF Stage, Stands
<1>2. Headed(O, L) /\ S \subseteq L
  BY SurvivorsKnown DEF Stage
<1>3. Dated(o, Under(S, o.id)) /\ Attributed(o, Under(S, o.id))
  BY <1>1, <1>2, StaysFounded
<1>4. SameHeader(p, o) /\ IsHeader(p) /\ p.key = o.key
  <2>1. CASE o.id \in gone
    BY <1>1, <2>1, TotalsForm DEF SameHeader
  <2>2. CASE o.id \notin gone
    BY <1>1, <2>2 DEF SameHeader
  <2> QED
    BY <2>1, <2>2
<1>5. Adds(p, Under(S, o.id))
  <2>1. CASE o.id \in gone
    BY <1>1, <2>1, TotalsForm
  <2>2. CASE o.id \notin gone
    <3>1. Under(S, o.id) = Under(L, o.id)
      BY <1>2, <2>2 DEF Under
    <3> QED
      BY <1>1, <2>2, <3>1
  <2> QED
    BY <2>1, <2>2
<1> QED
  BY <1>3, <1>4, <1>5, SaidOfEither

(* The rows it leaves stand, and no sale is lost.                            *)
LEMMA LineIdentityKeeps ==
    ASSUME NEW d, IsRows(d), Stage(d.orders, d.lines), Renamable(d.orders),
           \A o \in d.orders : Speaks(o, Under(d.lines, o.id)),
           NEW e, e = LineIdentity(d)
    PROVE  /\ IsRows(e) /\ e.owner = d.owner
           /\ Stage(e.orders, e.lines) /\ UidsRight(e.orders, e.lines)
           /\ LinesKept(d.lines, e.lines) /\ Descends(e.lines, d.lines)
           /\ \A p \in e.orders :
                 /\ Speaks(p, Under(d.lines, p.id))
                 /\ (\A l \in Under(d.lines, p.id) : l.id \in Ids(e.lines)) => Speaks(p, Under(e.lines, p.id))
<1> DEFINE O == Renumbered(d.orders)
           L == d.lines
           S == Survivors(O, L)
           gone == {l.order : l \in L \ S}
           M == Identified(O, S)
           new(o) == IF o.id \in gone THEN Totals(o, S) ELSE o
<1>1. IsRows(e) /\ e.owner = d.owner /\ e.lines = M /\ e.orders = {new(o) : o \in O}
  BY LineIdentityForm DEF Retotalled
<1>2. Stage(O, L) /\ \A p \in O : Speaks(p, Under(L, p.id))
  BY RenumberedStands
<1>3. Headed(O, L) /\ Headed(O, S) /\ S \subseteq L /\ LinesKnown(L) /\ LinesKnown(S)
  BY <1>2, SurvivorsKnown DEF Stage, Headed
<1>4. /\ LinesKnown(M)
      /\ \A k \in M : \E l \in S : SameSale(k, l) /\ k.order = l.order /\ k.uid = Uid(O, S, l)
      /\ \A l \in S : \E k \in M : SameSale(k, l) /\ k.order = l.order /\ k.uid = Uid(O, S, l)
  <2> HIDE DEF S, O
  <2> QED
    BY <1>3, IdentifiedForm
<1>5. Resembles(S, M)
  BY <1>3, <1>4 DEF Resembles
<1>6. ASSUME NEW o \in O
      PROVE  /\ SameHeader(new(o), o) /\ IsHeader(new(o)) /\ new(o).key = o.key /\ new(o).id = o.id
             /\ Adds(new(o), Under(S, o.id)) /\ Dated(new(o), Under(S, o.id)) /\ Attributed(new(o), Under(S, o.id))
  <2>1. PICK p : p = new(o)
    OBVIOUS
  <2>2. p = IF o.id \in gone THEN Totals(o, S) ELSE o
    BY <2>1
  <2>3. /\ SameHeader(p, o) /\ IsHeader(p) /\ p.key = o.key
        /\ Adds(p, Under(S, o.id)) /\ Dated(p, Under(S, o.id)) /\ Attributed(p, Under(S, o.id))
    <3>1. PICK s, g : s = S /\ g = gone
      OBVIOUS
    <3>2. s = Survivors(O, L) /\ g = {l.order : l \in L \ s} /\ p = IF o.id \in g THEN Totals(o, s) ELSE o
      BY <2>2, <3>1
    <3> HIDE DEF O, L, S, gone, new
    <3>3. /\ SameHeader(p, o) /\ IsHeader(p) /\ p.key = o.key
          /\ Adds(p, Under(s, o.id)) /\ Dated(p, Under(s, o.id)) /\ Attributed(p, Under(s, o.id))
      BY <1>2, <3>2, RetotalledStand
    <3> QED
      BY <3>1, <3>3
  <2> QED
    BY <2>1, <2>3 DEF SameHeader
<1> HIDE DEF new, gone
<1>7. ASSUME NEW o \in O
      PROVE  Stands(new(o), M)
  <2>1. new(o).id = o.id /\ new(o).number = o.number /\ IsHeader(new(o)) /\ new(o).key = o.key
    BY <1>6 DEF SameHeader
  <2>2. o.id \in {<<n>> : n \in DOMAIN NumberOf} /\ o.key \in Seq(Parts) /\ o.number = None
    BY <1>2 DEF Stage, Stands
  <2>3. Adds(new(o), Under(M, o.id)) /\ Dated(new(o), Under(M, o.id)) /\ Attributed(new(o), Under(M, o.id))
    <3> HIDE DEF M, S
    <3> QED
      BY <1>5, <1>6, <2>1, StandsOnEither
  <2> QED
    BY <2>1, <2>2, <2>3 DEF Stands
<1> HIDE DEF S
<1>8. Headed(e.orders, M)
  <2>1. \A l \in M : \E o \in O : o.id = l.order
    BY <1>3, <1>4 DEF Headed
  <2>2. \A l \in M : \E p \in e.orders : p.id = l.order
    BY <1>1, <1>6, <2>1
  <2>3. \A o, p \in O : (o.id = p.id => o = p) /\ (o.key = p.key => o = p)
    BY <1>3 DEF Headed
  <2>4. \A p, q \in e.orders : (p.id = q.id => p = q) /\ (p.key = q.key => p = q)
    BY <1>1, <1>6, <2>3
  <2> QED
    BY <1>4, <2>2, <2>4 DEF Headed
<1>9. Stage(e.orders, e.lines)
  BY <1>1, <1>7, <1>8 DEF Stage
<1>10. UidsRight(e.orders, M)
  <2>1. UidsRight(O, M)
    BY <1>3, IdentifiedUids
  <2>2. \A o \in O : new(o) \in e.orders /\ new(o).id = o.id /\ new(o).key = o.key
    BY <1>1, <1>6
  <2> HIDE DEF M, O
  <2>3. ASSUME NEW k \in M
        PROVE  \E p \in e.orders : p.id = k.order /\ k.uid[1] = <<Year(k.day), p.key, k.product, k.ret>>
    <3>1. PICK o \in O : o.id = k.order /\ k.uid[1] = <<Year(k.day), o.key, k.product, k.ret>>
      BY <2>1 DEF UidsRight
    <3> QED
      BY <2>2, <3>1
  <2> QED
    BY <2>1, <2>3 DEF UidsRight
<1>11. \A l \in L : l.id \in Ids(M) <=> l \in S
  <2>1. \A l \in S : l.id \in Ids(M)
    BY <1>4 DEF Ids, SameSale
  <2>2. ASSUME NEW l \in L, l.id \in Ids(M) PROVE l \in S
    <3>1. PICK k \in M : k.id = l.id
      BY <2>2 DEF Ids
    <3>2. PICK i \in S : SameSale(k, i)
      BY <1>4
    <3> QED
      BY <1>3, <3>1, <3>2 DEF SameSale, LinesKnown
  <2> QED
    BY <2>1, <2>2
<1>12. LinesKept(L, M)
  <2>1. Ids(M) \subseteq Ids(L)
    BY <1>3, <1>4 DEF Ids, SameSale
  <2>2. \A l, k \in L : Twins(O, l, k) <=> EqualSales(l, k)
    <3> HIDE DEF O, L
    <3> QED
      BY <1>3, TwinsShareOrder DEF EqualSales
  <2>3. ASSUME NEW l \in L, l.id \notin Ids(M)
        PROVE  \E k \in L : /\ EqualSales(l, k) /\ k.batch > l.batch
                            /\ \A j \in L : EqualSales(j, k) /\ j.batch = k.batch => j.id \in Ids(M)
    <3>1. l \notin S
      BY <1>11, <2>3
    <3>2. PICK k \in S : /\ Twins(O, l, k) /\ (l \notin S => l.batch < k.batch)
                         /\ \A j \in L : Twins(O, j, k) /\ j.batch = k.batch => j \in S
      <4> HIDE DEF O, L
      <4> QED
        BY <1>3, NewestSurvive DEF S
    <3>3. k \in L /\ k.batch > l.batch
      BY <1>3, <3>1, <3>2 DEF LinesKnown, IsLine
    <3> QED
      BY <1>11, <2>2, <3>2, <3>3
  <2> QED
    BY <2>1, <2>3 DEF LinesKept
<1>13. ASSUME NEW p \in e.orders
       PROVE  /\ Speaks(p, Under(L, p.id))
              /\ (\A l \in Under(L, p.id) : l.id \in Ids(M)) => Speaks(p, Under(M, p.id))
  <2>1. PICK o \in O : p = new(o)
    BY <1>1
  <2>2. SameHeader(p, o) /\ p.id = o.id
    BY <1>6, <2>1
  <2>3. Speaks(p, Under(L, p.id))
    BY <1>2, <2>2, SaidOfEither
  <2>4. ASSUME \A l \in Under(L, p.id) : l.id \in Ids(M)
        PROVE  Speaks(p, Under(M, p.id))
    <3>1. Under(S, p.id) = Under(L, p.id)
      BY <1>3, <1>11, <2>4 DEF Under
    <3>2. Speaks(p, Under(S, p.id))
      BY <2>3, <3>1
    <3> HIDE DEF M
    <3> QED
      BY <1>5, <3>2, StandsOnEither
  <2> QED
    BY <2>3, <2>4
<1>14. Descends(M, L)
  BY <1>3, <1>4 DEF Descends
<1> HIDE DEF M, O
<1> QED
  BY <1>1, <1>9, <1>10, <1>12, <1>13, <1>14

-----------------------------------------------------------------------------
(* Migration 18.                                                             *)

(* A header that has been given a year.                                      *)
Rewritten(o, i, k, p, n, b) ==
    [id |-> i, key |-> k, period |-> p, number |-> n, gross |-> o.gross, returns |-> o.returns, count |-> o.count,
     date |-> o.date, customer |-> o.customer, branch |-> b, batch |-> o.batch]
WithYear(o, k, p, n, b) == [o EXCEPT !.key = k, !.period = p, !.number = n, !.branch = b]
WithYearAs(o, i, k, p, n, b) == [o EXCEPT !.id = i, !.key = k, !.period = p, !.number = n, !.branch = b]
(* Its fields.                                                               *)
LEMMA RewrittenForm ==
    ASSUME NEW o, IsHeader(o), NEW i, NEW k, NEW p, NEW n, NEW b
    PROVE  /\ WithYear(o, k, p, n, b) = Rewritten(o, o.id, k, p, n, b)
           /\ WithYearAs(o, i, k, p, n, b) = Rewritten(o, i, k, p, n, b)
<1> DEFINE v(a, c, d, e, f) == Rewritten(o, a, c, d, e, f)
<1>1. o = v(o.id, o.key, o.period, o.number, o.branch)
  BY DEF IsHeader, Rewritten
<1>2. /\ \A a, c, d, e, f : [v(a, c, d, e, f) EXCEPT !.id = i] = v(i, c, d, e, f)
      /\ \A a, c, d, e, f : [v(a, c, d, e, f) EXCEPT !.key = k] = v(a, k, d, e, f)
      /\ \A a, c, d, e, f : [v(a, c, d, e, f) EXCEPT !.period = p] = v(a, c, p, e, f)
      /\ \A a, c, d, e, f : [v(a, c, d, e, f) EXCEPT !.number = n] = v(a, c, d, n, f)
      /\ \A a, c, d, e, f : [v(a, c, d, e, f) EXCEPT !.branch = b] = v(a, c, d, e, b)
  BY DEF Rewritten
<1>3. ASSUME NEW w, NEW j, w = v(j, o.key, o.period, o.number, o.branch)
      PROVE  [w EXCEPT !.key = k, !.period = p, !.number = n, !.branch = b] = v(j, k, p, n, b)
  <2>1. [w EXCEPT !.key = k, !.period = p, !.number = n, !.branch = b]
        = [[[[w EXCEPT !.key = k] EXCEPT !.period = p] EXCEPT !.number = n] EXCEPT !.branch = b]
    OBVIOUS
  <2> HIDE DEF v
  <2>2. PICK w1 : w1 = [w EXCEPT !.key = k]
    OBVIOUS
  <2>3. PICK w2 : w2 = [w1 EXCEPT !.period = p]
    OBVIOUS
  <2>4. PICK w3 : w3 = [w2 EXCEPT !.number = n]
    OBVIOUS
  <2>5. w1 = v(j, k, o.period, o.number, o.branch)
    BY <1>2, <1>3, <2>2
  <2>6. w2 = v(j, k, p, o.number, o.branch)
    BY <1>2, <2>3, <2>5
  <2>7. w3 = v(j, k, p, n, o.branch)
    BY <1>2, <2>4, <2>6
  <2>8. [w3 EXCEPT !.branch = b] = v(j, k, p, n, b)
    BY <1>2, <2>7
  <2>9. [[[[w EXCEPT !.key = k] EXCEPT !.period = p] EXCEPT !.number = n] EXCEPT !.branch = b] = [w3 EXCEPT !.branch = b]
    BY <2>2, <2>3, <2>4
  <2> QED
    BY <2>1, <2>8, <2>9
<1>4. PICK w0 : w0 = [o EXCEPT !.id = i]
  OBVIOUS
<1>5. [o EXCEPT !.id = i, !.key = k, !.period = p, !.number = n, !.branch = b]
      = [w0 EXCEPT !.key = k, !.period = p, !.number = n, !.branch = b]
  <2>1. [o EXCEPT !.id = i, !.key = k, !.period = p, !.number = n, !.branch = b]
        = [[o EXCEPT !.id = i] EXCEPT !.key = k, !.period = p, !.number = n, !.branch = b]
    OBVIOUS
  <2> QED
    BY <1>4, <2>1
<1> HIDE DEF v
<1>6. w0 = v(i, o.key, o.period, o.number, o.branch)
  BY <1>1, <1>2, <1>4
<1>7. [w0 EXCEPT !.key = k, !.period = p, !.number = n, !.branch = b] = v(i, k, p, n, b)
  BY <1>3, <1>6
<1>8. [o EXCEPT !.key = k, !.period = p, !.number = n, !.branch = b] = v(o.id, k, p, n, b)
  BY <1>1, <1>3
<1> QED
  BY <1>5, <1>7, <1>8 DEF v, WithYear, WithYearAs

(* The years of a header's lines begin with the one of its date.             *)
LEMMA FirstYearIs ==
    ASSUME NEW O, NEW L, Stage(O, L), NEW o \in O
    PROVE  /\ Min(Years(L, o.id)) = Year(o.date) /\ Year(o.date) \in Years(L, o.id)
           /\ IsFiniteSet(Years(L, o.id))
           /\ \A y \in Years(L, o.id) : y \in Int /\ y \in Parts /\ Year(o.date) <= y
<1> DEFINE mine == Under(L, o.id)
           Y == Years(L, o.id)
<1>1. Y = {Year(l.day) : l \in mine}
  BY DEF Years
<1>2. \A l \in mine : Year(l.day) \in Int /\ Year(l.day) \in Parts
  BY DEF Stage, Headed, LinesKnown, IsLine, Under
<1>3. Dated(o, mine)
  BY DEF Stage, Stands
<1>4. IsFiniteSet(Y)
  <2>1. IsFiniteSet(mine)
    BY FS_Subset DEF Stage, Headed, LinesKnown, Under
  <2>2. [l \in mine |-> Year(l.day)] \in Surjection(mine, {Year(l.day) : l \in mine})
    BY DEF Surjection
  <2> HIDE DEF mine, Y
  <2> QED
    BY <1>1, <2>1, <2>2, FS_Surjection
<1>5. Year(o.date) \in Y /\ \A y \in Y : y \in Int /\ y \in Parts /\ Year(o.date) <= y
  BY <1>1, <1>2, <1>3 DEF Dated
<1> HIDE DEF Y
<1>6. Min(Y) \in Y /\ \A y \in Y : Min(Y) <= y
  BY <1>5 DEF Min
<1>7. Min(Y) = Year(o.date)
  BY <1>5, <1>6
<1> QED
  BY <1>4, <1>5, <1>7 DEF Y

(* The year its branch belongs to.                                           *)
LEMMA AttributeYearIs ==
    ASSUME NEW O, NEW L, Stage(O, L), NEW o \in O
    PROVE  /\ o.branch \in Years(L, o.id)
           /\ AttributeYear(o, L) = o.branch
<1> DEFINE mine == Under(L, o.id)
           last == {l \in mine : l.batch = o.batch}
<1>1. Attributed(o, mine)
  BY DEF Stage, Stands
<1>2. PICK x \in mine : /\ x.batch = o.batch /\ o.branch = Year(x.day)
                        /\ \A k \in mine : k.batch <= o.batch /\ (k.batch = o.batch => Earlier(x, k))
  BY <1>1 DEF Attributed
<1>3. x \in last /\ \A k \in last : Earlier(x, k)
  BY <1>2
<1>4. Ordered(last) /\ \A a, b \in last : a.id = b.id => a = b
  BY FS_Subset DEF Stage, Headed, LinesKnown, IsLine, Under, Ordered
<1>5. First(last) = x
  <2> HIDE DEF last
  <2> QED
    BY <1>3, <1>4, FirstIs
<1>6. o.branch \in Years(L, o.id)
  BY <1>2 DEF Years
<1>7. Cardinality(Years(L, o.id)) = 1 => o.branch = Min(Years(L, o.id))
  <2> SUFFICES ASSUME Cardinality(Years(L, o.id)) = 1
               PROVE  o.branch = Min(Years(L, o.id))
    OBVIOUS
  <2>1. IsFiniteSet(Years(L, o.id)) /\ Min(Years(L, o.id)) = Year(o.date) /\ Year(o.date) \in Years(L, o.id)
    BY FirstYearIs
  <2>2. \E z : Years(L, o.id) = {z}
    BY <2>1, FS_Singleton
  <2> QED
    BY <1>6, <2>1, <2>2
<1>8. AttributeYear(o, L) = IF Cardinality(Years(L, o.id)) = 1 \/ last = {} THEN Min(Years(L, o.id)) ELSE Year(First(last).day)
  BY DEF AttributeYear
<1> HIDE DEF last
<1> QED
  BY <1>2, <1>3, <1>5, <1>6, <1>7, <1>8

(* What is left to a header.                                                 *)
LEMMA KeptForm ==
    ASSUME NEW O, NEW L, Stage(O, L), NEW o \in O, NEW h, h = Kept(O, L, o)
    PROVE  /\ IsHeader(h) /\ h.id = o.id /\ h.number = o.key /\ h.period = Year(o.date)
           /\ h.date = o.date /\ h.customer = o.customer
           /\ h.gross = o.gross /\ h.returns = o.returns /\ h.count = o.count
           /\ h.branch = IF o.branch = Year(o.date) THEN o.branch ELSE None
<1>1. IsHeader(o)
  BY DEF Stage, Stands
<1>2. Min(Years(L, o.id)) = Year(o.date) /\ AttributeYear(o, L) = o.branch
  BY FirstYearIs, AttributeYearIs
<1>3. PICK y : y = Year(o.date)
  OBVIOUS
<1>4. PICK k : k = IF Keyed(o, y) \in {p.key : p \in O} THEN o.key ELSE Keyed(o, y)
  OBVIOUS
<1>5. PICK b : b = IF o.branch = y THEN o.branch ELSE None
  OBVIOUS
<1>6. h = WithYear(o, k, y, o.key, b)
  BY <1>2, <1>3, <1>4, <1>5 DEF Kept, WithYear
<1>7. h = Rewritten(o, o.id, k, y, o.key, b)
  BY <1>1, <1>6, RewrittenForm
<1> QED
  BY <1>3, <1>5, <1>7 DEF Rewritten, IsHeader

(* What goes to a header of its own.                                         *)
LEMMA FreshForm ==
    ASSUME NEW O, NEW L, Stage(O, L), NEW o \in O, NEW y, NEW h, h = Fresh(o, L, y)
    PROVE  /\ IsHeader(h) /\ h.id = o.id \o <<y>> /\ h.number = o.key /\ h.period = y
           /\ h.branch = IF o.branch = y THEN o.branch ELSE None
<1>1. IsHeader(o)
  BY DEF Stage, Stands
<1>2. AttributeYear(o, L) = o.branch
  BY AttributeYearIs
<1>3. PICK k : k = Keyed(o, y)
  OBVIOUS
<1>4. PICK b : b = IF o.branch = y THEN o.branch ELSE None
  OBVIOUS
<1>5. PICK i : i = o.id \o <<y>>
  OBVIOUS
<1>6. h = WithYearAs(o, i, k, y, o.key, b)
  BY <1>2, <1>3, <1>4, <1>5 DEF Fresh, WithYearAs
<1>7. h = Rewritten(o, i, k, y, o.key, b)
  BY <1>1, <1>6, RewrittenForm
<1> QED
  BY <1>4, <1>5, <1>7 DEF Rewritten, IsHeader

(* Lines one can add up and order.                                           *)
Usable(M) ==
    /\ IsFiniteSet(M)
    /\ \A l \in M : l.id \in Nat /\ l.ret \in BOOLEAN /\ l.day \in Int /\ l.money \in Int /\ Year(l.day) \in Int
    /\ \A l, k \in M : /\ l.id = k.id => l = k
                       /\ l.day <= k.day => Year(l.day) <= Year(k.day)

(* A header with another date and customer.                                  *)
WithSaid(t, a, b) == [t EXCEPT !.date = a, !.customer = b]
(* It is the same otherwise.                                                 *)
LEMMA SaidForm ==
    ASSUME NEW t, IsHeader(t), NEW a, NEW b, NEW r, r = WithSaid(t, a, b)
    PROVE  /\ IsHeader(r) /\ r.date = a /\ r.customer = b
           /\ r.id = t.id /\ r.key = t.key /\ r.period = t.period /\ r.number = t.number
           /\ r.gross = t.gross /\ r.returns = t.returns /\ r.count = t.count
           /\ r.branch = t.branch /\ r.batch = t.batch
<1> DEFINE v(x, y) ==
        [id |-> t.id, key |-> t.key, period |-> t.period, number |-> t.number, gross |-> t.gross, returns |-> t.returns,
         count |-> t.count, date |-> x, customer |-> y, branch |-> t.branch, batch |-> t.batch]
<1>1. t = v(t.date, t.customer)
  BY DEF IsHeader
<1>2. /\ \A x, y : [v(x, y) EXCEPT !.date = a] = v(a, y)
      /\ \A x, y : [v(x, y) EXCEPT !.customer = b] = v(x, b)
  OBVIOUS
<1>3. r = [[t EXCEPT !.date = a] EXCEPT !.customer = b]
  BY DEF WithSaid
<1>4. PICK s : s = [t EXCEPT !.date = a]
  OBVIOUS
<1>5. r = v(a, b)
  <2> HIDE DEF v
  <2>1. s = v(a, t.customer)
    BY <1>1, <1>2, <1>4
  <2>2. r = [s EXCEPT !.customer = b]
    BY <1>3, <1>4
  <2> QED
    BY <1>2, <2>1, <2>2
<1>6. /\ IsHeader(v(a, b)) /\ v(a, b).date = a /\ v(a, b).customer = b
      /\ v(a, b).id = t.id /\ v(a, b).key = t.key /\ v(a, b).period = t.period /\ v(a, b).number = t.number
      /\ v(a, b).gross = t.gross /\ v(a, b).returns = t.returns /\ v(a, b).count = t.count
      /\ v(a, b).branch = t.branch /\ v(a, b).batch = t.batch
  BY DEF IsHeader
<1> HIDE DEF v
<1> QED
  BY <1>5, <1>6

(* The first day of some lines is in their first year.                       *)
LEMMA FirstDayIs ==
    ASSUME NEW M, Usable(M), NEW mine, mine \subseteq M, mine # {}
    PROVE  /\ Min({l.day : l \in mine}) \in {l.day : l \in mine}
           /\ \A l \in mine : Min({k.day : k \in mine}) <= l.day
           /\ Year(Min({l.day : l \in mine})) = Min({Year(l.day) : l \in mine})
<1> DEFINE f == [l \in M |-> -l.day]
           days == {l.day : l \in mine}
           years == {Year(l.day) : l \in mine}
<1>1. IsFiniteSet(mine) /\ \A l \in mine : f[l] \in Int
  BY FS_Subset DEF Usable
<1>2. PICK x \in mine : \A l \in mine : f[l] <= f[x]
  <2> HIDE DEF f
  <2> QED
    BY <1>1, FiniteHasGreatest
<1>3. \A l \in mine : x.day \in Int /\ l.day \in Int /\ x.day <= l.day
  <2>1. \A l \in mine : l.day \in Int /\ f[l] = -l.day
    BY DEF Usable
  <2> HIDE DEF f
  <2> QED
    BY <1>2, <2>1
<1>4. Min(days) \in days /\ \A z \in days : Min(days) <= z
  BY <1>3 DEF Min
<1>5. Min(days) = x.day
  <2>1. x.day \in days /\ \A z \in days : z \in Int /\ x.day <= z
    BY <1>3
  <2> HIDE DEF days
  <2> QED
    BY <1>4, <2>1
<1>6. \A y \in years : y \in Int /\ Year(x.day) <= y
  BY <1>3 DEF Usable
<1>7. Year(x.day) \in years
  OBVIOUS
<1>8. Min(years) = Year(x.day)
  <2> HIDE DEF years
  <2>1. Min(years) \in years /\ \A y \in years : Min(years) <= y
    BY <1>6, <1>7 DEF Min
  <2> QED
    BY <1>6, <1>7, <2>1
<1> QED
  BY <1>3, <1>4, <1>5, <1>8

(* A header whose totals, date and customer are taken from its lines.        *)
ComputedOf(r, h, M) ==
    /\ IsHeader(r) /\ Adds(r, Under(M, h.id)) /\ Speaks(r, Under(M, h.id))
    /\ r.id = h.id /\ r.key = h.key /\ r.period = h.period /\ r.number = h.number
    /\ r.branch = h.branch /\ r.batch = h.batch
    /\ Year(r.date) = Min({Year(l.day) : l \in Under(M, h.id)})
    /\ \A l \in Under(M, h.id) : r.date <= l.day
(* That is what Recomputed is.                                               *)
LEMMA RecomputedHolds ==
    ASSUME NEW h, IsHeader(h), NEW M, Usable(M), Under(M, h.id) # {}, NEW r, r = Recomputed(h, M)
    PROVE  ComputedOf(r, h, M)
<1> DEFINE mine == Under(M, h.id)
           known == {l \in mine : l.customer # None}
<1>1. PICK t, a, b : /\ t = Totals(h, M) /\ a = Min({l.day : l \in mine})
                     /\ b = IF known = {} THEN None ELSE First(known).customer
  OBVIOUS
<1>2. r = WithSaid(t, a, b)
  BY <1>1 DEF Recomputed, WithSaid
<1>3. /\ IsHeader(t) /\ Adds(t, mine)
      /\ t.id = h.id /\ t.key = h.key /\ t.period = h.period /\ t.number = h.number /\ t.branch = h.branch /\ t.batch = h.batch
  BY <1>1, TotalsForm
<1>4. /\ IsHeader(r) /\ r.date = a /\ r.customer = b
      /\ r.id = t.id /\ r.key = t.key /\ r.period = t.period /\ r.number = t.number
      /\ r.gross = t.gross /\ r.returns = t.returns /\ r.count = t.count
      /\ r.branch = t.branch /\ r.batch = t.batch
  BY <1>2, <1>3, SaidForm
<1>5. mine \subseteq M /\ mine # {}
  BY DEF Under
<1>6. /\ a \in {l.day : l \in mine} /\ \A l \in mine : a <= l.day
      /\ Year(a) = Min({Year(l.day) : l \in mine})
  <2> HIDE DEF mine
  <2> QED
    BY <1>1, <1>5, FirstDayIs
<1>7. b # None => \E l \in mine : l.customer = b
  <2> SUFFICES ASSUME b # None PROVE \E l \in mine : l.customer = b
    OBVIOUS
  <2>1. known # {} /\ b = First(known).customer
    BY <1>1
  <2>2. Ordered(known) /\ \A l, k \in known : l.id = k.id => l = k
    BY <1>5, FS_Subset DEF Usable, Ordered
  <2>3. First(known) \in known
    <3> HIDE DEF known
    <3> QED
      BY <2>1, <2>2, FirstIsFound
  <2> QED
    BY <2>1, <2>3
<1>8. Adds(r, mine)
  BY <1>3, <1>4 DEF Adds
<1>9. Speaks(r, mine)
  BY <1>4, <1>6, <1>7 DEF Speaks
<1> HIDE DEF mine
<1> QED
  BY <1>3, <1>4, <1>6, <1>8, <1>9 DEF mine, ComputedOf

(* Where a line goes, and the headers there are then.                        *)
Goes(O, L, l) == Year(l.day) \in SplitYears(O, L, HeaderOf(O, l))
PlaceAt(O, L, l) == IF Goes(O, L, l) THEN l.order \o <<Year(l.day)>> ELSE l.order
WithOrder(l, x) == [l EXCEPT !.order = x]
Moved(O, L) == {WithOrder(l, PlaceAt(O, L, l)) : l \in L}
Headers(O, L) == {Kept(O, L, o) : o \in O} \cup UNION {{Fresh(o, L, y) : y \in SplitYears(O, L, o)} : o \in O}

(* What becomes of the rows.                                                 *)
LEMMA HeaderPeriodForm ==
    ASSUME NEW d, IsRows(d), Stage(d.orders, d.lines), NEW e, e = HeaderPeriod(d)
    PROVE  /\ IsRows(e) /\ e.owner = d.owner /\ e.lines = Moved(d.orders, d.lines)
           /\ e.orders = {IF o.id \in Touched(d.orders, d.lines) THEN Recomputed(o, e.lines) ELSE o :
                          o \in Headers(d.orders, d.lines)}
<1> DEFINE O == {o \in d.orders : o.number = None}
           of(l) == CHOOSE o \in d.orders : o.id = l.order
           moved == {IF of(l) \in O /\ Year(l.day) \in SplitYears(d.orders, d.lines, of(l))
                     THEN [l EXCEPT !.order = @ \o <<Year(l.day)>>] ELSE l : l \in d.lines}
           headers == {Kept(d.orders, d.lines, o) : o \in O}
                      \cup UNION {{Fresh(o, d.lines, y) : y \in SplitYears(d.orders, d.lines, o)} : o \in O}
           touched == Touched(d.orders, d.lines)
           N == (d.orders \ O) \cup {IF o.id \in touched THEN Recomputed(o, moved) ELSE o : o \in headers}
<1>1. e = [d EXCEPT !.lines = moved, !.orders = N]
  BY DEF HeaderPeriod
<1>2. O = d.orders
  BY DEF Stage, Stands
<1>3. headers = Headers(d.orders, d.lines)
  BY <1>2 DEF Headers
<1>4. moved = Moved(d.orders, d.lines)
  <2>1. ASSUME NEW l \in d.lines
        PROVE  (IF of(l) \in O /\ Year(l.day) \in SplitYears(d.orders, d.lines, of(l))
                THEN [l EXCEPT !.order = @ \o <<Year(l.day)>>] ELSE l)
               = WithOrder(l, PlaceAt(d.orders, d.lines, l))
    <3>1. of(l) \in O /\ of(l) = HeaderOf(d.orders, l)
      BY <1>2 DEF Stage, Headed, HeaderOf
    <3>2. IsLine(l)
      BY DEF Stage, Headed, LinesKnown
    <3>3. CASE Goes(d.orders, d.lines, l)
      <4>1. WithOrder(l, PlaceAt(d.orders, d.lines, l)) = [l EXCEPT !.order = @ \o <<Year(l.day)>>]
        BY <3>3 DEF PlaceAt, WithOrder
      <4> HIDE DEF of, O
      <4> QED
        BY <3>1, <3>3, <4>1 DEF Goes
    <3>4. CASE ~Goes(d.orders, d.lines, l)
      <4>1. WithOrder(l, PlaceAt(d.orders, d.lines, l)) = [l EXCEPT !.order = l.order]
        BY <3>4 DEF PlaceAt, WithOrder
      <4>2. [l EXCEPT !.order = l.order] = l
        <5>1. PICK x : x = l.order
          OBVIOUS
        <5>2. [l EXCEPT !.order = x] = [id |-> l.id, batch |-> l.batch, order |-> x, product |-> l.product, ret |-> l.ret,
                                        day |-> l.day, money |-> l.money, customer |-> l.customer, uid |-> l.uid]
          BY <3>2, LineForms
        <5> QED
          BY <3>2, <5>1, <5>2 DEF IsLine
      <4> HIDE DEF of, O
      <4> QED
        BY <3>1, <3>4, <4>1, <4>2 DEF Goes
    <3> QED
      BY <3>3, <3>4
  <2> HIDE DEF of, O
  <2> QED
    BY <2>1 DEF Moved
<1>5. N = {IF o.id \in touched THEN Recomputed(o, moved) ELSE o : o \in headers}
  BY <1>2
<1> HIDE DEF moved, headers, touched, O, N
<1>6. [d EXCEPT !.lines = moved, !.orders = N] = [[d EXCEPT !.lines = moved] EXCEPT !.orders = N]
  OBVIOUS
<1>7. PICK d1 : d1 = [d EXCEPT !.lines = moved]
  OBVIOUS
<1>8. d1 = [lines |-> moved, orders |-> d.orders, owner |-> d.owner]
  BY <1>7 DEF IsRows
<1>9. e = [d1 EXCEPT !.orders = N]
  BY <1>1, <1>6, <1>7
<1>10. e = [lines |-> moved, orders |-> N, owner |-> d.owner]
  BY <1>8, <1>9
<1>11. IsRows(e) /\ e.lines = moved /\ e.orders = N /\ e.owner = d.owner
  BY <1>10 DEF IsRows
<1>12. e.orders = {IF o.id \in touched THEN Recomputed(o, e.lines) ELSE o : o \in headers}
  BY <1>5, <1>11
<1> QED
  BY <1>3, <1>4, <1>11, <1>12 DEF touched

(* A pair of an order and a year.                                            *)
LEMMA PairForm ==
    /\ \A n, y : <<n>> \o <<y>> = <<n, y>>
    /\ \A n, m, y, z : <<n, y>> = <<m, z>> <=> n = m /\ y = z
    /\ \A n, m, y : <<n, y>> # <<m>>
    /\ \A n, m : <<n>> = <<m>> <=> n = m
<1>1. \A n, m, y, z : <<n, y>> = <<m, z>> <=> n = m /\ y = z
  OBVIOUS
<1>2. \A n, m, y : <<n, y>> # <<m>>
  OBVIOUS
<1>3. \A n, m : <<n>> = <<m>> <=> n = m
  OBVIOUS
<1>4. ASSUME NEW n, NEW y PROVE <<n>> \o <<y>> = <<n, y>>
  <2> DEFINE S == {n, y}
             s == <<n>>
             t == <<y>>
             u == <<n, y>>
  <2>1. s \in Seq(S) /\ t \in Seq(S) /\ u \in Seq(S) /\ Len(s) = 1 /\ Len(t) = 1 /\ Len(u) = 2
    OBVIOUS
  <2>2. s[1] = n /\ t[1] = y /\ u[1] = n /\ u[2] = y
    OBVIOUS
  <2> HIDE DEF S, s, t, u
  <2>3. /\ s \o t \in Seq(S) /\ Len(s \o t) = Len(s) + Len(t)
        /\ \A i \in 1 .. Len(s) + Len(t) : (s \o t)[i] = IF i <= Len(s) THEN s[i] ELSE t[i - Len(s)]
    <3>1. s \in Seq(S) /\ t \in Seq(S)
      BY <2>1
    <3> QED
      BY <3>1, ConcatProperties, Zenon
  <2>4. \A i \in 1 .. 2 : (s \o t)[i] = u[i]
    BY <2>1, <2>2, <2>3
  <2>5. s \o t = u
    BY <2>1, <2>3, <2>4, SeqEqual
  <2> QED
    BY <2>5 DEF s, t, u
<1> QED
  BY <1>1, <1>2, <1>3, <1>4

(* What moves stays the same sale, with its identity.                        *)
LEMMA MovedForm ==
    ASSUME NEW O, NEW L, LinesKnown(L), NEW M, M = Moved(O, L)
    PROVE  /\ \A k \in M : \E l \in L : SameSale(k, l) /\ k.uid = l.uid /\ k.order = PlaceAt(O, L, l)
           /\ \A l \in L : \E k \in M : SameSale(k, l) /\ k.uid = l.uid /\ k.order = PlaceAt(O, L, l)
           /\ Usable(M)
<1>1. ASSUME NEW l \in L, NEW k, k = WithOrder(l, PlaceAt(O, L, l))
      PROVE  SameSale(k, l) /\ k.uid = l.uid /\ k.order = PlaceAt(O, L, l)
  <2>1. PICK x : x = PlaceAt(O, L, l)
    OBVIOUS
  <2>2. IsLine(l)
    BY DEF LinesKnown
  <2>3. k = [l EXCEPT !.order = x]
    BY <1>1, <2>1 DEF WithOrder
  <2>4. k = [id |-> l.id, batch |-> l.batch, order |-> x, product |-> l.product, ret |-> l.ret,
             day |-> l.day, money |-> l.money, customer |-> l.customer, uid |-> l.uid]
    BY <2>2, <2>3, LineForms
  <2> QED
    BY <2>1, <2>4 DEF SameSale
<1>2. /\ \A k \in M : \E l \in L : k = WithOrder(l, PlaceAt(O, L, l))
      /\ \A l \in L : \E k \in M : k = WithOrder(l, PlaceAt(O, L, l))
  BY DEF Moved
<1>3. \A k \in M : \E l \in L : SameSale(k, l) /\ k.uid = l.uid /\ k.order = PlaceAt(O, L, l)
  BY <1>1, <1>2
<1>4. \A l \in L : \E k \in M : SameSale(k, l) /\ k.uid = l.uid /\ k.order = PlaceAt(O, L, l)
  BY <1>1, <1>2
<1>5. IsFiniteSet(M)
  <2> DEFINE f == [l \in L |-> WithOrder(l, PlaceAt(O, L, l))]
  <2>1. f \in Surjection(L, M)
    BY DEF Surjection, Moved
  <2> HIDE DEF f
  <2> QED
    BY <2>1, FS_Surjection DEF LinesKnown
<1>6. \A k \in M : k.id \in Nat /\ k.ret \in BOOLEAN /\ k.day \in Int /\ k.money \in Int /\ Year(k.day) \in Int
  BY <1>3 DEF SameSale, LinesKnown, IsLine
<1>7. ASSUME NEW k \in M, NEW j \in M
      PROVE  (k.id = j.id => k = j) /\ (k.day <= j.day => Year(k.day) <= Year(j.day))
  <2>1. PICK a \in L, b \in L : k = WithOrder(a, PlaceAt(O, L, a)) /\ j = WithOrder(b, PlaceAt(O, L, b))
    BY <1>2
  <2>2. SameSale(k, a) /\ SameSale(j, b)
    BY <1>1, <2>1
  <2>3. (a.id = b.id => a = b) /\ (a.day <= b.day => Year(a.day) <= Year(b.day))
    BY DEF LinesKnown
  <2> QED
    BY <2>1, <2>2, <2>3 DEF SameSale
<1> QED
  BY <1>3, <1>4, <1>5, <1>6, <1>7 DEF Usable

(* A key with a year in front is another key.                                *)
LEMMA KeyedDiffers ==
    ASSUME NEW k \in Seq(Parts), NEW y \in Parts
    PROVE  <<y>> \o k # k
<1> DEFINE t == <<y>>
<1>0. t \in Seq(Parts) /\ Len(t) = 1
  OBVIOUS
<1>1. PICK s : s = <<y>> /\ s \in Seq(Parts) /\ Len(s) = 1
  BY <1>0
<1>2. Len(s \o k) = Len(s) + Len(k)
  BY <1>1, ConcatProperties, Zenon
<1>3. Len(k) \in Nat
  OBVIOUS
<1> QED
  BY <1>1, <1>2, <1>3

(* The orders of the lines are those of the headers.                         *)
LEMMA OrdersAre ==
    ASSUME NEW O, NEW L, Stage(O, L)
    PROVE  /\ \A o \in O : \E n \in Nat : o.id = <<n>>
           /\ \A l \in L : /\ HeaderOf(O, l) \in O /\ HeaderOf(O, l).id = l.order
                           /\ \A o \in O : o.id = l.order => HeaderOf(O, l) = o
           /\ \A o \in O : \A y : \E n \in Nat : o.id = <<n>> /\ o.id \o <<y>> = <<n, y>>
<1>1. \A o \in O : \E n \in Nat : o.id = <<n>>
  BY MigrationAssumption DEF Stage, Stands
<1>2. Headed(O, L) /\ \A o, p \in O : o.id = p.id => o = p
  BY DEF Stage, Headed
<1>3. \A l \in L : HeaderOf(O, l) \in O /\ HeaderOf(O, l).id = l.order
  BY <1>2, HeaderOfIs
<1>4. ASSUME NEW o \in O, NEW y
      PROVE  \E n \in Nat : o.id = <<n>> /\ o.id \o <<y>> = <<n, y>>
  <2>1. PICK n \in Nat : o.id = <<n>>
    BY <1>1
  <2>2. <<n>> \o <<y>> = <<n, y>>
    BY PairForm
  <2> QED
    BY <2>1, <2>2
<1> QED
  BY <1>1, <1>2, <1>3, <1>4

(* Where a line goes.                                                        *)
LEMMA PlaceForm ==
    ASSUME NEW O, NEW L, Stage(O, L), NEW l \in L, NEW y, y = Year(l.day)
    PROVE  \E n \in Nat : /\ l.order = <<n>>
                          /\ Goes(O, L, l) => PlaceAt(O, L, l) = <<n, y>>
                          /\ ~Goes(O, L, l) => PlaceAt(O, L, l) = <<n>>
<1>1. PICK h \in O : h.id = l.order
  BY DEF Stage, Headed
<1>2. PICK n \in Nat : l.order = <<n>>
  BY <1>1, OrdersAre
<1>3. <<n>> \o <<y>> = <<n, y>>
  BY PairForm
<1> QED
  BY <1>2, <1>3 DEF PlaceAt

(* The lines an old header keeps.                                            *)
LEMMA UnderOld ==
    ASSUME NEW O, NEW L, Stage(O, L), NEW M, M = Moved(O, L), NEW o \in O
    PROVE  /\ \A k \in Under(M, o.id) : \E l \in Under(L, o.id) : SameSale(k, l) /\ Year(l.day) \notin SplitYears(O, L, o)
           /\ \A l \in Under(L, o.id) : Year(l.day) \notin SplitYears(O, L, o) => \E k \in Under(M, o.id) : SameSale(k, l)
<1>1. LinesKnown(L)
  BY DEF Stage, Headed
<1>2. ASSUME NEW k \in Under(M, o.id)
      PROVE  \E l \in Under(L, o.id) : SameSale(k, l) /\ Year(l.day) \notin SplitYears(O, L, o)
  <2>1. k \in M /\ k.order = o.id
    BY DEF Under
  <2>2. PICK l \in L : SameSale(k, l) /\ k.order = PlaceAt(O, L, l)
    BY <1>1, <2>1, MovedForm
  <2>3. PICK n \in Nat : o.id = <<n>>
    BY OrdersAre
  <2>4. PICK z : z = Year(l.day)
    OBVIOUS
  <2>5. PICK m \in Nat : /\ l.order = <<m>>
                         /\ Goes(O, L, l) => PlaceAt(O, L, l) = <<m, z>>
                         /\ ~Goes(O, L, l) => PlaceAt(O, L, l) = <<m>>
    BY <2>4, PlaceForm
  <2>6. ~Goes(O, L, l) /\ l.order = o.id
    <3>1. <<m, z>> # <<n>>
      BY PairForm
    <3> QED
      BY <2>1, <2>2, <2>3, <2>5, <3>1, Zenon
  <2>7. HeaderOf(O, l) = o
    BY <2>6, OrdersAre
  <2> QED
    BY <2>2, <2>6, <2>7 DEF Goes, Under
<1>3. ASSUME NEW l \in Under(L, o.id), Year(l.day) \notin SplitYears(O, L, o)
      PROVE  \E k \in Under(M, o.id) : SameSale(k, l)
  <2>1. l \in L /\ l.order = o.id
    BY DEF Under
  <2>2. PICK k \in M : SameSale(k, l) /\ k.order = PlaceAt(O, L, l)
    BY <1>1, <2>1, MovedForm
  <2>3. HeaderOf(O, l) = o
    BY <2>1, OrdersAre
  <2>4. PlaceAt(O, L, l) = o.id
    BY <1>3, <2>1, <2>3 DEF Goes, PlaceAt
  <2> QED
    BY <2>2, <2>4 DEF Under
<1> QED
  BY <1>2, <1>3

(* The lines of a header of its own are those of its year.                   *)
LEMMA UnderNew ==
    ASSUME NEW O, NEW L, Stage(O, L), NEW M, M = Moved(O, L), NEW o \in O, NEW y \in SplitYears(O, L, o)
    PROVE  /\ \A k \in Under(M, o.id \o <<y>>) : Year(k.day) = y
           /\ Under(M, o.id \o <<y>>) # {}
<1>1. LinesKnown(L)
  BY DEF Stage, Headed
<1>2. ASSUME NEW k \in Under(M, o.id \o <<y>>)
      PROVE  Year(k.day) = y
  <2>1. k \in M /\ k.order = o.id \o <<y>>
    BY DEF Under
  <2>2. PICK l \in L : SameSale(k, l) /\ k.order = PlaceAt(O, L, l)
    BY <1>1, <2>1, MovedForm
  <2>3. PICK n \in Nat : o.id \o <<y>> = <<n, y>>
    BY OrdersAre
  <2>4. PICK z : z = Year(l.day)
    OBVIOUS
  <2>5. PICK m \in Nat : /\ l.order = <<m>>
                         /\ Goes(O, L, l) => PlaceAt(O, L, l) = <<m, z>>
                         /\ ~Goes(O, L, l) => PlaceAt(O, L, l) = <<m>>
    BY <2>4, PlaceForm
  <2>6. z = y
    <3>1. <<n, y>> # <<m>> /\ (<<m, z>> = <<n, y>> => z = y)
      BY PairForm
    <3> QED
      BY <2>1, <2>2, <2>3, <2>5, <3>1, Zenon
  <2> QED
    BY <2>2, <2>4, <2>6 DEF SameSale
<1>3. Under(M, o.id \o <<y>>) # {}
  <2>1. y \in Years(L, o.id)
    BY DEF SplitYears
  <2>2. PICK l \in L : l.order = o.id /\ Year(l.day) = y
    BY <2>1 DEF Years, Under
  <2>3. HeaderOf(O, l) = o
    BY <2>2, OrdersAre
  <2>4. Goes(O, L, l)
    BY <2>2, <2>3 DEF Goes
  <2>5. PICK k \in M : k.order = PlaceAt(O, L, l)
    BY <1>1, MovedForm
  <2>6. k.order = o.id \o <<y>>
    BY <2>2, <2>4, <2>5 DEF PlaceAt
  <2> QED
    BY <2>6 DEF Under
<1> QED
  BY <1>2, <1>3

(* Which headers are computed anew.                                          *)
LEMMA TouchedAre ==
    ASSUME NEW O, NEW L, Stage(O, L), NEW o \in O
    PROVE  /\ o.id \in Touched(O, L) <=> Cardinality(Years(L, o.id)) > 1
           /\ \A y \in SplitYears(O, L, o) : o.id \o <<y>> \in Touched(O, L)
<1>1. ASSUME NEW y \in SplitYears(O, L, o) PROVE o.id \o <<y>> \in OnlyFreshMistake(O, L)
  <2>1. o.id \o <<y>> \in {o.id \o <<z>> : z \in SplitYears(O, L, o)}
    OBVIOUS
  <2> QED
    BY <2>1 DEF OnlyFreshMistake
<1>2. o.id \notin OnlyFreshMistake(O, L)
  <2> SUFFICES ASSUME o.id \in OnlyFreshMistake(O, L) PROVE FALSE
    OBVIOUS
  <2>1. PICK p \in O : \E y \in SplitYears(O, L, p) : o.id = p.id \o <<y>>
    BY DEF OnlyFreshMistake
  <2>2. PICK y \in SplitYears(O, L, p) : o.id = p.id \o <<y>>
    BY <2>1
  <2>3. PICK n \in Nat, m \in Nat : o.id = <<n>> /\ p.id \o <<y>> = <<m, y>>
    <3>1. /\ \E n \in Nat : o.id = <<n>>
          /\ \E m \in Nat : p.id \o <<y>> = <<m, y>>
      BY OrdersAre
    <3> QED
      BY <3>1
  <2> QED
    BY <2>2, <2>3
<1>3. \A p \in O : p.id = o.id => p = o
  BY DEF Stage, Headed
<1>4. o.id \in {q.id : q \in {p \in O : Cardinality(Years(L, p.id)) > 1}} <=> Cardinality(Years(L, o.id)) > 1
  BY <1>3
<1> QED
  BY <1>1, <1>2, <1>4 DEF Touched

(* The year of a date that stands on some lines is their first.              *)
LEMMA DatedYear ==
    ASSUME NEW mine, \A l \in mine : Year(l.day) \in Int, NEW o, Dated(o, mine)
    PROVE  Min({Year(l.day) : l \in mine}) = Year(o.date)
<1> DEFINE years == {Year(l.day) : l \in mine}
<1>1. Year(o.date) \in years /\ \A y \in years : y \in Int /\ Year(o.date) <= y
  BY DEF Dated
<1> HIDE DEF years
<1>2. Min(years) \in years /\ \A y \in years : Min(years) <= y
  BY <1>1 DEF Min
<1>3. Min(years) = Year(o.date)
  BY <1>1, <1>2
<1> QED
  BY <1>3 DEF years

(* The new headers carry the old keys as their numbers.                      *)
Numbered(O, N) == \A o \in O : \E p \in N : p.id = o.id /\ p.number = o.key

(* What an old header says is taken from its lines or from the header before. *)
StillSpeaks(p, o, mine, M) ==
    \/ Speaks(p, Under(M, p.id))
    \/ /\ p.date = o.date /\ p.customer = o.customer
       /\ Speaks(o, mine) => Speaks(p, Under(M, p.id))

(* The years an old header keeps.                                            *)
LEMMA YearsKept ==
    ASSUME NEW O, NEW L, Stage(O, L), NEW M, M = Moved(O, L), NEW o \in O
    PROVE  /\ Years(M, o.id) = Years(L, o.id) \ SplitYears(O, L, o)
           /\ Year(o.date) \in Years(M, o.id) /\ Under(M, o.id) # {}
           /\ Min(Years(M, o.id)) = Year(o.date)
<1>1. Years(M, o.id) = Years(L, o.id) \ SplitYears(O, L, o)
  <2>1. ASSUME NEW y \in Years(M, o.id) PROVE y \in Years(L, o.id) \ SplitYears(O, L, o)
    <3>1. PICK k \in Under(M, o.id) : y = Year(k.day)
      BY DEF Years
    <3>2. PICK l \in Under(L, o.id) : SameSale(k, l) /\ Year(l.day) \notin SplitYears(O, L, o)
      BY UnderOld
    <3> QED
      BY <3>1, <3>2 DEF Years, SameSale
  <2>2. ASSUME NEW y \in Years(L, o.id), y \notin SplitYears(O, L, o) PROVE y \in Years(M, o.id)
    <3>1. PICK l \in Under(L, o.id) : y = Year(l.day)
      BY DEF Years
    <3>2. PICK k \in Under(M, o.id) : SameSale(k, l)
      BY <2>2, <3>1, UnderOld
    <3> QED
      BY <3>1, <3>2 DEF Years, SameSale
  <2> QED
    BY <2>1, <2>2
<1>2. /\ Min(Years(L, o.id)) = Year(o.date) /\ Year(o.date) \in Years(L, o.id)
      /\ \A y \in Years(L, o.id) : y \in Int /\ Year(o.date) <= y
  BY FirstYearIs
<1>3. Year(o.date) \notin SplitYears(O, L, o)
  BY <1>2 DEF SplitYears
<1>4. Year(o.date) \in Years(M, o.id)
  BY <1>1, <1>2, <1>3
<1>5. \A y \in Years(M, o.id) : y \in Int /\ Year(o.date) <= y
  BY <1>1, <1>2
<1>6. Min(Years(M, o.id)) = Year(o.date)
  <2>1. Min(Years(M, o.id)) \in Years(M, o.id) /\ \A y \in Years(M, o.id) : Min(Years(M, o.id)) <= y
    BY <1>4, <1>5 DEF Min
  <2> QED
    BY <1>4, <1>5, <2>1
<1>7. Under(M, o.id) # {}
  BY <1>4 DEF Years
<1> QED
  BY <1>1, <1>4, <1>6, <1>7

(* The year that stays behind: another order has the key.                    *)
LEMMA LeftBehind ==
    ASSUME NEW O, NEW L, Stage(O, L), NEW M, M = Moved(O, L), NEW o \in O, NEW N, Numbered(O, N),
           NEW p, p.id = o.id, p.number = o.key,
           NEW y \in Years(M, o.id), y # Year(o.date)
    PROVE  \E q \in N \ {p} : q.number = <<y>> \o p.number
<1>1. y \in Years(L, o.id) /\ y \notin SplitYears(O, L, o)
  BY YearsKept
<1>2. Min(Years(L, o.id)) = Year(o.date) /\ y \in Parts
  BY <1>1, FirstYearIs
<1>3. Keyed(o, y) \in {q.key : q \in O}
  BY <1>1, <1>2 DEF SplitYears
<1>4. PICK q \in O : q.key = <<y>> \o o.key
  BY <1>3 DEF Keyed
<1>5. q.key # o.key
  <2>1. o.key \in Seq(Parts)
    BY DEF Stage, Stands
  <2> QED
    BY <1>2, <1>4, <2>1, KeyedDiffers
<1>6. q.id # o.id
  BY <1>5 DEF Stage, Headed
<1>7. PICK r \in N : r.id = q.id /\ r.number = q.key
  BY DEF Numbered
<1> QED
  BY <1>4, <1>6, <1>7

(* A header that stays holds.                                                *)
LEMMA KeptHolds ==
    ASSUME NEW O, NEW L, Stage(O, L), NEW M, M = Moved(O, L), NEW o \in O, NEW N, Numbered(O, N),
           NEW h, h = Kept(O, L, o), NEW p, p = IF h.id \in Touched(O, L) THEN Recomputed(h, M) ELSE h
    PROVE  /\ p.id = o.id /\ p.number = o.key
           /\ HeaderHolds(p, N, M) /\ StillSpeaks(p, o, Under(L, o.id), M)
<1>1. /\ IsHeader(h) /\ h.id = o.id /\ h.number = o.key /\ h.period = Year(o.date)
      /\ h.date = o.date /\ h.customer = o.customer
      /\ h.gross = o.gross /\ h.returns = o.returns /\ h.count = o.count
      /\ h.branch = IF o.branch = Year(o.date) THEN o.branch ELSE None
  BY KeptForm
<1> DEFINE mine == Under(M, o.id)
<1>2. /\ Years(M, o.id) = Years(L, o.id) \ SplitYears(O, L, o)
      /\ Year(o.date) \in Years(M, o.id) /\ mine # {}
      /\ Min(Years(M, o.id)) = Year(o.date)
  BY YearsKept
<1>3. Years(M, o.id) = {Year(l.day) : l \in mine}
  BY DEF Years
<1>4. Usable(M)
  BY MovedForm DEF Stage, Headed
<1>5. /\ IsHeader(p) /\ p.id = o.id /\ p.number = o.key /\ p.period = Year(o.date) /\ p.branch = h.branch
      /\ Adds(p, mine) /\ Year(p.date) = Year(o.date) /\ \A l \in mine : p.date <= l.day
      /\ StillSpeaks(p, o, Under(L, o.id), M)
  <2>1. CASE h.id \in Touched(O, L)
    <3>1. p = Recomputed(h, M) /\ Under(M, h.id) # {} /\ Under(M, h.id) = mine
      BY <1>1, <1>2, <2>1
    <3>2. /\ IsHeader(p) /\ Adds(p, Under(M, h.id)) /\ Speaks(p, Under(M, h.id))
          /\ p.id = h.id /\ p.period = h.period /\ p.number = h.number /\ p.branch = h.branch
          /\ Year(p.date) = Min({Year(l.day) : l \in Under(M, h.id)})
          /\ \A l \in Under(M, h.id) : p.date <= l.day
      BY <1>1, <1>4, <3>1, RecomputedHolds DEF ComputedOf
    <3> HIDE DEF mine
    <3> QED
      BY <1>1, <1>2, <1>3, <3>1, <3>2 DEF StillSpeaks
  <2>2. CASE h.id \notin Touched(O, L)
    <3>1. p = h
      BY <2>2
    <3>2. ~(Cardinality(Years(L, o.id)) > 1)
      BY <1>1, <2>2, TouchedAre
    <3>3. IsFiniteSet(Years(L, o.id)) /\ Year(o.date) \in Years(L, o.id)
      BY FirstYearIs
    <3>4. \A y \in Years(L, o.id) : y = Year(o.date)
      <4>1. Cardinality(Years(L, o.id)) \in Nat /\ Cardinality(Years(L, o.id)) # 0
        BY <3>3, FS_CardinalityType, FS_EmptySet
      <4>2. Cardinality(Years(L, o.id)) = 1
        BY <3>2, <4>1
      <4>3. PICK x : Years(L, o.id) = {x}
        BY <3>3, <4>2, FS_Singleton
      <4> QED
        BY <3>3, <4>3
    <3>5. SplitYears(O, L, o) = {}
      BY <3>4, FirstYearIs DEF SplitYears
    <3>6. Alike(Under(L, o.id), mine)
      <4>1. IsFiniteSet(Under(L, o.id)) /\ Under(L, o.id) \subseteq L
        BY FS_Subset DEF Stage, Headed, LinesKnown, Under
      <4>2. /\ \A k \in mine : \E l \in Under(L, o.id) : SameSale(k, l)
            /\ \A l \in Under(L, o.id) : \E k \in mine : SameSale(k, l)
        BY <3>5, UnderOld
      <4>3. \A l \in Under(L, o.id) : l.money \in Int
        BY <4>1 DEF Stage, Headed, LinesKnown, IsLine
      <4>4. \A l, k \in Under(L, o.id) : l.id = k.id => l = k
        BY <4>1 DEF Stage, Headed, LinesKnown
      <4>5. \A l, k \in mine : l.id = k.id => l = k
        BY <1>4 DEF Under, Usable
      <4> QED
        BY <4>1, <4>2, <4>3, <4>4, <4>5 DEF Alike
    <3>7. Adds(o, Under(L, o.id)) /\ Dated(o, Under(L, o.id))
      BY DEF Stage, Stands
    <3>8. Adds(o, mine) /\ Dated(o, mine) /\ (Speaks(o, Under(L, o.id)) => Speaks(o, mine))
      <4> HIDE DEF mine
      <4> QED
        BY <3>6, <3>7, SaidOfBoth
    <3>9. Adds(p, mine) /\ \A l \in mine : p.date <= l.day
      BY <1>1, <3>1, <3>8 DEF Adds, Dated
    <3>10. StillSpeaks(p, o, Under(L, o.id), M)
      BY <1>1, <3>1, <3>8 DEF StillSpeaks, Speaks
    <3> HIDE DEF mine
    <3> QED
      BY <1>1, <3>1, <3>9, <3>10
  <2> QED
    BY <2>1, <2>2
<1>6. p = Totals(p, M)
  BY <1>5, TotalsForm
<1>7. p.branch # None => p.branch \in Years(M, p.id)
  BY <1>1, <1>2, <1>5
<1>8. \A y \in Years(M, p.id) \ {p.period} : \E q \in N \ {p} : q.number = <<y>> \o p.number
  BY <1>5, LeftBehind
<1>9. HeaderHolds(p, N, M)
  BY <1>2, <1>5, <1>6, <1>7, <1>8 DEF HeaderHolds
<1> QED
  BY <1>5, <1>9

(* So does a header of its own.                                              *)
FreshRight(p, o, y, N, M) ==
    /\ p.id = o.id \o <<y>> /\ p.number = o.key
    /\ HeaderHolds(p, N, M) /\ Speaks(p, Under(M, p.id))
(* It holds.                                                                 *)
LEMMA FreshHolds ==
    ASSUME NEW O, NEW L, Stage(O, L), NEW M, M = Moved(O, L), NEW o \in O, NEW N, NEW y \in SplitYears(O, L, o),
           NEW h, h = Fresh(o, L, y), NEW p, p = IF h.id \in Touched(O, L) THEN Recomputed(h, M) ELSE h
    PROVE  FreshRight(p, o, y, N, M)
<1>1. /\ IsHeader(h) /\ h.id = o.id \o <<y>> /\ h.number = o.key /\ h.period = y
      /\ h.branch = IF o.branch = y THEN o.branch ELSE None
  BY FreshForm
<1>2. (\A k \in Under(M, h.id) : Year(k.day) = y) /\ Under(M, h.id) # {}
  BY <1>1, UnderNew
<1>3. p = Recomputed(h, M)
  BY <1>1, TouchedAre
<1>4. Usable(M)
  BY MovedForm DEF Stage, Headed
<1>10. IsHeader(h) /\ Under(M, h.id) # {}
  BY <1>1, <1>2
<1>5. /\ IsHeader(p) /\ Adds(p, Under(M, h.id)) /\ Speaks(p, Under(M, h.id))
      /\ p.id = h.id /\ p.period = h.period /\ p.number = h.number /\ p.branch = h.branch
      /\ Year(p.date) = Min({Year(l.day) : l \in Under(M, h.id)})
      /\ \A l \in Under(M, h.id) : p.date <= l.day
  BY <1>10, <1>3, <1>4, RecomputedHolds DEF ComputedOf
<1>6. Years(M, p.id) = {Year(l.day) : l \in Under(M, h.id)}
  BY <1>5 DEF Years
<1>7. Years(M, p.id) = {y}
  BY <1>2, <1>6
<1>8. p = Totals(p, M)
  BY <1>5, TotalsForm
<1>9. HeaderHolds(p, N, M)
  BY <1>1, <1>2, <1>5, <1>6, <1>7, <1>8 DEF HeaderHolds
<1> QED
  BY <1>1, <1>5, <1>9 DEF FreshRight

(* Every header holds, every line has its identity.                          *)
HeadersRight(O, L) == (\A o \in O : HeaderHolds(o, O, L)) /\ LinesAreIdentified(O, L)

(* What a header says, of the lines there were at first.                     *)
Before(L, o) == {l \in L : l.order[1] = o.id[1]}
SpeaksOf(o, L, M) ==
    Speaks(o, IF \E l \in Before(L, o) : l.id \notin Ids(M) THEN Before(L, o) ELSE Under(M, o.id))

(* Every new header has an old one.                                          *)
NewHeaders(O, L, M) == {IF h.id \in Touched(O, L) THEN Recomputed(h, M) ELSE h : h \in Headers(O, L)}
(* Each holds, and is one that stayed or one of a year.                      *)
LEMMA HeadersAre ==
    ASSUME NEW O, NEW L, Stage(O, L), NEW M, M = Moved(O, L),
           NEW N, N = NewHeaders(O, L, M)
    PROVE  /\ Numbered(O, N)
           /\ \A o \in O : \A y \in SplitYears(O, L, o) : \E p \in N : p.id = o.id \o <<y>> /\ p.number = o.key
           /\ \A p \in N : \E o \in O : /\ p.id[1] = o.id[1] /\ HeaderHolds(p, N, M)
                                        /\ \/ Speaks(p, Under(M, p.id))
                                           \/ p.id = o.id /\ StillSpeaks(p, o, Under(L, o.id), M)
<1> DEFINE new(h) == IF h.id \in Touched(O, L) THEN Recomputed(h, M) ELSE h
<1>1. N = {new(h) : h \in Headers(O, L)}
  BY DEF NewHeaders
<1>2. ASSUME NEW o \in O
      PROVE  new(Kept(O, L, o)) \in N /\ new(Kept(O, L, o)).id = o.id /\ new(Kept(O, L, o)).number = o.key
  <2>1. PICK h : h = Kept(O, L, o)
    OBVIOUS
  <2>2. PICK p : p = new(h)
    OBVIOUS
  <2>3. /\ h.id = o.id /\ h.number = o.key /\ IsHeader(h)
    BY <2>1, KeptForm
  <2>4. Under(M, h.id) # {}
    BY <2>3, YearsKept
  <2>5. p.id = o.id /\ p.number = o.key
    <3>1. CASE h.id \in Touched(O, L)
      <4>1. p = Recomputed(h, M)
        BY <2>2, <3>1
      <4>2. Usable(M)
        BY MovedForm DEF Stage, Headed
      <4> HIDE DEF new
      <4>3. IsHeader(h) /\ Under(M, h.id) # {}
        BY <2>3, <2>4
      <4>4. ComputedOf(p, h, M)
        BY <4>1, <4>2, <4>3, RecomputedHolds
      <4>5. p.id = h.id /\ p.number = h.number
        BY <4>4 DEF ComputedOf
      <4> QED
        BY <2>3, <4>5
    <3>2. CASE h.id \notin Touched(O, L)
      BY <2>2, <2>3, <3>2
    <3> QED
      BY <3>1, <3>2
  <2>6. h \in Headers(O, L)
    BY <2>1 DEF Headers
  <2> HIDE DEF new
  <2> QED
    BY <1>1, <2>1, <2>2, <2>5, <2>6
<1>3. Numbered(O, N)
  <2> HIDE DEF new
  <2> QED
    BY <1>2 DEF Numbered
<1>4. ASSUME NEW o \in O, NEW y \in SplitYears(O, L, o), NEW p, p = new(Fresh(o, L, y))
      PROVE  /\ p \in N /\ p.id = o.id \o <<y>> /\ p.number = o.key
             /\ p.id[1] = o.id[1] /\ HeaderHolds(p, N, M) /\ Speaks(p, Under(M, p.id))
  <2>1. PICK h : h = Fresh(o, L, y)
    OBVIOUS
  <2>2. p = IF h.id \in Touched(O, L) THEN Recomputed(h, M) ELSE h
    BY <1>4, <2>1
  <2>3. h \in Headers(O, L)
    BY <2>1 DEF Headers
  <2>4. p \in N
    BY <1>1, <1>4, <2>1, <2>3
  <2> HIDE DEF new
  <2>7. FreshRight(p, o, y, N, M)
    BY <2>1, <2>2, FreshHolds
  <2>5. p.id = o.id \o <<y>> /\ p.number = o.key /\ HeaderHolds(p, N, M) /\ Speaks(p, Under(M, p.id))
    BY <2>7 DEF FreshRight
  <2>6. PICK n \in Nat : o.id = <<n>> /\ o.id \o <<y>> = <<n, y>>
    BY OrdersAre
  <2> QED
    BY <2>4, <2>5, <2>6
<1>5. ASSUME NEW o \in O, NEW p, p = new(Kept(O, L, o))
      PROVE  p.id = o.id /\ HeaderHolds(p, N, M) /\ StillSpeaks(p, o, Under(L, o.id), M)
  <2>1. PICK h : h = Kept(O, L, o)
    OBVIOUS
  <2>2. p = IF h.id \in Touched(O, L) THEN Recomputed(h, M) ELSE h
    BY <1>5, <2>1
  <2> HIDE DEF new
  <2> QED
    BY <1>3, <2>1, <2>2, KeptHolds
<1>6. ASSUME NEW p \in N
      PROVE  \E o \in O : /\ p.id[1] = o.id[1] /\ HeaderHolds(p, N, M)
                          /\ \/ Speaks(p, Under(M, p.id))
                             \/ p.id = o.id /\ StillSpeaks(p, o, Under(L, o.id), M)
  <2> HIDE DEF new
  <2>1. PICK h \in Headers(O, L) : p = new(h)
    BY <1>1
  <2>2. CASE \E o \in O : h = Kept(O, L, o)
    BY <1>5, <2>1, <2>2
  <2>3. CASE \E o \in O : \E y \in SplitYears(O, L, o) : h = Fresh(o, L, y)
    <3>1. PICK o \in O : \E y \in SplitYears(O, L, o) : h = Fresh(o, L, y)
      BY <2>3
    <3>3. PICK y \in SplitYears(O, L, o) : h = Fresh(o, L, y)
      BY <3>1
    <3>2. p = new(Fresh(o, L, y))
      BY <2>1, <3>3
    <3> QED
      BY <1>4, <3>2
  <2>4. (\E o \in O : h = Kept(O, L, o)) \/ \E o \in O : \E y \in SplitYears(O, L, o) : h = Fresh(o, L, y)
    BY DEF Headers
  <2> QED
    BY <2>2, <2>3, <2>4
<1>7. ASSUME NEW o \in O, NEW y \in SplitYears(O, L, o)
      PROVE  \E p \in N : p.id = o.id \o <<y>> /\ p.number = o.key
  <2>1. PICK p : p = new(Fresh(o, L, y))
    OBVIOUS
  <2> HIDE DEF new
  <2> QED
    BY <1>4, <2>1
<1> QED
  BY <1>3, <1>6, <1>7

(* A header for every year, and no line lost.                                *)
LEMMA HeaderPeriodKeeps ==
    ASSUME NEW d, IsRows(d), Stage(d.orders, d.lines), UidsRight(d.orders, d.lines),
           NEW A, Descends(d.lines, A), \A o \in d.orders : SpeaksOf(o, A, d.lines),
           \A l \in A : \E n \in Nat : l.order = <<n>>,
           NEW e, e = HeaderPeriod(d)
    PROVE  /\ IsRows(e) /\ e.owner = d.owner
           /\ HeadersRight(e.orders, e.lines) /\ Ids(e.lines) = Ids(d.lines)
           /\ \A p \in e.orders : SpeaksOf(p, A, e.lines)
<1> DEFINE O == d.orders
           L == d.lines
           M == e.lines
           N == e.orders
<1>1. /\ IsRows(e) /\ e.owner = d.owner /\ M = Moved(O, L)
      /\ N = NewHeaders(O, L, M)
  BY HeaderPeriodForm DEF NewHeaders
<1> HIDE DEF O, L, M, N
<1>2. Stage(O, L) /\ UidsRight(O, L) /\ Descends(L, A) /\ \A o \in O : SpeaksOf(o, A, L)
  BY DEF O, L
<1>3. /\ Numbered(O, N)
      /\ \A o \in O : \A y \in SplitYears(O, L, o) : \E p \in N : p.id = o.id \o <<y>> /\ p.number = o.key
      /\ \A p \in N : \E o \in O : /\ p.id[1] = o.id[1] /\ HeaderHolds(p, N, M)
                                   /\ \/ Speaks(p, Under(M, p.id))
                                      \/ p.id = o.id /\ StillSpeaks(p, o, Under(L, o.id), M)
  BY <1>1, <1>2, HeadersAre
<1>4. /\ \A k \in M : \E l \in L : SameSale(k, l) /\ k.uid = l.uid /\ k.order = PlaceAt(O, L, l)
      /\ \A l \in L : \E k \in M : SameSale(k, l) /\ k.uid = l.uid /\ k.order = PlaceAt(O, L, l)
      /\ Usable(M)
  BY <1>1, <1>2, MovedForm DEF Stage, Headed
<1>5. Ids(M) = Ids(L)
  BY <1>4 DEF Ids, SameSale
<1>6. ASSUME NEW k \in M
      PROVE  \E l \in L : SameSale(k, l) /\ k.uid = l.uid /\ k.order[1] = l.order[1]
                          /\ \E p \in N : p.id = k.order /\ p.number = HeaderOf(O, l).key
  <2>1. PICK l \in L : SameSale(k, l) /\ k.uid = l.uid /\ k.order = PlaceAt(O, L, l)
    BY <1>4
  <2>2. PICK y : y = Year(l.day)
    OBVIOUS
  <2>3. PICK n \in Nat : /\ l.order = <<n>>
                         /\ Goes(O, L, l) => PlaceAt(O, L, l) = <<n, y>>
                         /\ ~Goes(O, L, l) => PlaceAt(O, L, l) = <<n>>
    BY <1>2, <2>2, PlaceForm
  <2>4. HeaderOf(O, l) \in O /\ HeaderOf(O, l).id = l.order
    BY <1>2, OrdersAre
  <2>5. CASE Goes(O, L, l)
    <3>1. y \in SplitYears(O, L, HeaderOf(O, l)) /\ k.order = l.order \o <<y>>
      BY <2>1, <2>2, <2>5 DEF Goes, PlaceAt
    <3>2. PICK p \in N : p.id = HeaderOf(O, l).id \o <<y>> /\ p.number = HeaderOf(O, l).key
      BY <1>3, <2>4, <3>1
    <3> QED
      BY <2>1, <2>3, <2>4, <2>5, <3>1, <3>2
  <2>6. CASE ~Goes(O, L, l)
    <3>1. k.order = l.order
      BY <2>1, <2>6 DEF PlaceAt
    <3>2. PICK p \in N : p.id = HeaderOf(O, l).id /\ p.number = HeaderOf(O, l).key
      BY <1>3, <2>4 DEF Numbered
    <3> QED
      BY <2>1, <2>4, <3>1, <3>2
  <2> QED
    BY <2>5, <2>6
<1>7. LinesAreIdentified(N, M)
  <2>1. ASSUME NEW k \in M, NEW j \in M, k.uid = j.uid PROVE k = j
    <3>1. PICK l \in L, i \in L : SameSale(k, l) /\ k.uid = l.uid /\ SameSale(j, i) /\ j.uid = i.uid
      BY <1>4
    <3>2. l = i
      BY <1>2, <2>1, <3>1 DEF UidsRight
    <3> QED
      BY <1>4, <3>1, <3>2 DEF SameSale, Usable
  <2>2. ASSUME NEW k \in M
        PROVE  \E p \in N : p.id = k.order /\ k.uid[1] = <<Year(k.day), p.number, k.product, k.ret>>
    <3>1. PICK l \in L : /\ SameSale(k, l) /\ k.uid = l.uid
                         /\ \E p \in N : p.id = k.order /\ p.number = HeaderOf(O, l).key
      BY <1>6
    <3>2. PICK p \in N : p.id = k.order /\ p.number = HeaderOf(O, l).key
      BY <3>1
    <3>3. PICK o \in O : o.id = l.order /\ l.uid[1] = <<Year(l.day), o.key, l.product, l.ret>>
      BY <1>2 DEF UidsRight
    <3>4. HeaderOf(O, l) = o
      BY <1>2, <3>3, OrdersAre
    <3>5. k.product = l.product /\ k.ret = l.ret /\ k.day = l.day
      BY <3>1 DEF SameSale
    <3>6. k.uid[1] = <<Year(k.day), p.number, k.product, k.ret>>
      BY <3>1, <3>2, <3>3, <3>4, <3>5
    <3> QED
      BY <3>2, <3>6
  <2> QED
    BY <2>1, <2>2 DEF LinesAreIdentified
<1>8. HeadersRight(N, M)
  BY <1>3, <1>7 DEF HeadersRight
<1>9. ASSUME NEW p \in N
      PROVE  SpeaksOf(p, A, M)
  <2>1. PICK o \in O : /\ p.id[1] = o.id[1]
                       /\ \/ Speaks(p, Under(M, p.id))
                          \/ p.id = o.id /\ StillSpeaks(p, o, Under(L, o.id), M)
    BY <1>3
  <2>2. Before(A, p) = Before(A, o)
    BY <2>1 DEF Before
  <2>3. SpeaksOf(o, A, L)
    BY <1>2
  <2>4. ASSUME Speaks(p, Under(M, p.id))
        PROVE  Speaks(p, Before(A, p))
    <3>1. ASSUME NEW k \in Under(M, p.id) PROVE \E l \in Before(A, p) : SameSale(k, l)
      <4>1. k \in M /\ k.order = p.id
        BY DEF Under
      <4>2. PICK l \in L : SameSale(k, l) /\ k.order[1] = l.order[1]
        BY <1>6, <4>1
      <4>3. PICK a \in A : SameSale(l, a) /\ l.order[1] = a.order[1]
        BY <1>2 DEF Descends
      <4> QED
        BY <4>1, <4>2, <4>3 DEF Before, SameSale
    <3> QED
      BY <2>4, <3>1 DEF Speaks, SameSale
  <2>5. CASE \E l \in Before(A, p) : l.id \notin Ids(M)
    <3>1. Speaks(o, Before(A, o))
      BY <1>5, <2>2, <2>3, <2>5 DEF SpeaksOf
    <3>2. Speaks(p, Before(A, p))
      BY <2>1, <2>2, <2>4, <3>1 DEF StillSpeaks, Speaks
    <3> QED
      BY <2>5, <3>2 DEF SpeaksOf
  <2>6. CASE ~(\E l \in Before(A, p) : l.id \notin Ids(M))
    <3>1. Speaks(o, Under(L, o.id))
      BY <1>5, <2>2, <2>3, <2>6 DEF SpeaksOf
    <3>2. Speaks(p, Under(M, p.id))
      BY <2>1, <3>1 DEF StillSpeaks
    <3> QED
      BY <2>6, <3>2 DEF SpeaksOf
  <2> QED
    BY <2>5, <2>6
<1> QED
  BY <1>1, <1>5, <1>8, <1>9 DEF M, N, L

-----------------------------------------------------------------------------
(* What an older version left.                                               *)
LEMMA LedgersKnown ==
    ASSUME NEW L \in OldLedgers
    PROVE  LinesKnown(L) /\ Usable(L)
<1>3. IsFiniteSet(L) /\ \A l \in L : IsLine(l)
  BY MigrationAssumption
<1>4. ASSUME NEW l \in L, NEW k \in L
      PROVE  (l.id = k.id => l = k) /\ (l.day <= k.day => Year(l.day) <= Year(k.day))
  BY MigrationAssumption
<1>1. /\ IsFiniteSet(L) /\ \A l \in L : IsLine(l)
      /\ \A l, k \in L : /\ l.id = k.id => l = k
                         /\ l.day <= k.day => Year(l.day) <= Year(k.day)
  BY <1>3, <1>4
<1>2. \A l \in L : l.id \in Nat /\ l.ret \in BOOLEAN /\ l.day \in Int /\ l.money \in Int /\ Year(l.day) \in Int
  BY <1>1 DEF IsLine
<1> QED
  BY <1>1, <1>2 DEF LinesKnown, Usable

(* The number an order had then.                                             *)
OldNumber(v, n) == IF v < 17 THEN NumberOf[n] ELSE Normal(NumberOf[n])

(* Lines have a newest upload, and in it a first line.                       *)
LastBatch(mine) == Max({l.batch : l \in mine})
FirstOf(mine, b) == First({l \in mine : l.batch = b})
(* That line is found.                                                       *)
LEMMA LastUpload ==
    ASSUME NEW L, LinesKnown(L), NEW mine, mine \subseteq L, mine # {}, NEW b, b = LastBatch(mine),
           NEW x, x = FirstOf(mine, b)
    PROVE  /\ x \in mine /\ x.batch = b
           /\ \A k \in mine : k.batch <= b /\ (k.batch = b => Earlier(x, k))
<1> DEFINE f == [l \in mine |-> l.batch]
           all == {l.batch : l \in mine}
           last == {l \in mine : l.batch = b}
<1>1. IsFiniteSet(mine) /\ \A l \in mine : f[l] \in Int /\ f[l] = l.batch
  BY FS_Subset DEF LinesKnown, IsLine
<1>2. PICK g \in mine : \A l \in mine : f[l] <= f[g]
  <2> HIDE DEF f
  <2> QED
    BY <1>1, FiniteHasGreatest
<1>3. g.batch \in all /\ \A y \in all : y \in Int /\ y <= g.batch
  BY <1>1, <1>2
<1> HIDE DEF f
<1>4. b = g.batch
  <2> HIDE DEF all
  <2>1. Max(all) \in all /\ \A y \in all : Max(all) >= y
    BY <1>3 DEF Max
  <2>2. Max(all) = g.batch
    BY <1>3, <2>1
  <2> QED
    BY <2>2 DEF all, LastBatch
<1>5. last # {} /\ Ordered(last) /\ \A l, k \in last : l.id = k.id => l = k
  BY <1>1, <1>4, FS_Subset DEF LinesKnown, IsLine, Ordered
<1>6. First(last) \in last /\ \A k \in last : Earlier(First(last), k)
  <2> HIDE DEF last
  <2> QED
    BY <1>5, FirstIsFound
<1> QED
  BY <1>3, <1>4, <1>6 DEF FirstOf

(* A header of then.                                                         *)
OldHeaderOf(r, v, L, l, n) ==
    /\ n \in DOMAIN NumberOf /\ l.order = <<n>> /\ r.id = <<n>> /\ IsHeader(r)
    /\ r.key = IF v < 18 THEN OldNumber(v, n) ELSE <<Min(Years(L, <<n>>))>> \o OldNumber(v, n)
    /\ r.period = IF v < 18 THEN None ELSE Min(Years(L, <<n>>))
    /\ r.number = IF v < 18 THEN None ELSE OldNumber(v, n)
    /\ Adds(r, Under(L, r.id)) /\ Dated(r, Under(L, r.id)) /\ Attributed(r, Under(L, r.id))
    /\ Speaks(r, Under(L, r.id)) /\ Under(L, r.id) # {}
(* So is every header an older version wrote.                                *)
LEMMA OldHeaderIs ==
    ASSUME NEW L \in OldLedgers, NEW v, NEW l \in L, NEW n, n = l.order[1], NEW r, r = OldHeader(v, L, n)
    PROVE  OldHeaderOf(r, v, L, l, n)
<1> DEFINE mine == Under(L, <<n>>)
<1>1. LinesKnown(L) /\ Usable(L)
  BY LedgersKnown
<1>2. n \in DOMAIN NumberOf /\ l.order = <<n>>
  BY <1>1 DEF LinesKnown, IsLine
<1>3. l \in mine /\ mine \subseteq L
  BY <1>2 DEF Under
<1>4. PICK number : number = OldNumber(v, n)
  OBVIOUS
<1>5. PICK y : y = Min(Years(L, <<n>>))
  OBVIOUS
<1>6. PICK b : b = LastBatch(mine)
  OBVIOUS
<1>7. PICK x : x = FirstOf(mine, b)
  OBVIOUS
<1>8. /\ x \in mine /\ x.batch = b
      /\ \A k \in mine : k.batch <= b /\ (k.batch = b => Earlier(x, k))
  <2> HIDE DEF mine
  <2> QED
    BY <1>1, <1>3, <1>6, <1>7, LastUpload
<1>9. PICK h : h = [id |-> <<n>>, key |-> IF v < 18 THEN number ELSE <<y>> \o number,
                    period |-> IF v < 18 THEN None ELSE y, number |-> IF v < 18 THEN None ELSE number,
                    gross |-> 0, returns |-> 0, count |-> 0, date |-> 0, customer |-> None,
                    branch |-> Year(x.day), batch |-> b]
  OBVIOUS
<1>10. r = Recomputed(h, L)
  BY <1>4, <1>5, <1>6, <1>7, <1>9 DEF OldHeader, OldNumber, LastBatch, FirstOf
<1>11. /\ IsHeader(h) /\ h.id = <<n>> /\ h.key = IF v < 18 THEN number ELSE <<y>> \o number
       /\ h.period = IF v < 18 THEN None ELSE y
       /\ h.number = IF v < 18 THEN None ELSE number
       /\ h.branch = Year(x.day) /\ h.batch = b
  BY <1>9 DEF IsHeader
<1>12. Under(L, h.id) # {}
  BY <1>3, <1>11
<1>17. IsHeader(h) /\ Usable(L) /\ Under(L, h.id) # {}
  BY <1>1, <1>11, <1>12
<1>13. /\ IsHeader(r) /\ Adds(r, Under(L, h.id)) /\ Speaks(r, Under(L, h.id))
       /\ r.id = h.id /\ r.key = h.key /\ r.period = h.period /\ r.number = h.number
       /\ r.branch = h.branch /\ r.batch = h.batch
       /\ \A k \in Under(L, h.id) : r.date <= k.day
  <2>1. ComputedOf(r, h, L)
    BY <1>10, <1>17, RecomputedHolds
  <2> QED
    BY <2>1 DEF ComputedOf
<1>14. Adds(r, mine) /\ Speaks(r, mine) /\ \A k \in mine : r.date <= k.day
  BY <1>11, <1>13
<1>15. Dated(r, mine)
  <2>1. PICK k \in mine : k.day = r.date
    BY <1>14 DEF Speaks
  <2>2. \A j \in mine : Year(k.day) <= Year(j.day)
    BY <1>1, <1>3, <1>14, <2>1 DEF Usable
  <2> QED
    BY <1>14, <2>1, <2>2 DEF Dated
<1>16. Attributed(r, mine)
  BY <1>8, <1>11, <1>13 DEF Attributed
<1> QED
  BY <1>2, <1>3, <1>4, <1>5, <1>11, <1>13, <1>14, <1>15, <1>16 DEF OldHeaderOf

(* The headers of then, and under their numbers.                             *)
OldOrders(v, L) == {OldHeader(v, L, l.order[1]) : l \in L}
AsNumbered(O) == {IF o.number = None THEN o ELSE WithKey(o, o.number) : o \in O}
(* These are the rows.                                                       *)
LEMMA OldRowsForm ==
    ASSUME NEW v, NEW L
    PROVE  /\ OldRows(v, L).orders = OldOrders(v, L)
           /\ OldRows(v, L).lines = IF v < 17 THEN L ELSE Identified(AsNumbered(OldOrders(v, L)), L)
<1> DEFINE O == {OldHeader(v, L, l.order[1]) : l \in L}
           numbered == {IF o.number = None THEN o ELSE [o EXCEPT !.key = o.number] : o \in O}
<1>1. OldRows(v, L) = [lines |-> IF v < 17 THEN L ELSE Identified(numbered, L), orders |-> O]
  BY DEF OldRows
<1>2. O = OldOrders(v, L)
  BY DEF OldOrders
<1>3. numbered = AsNumbered(OldOrders(v, L))
  BY <1>2 DEF AsNumbered, WithKey
<1> HIDE DEF O, numbered
<1> QED
  BY <1>1, <1>2, <1>3

(* The numbers of then are different, and definite ones possible.            *)
LEMMA OldNumbersDiffer ==
    ASSUME NEW v \in Nat, NEW L \in OldLedgers, Possible(v, L), NEW l \in L, NEW k \in L
    PROVE  /\ OldNumber(v, l.order[1]) = OldNumber(v, k.order[1]) => l.order = k.order
           /\ OldNumber(v, l.order[1]) \in Seq(Parts)
           /\ v < 17 => Normal(OldNumber(v, l.order[1])) \in Seq(Parts)
<1>1. PICK n \in DOMAIN NumberOf, m \in DOMAIN NumberOf : l.order = <<n>> /\ k.order = <<m>>
  <2>1. IsLine(l) /\ IsLine(k)
    BY LedgersKnown DEF LinesKnown
  <2> QED
    BY <2>1 DEF IsLine
<1>2. l.order[1] = n /\ k.order[1] = m
  BY <1>1
<1>3. NumberOf[n] \in Seq(Parts) /\ Normal(NumberOf[n]) \in Seq(Parts) /\ (NumberOf[n] = NumberOf[m] => n = m)
  BY MigrationAssumption
<1>4. CASE v < 17
  <2>1. OldNumber(v, n) = NumberOf[n] /\ OldNumber(v, m) = NumberOf[m]
    BY <1>4 DEF OldNumber
  <2> QED
    BY <1>1, <1>2, <1>3, <2>1
<1>5. CASE ~(v < 17)
  <2>1. OldNumber(v, n) = Normal(NumberOf[n]) /\ OldNumber(v, m) = Normal(NumberOf[m])
    BY <1>5 DEF OldNumber
  <2>2. Normal(NumberOf[l.order[1]]) = Normal(NumberOf[k.order[1]]) => l.order = k.order
    BY <1>5 DEF Possible
  <2> QED
    BY <1>2, <1>3, <1>5, <2>1, <2>2
<1> QED
  BY <1>4, <1>5

(* Before the headers had years.                                             *)
LEMMA OldStage ==
    ASSUME NEW v \in Nat, v < 18, NEW L \in OldLedgers, Possible(v, L), NEW O, O = OldOrders(v, L)
    PROVE  /\ Stage(O, L) /\ \A o \in O : Speaks(o, Under(L, o.id))
           /\ v < 17 => Renamable(O)
<1>1. \A o \in O : \E l \in L : o = OldHeader(v, L, l.order[1])
  BY DEF OldOrders
<1>2. ASSUME NEW l \in L, NEW o, o = OldHeader(v, L, l.order[1])
      PROVE  /\ Stands(o, L) /\ Speaks(o, Under(L, o.id))
             /\ o.id = l.order /\ o.key = OldNumber(v, l.order[1])
  <2>1. PICK n : n = l.order[1]
    OBVIOUS
  <2>2. /\ n \in DOMAIN NumberOf /\ l.order = <<n>> /\ o.id = <<n>> /\ IsHeader(o)
        /\ o.key = OldNumber(v, n) /\ o.number = None
        /\ Adds(o, Under(L, o.id)) /\ Dated(o, Under(L, o.id)) /\ Attributed(o, Under(L, o.id))
        /\ Speaks(o, Under(L, o.id))
    <3>1. OldHeaderOf(o, v, L, l, n)
      BY <1>2, <2>1, OldHeaderIs
    <3> QED
      BY <3>1 DEF OldHeaderOf
  <2>3. o.key \in Seq(Parts)
    BY <2>1, <2>2, OldNumbersDiffer
  <2> QED
    BY <2>1, <2>2, <2>3 DEF Stands
<1>3. ASSUME NEW o \in O, NEW p \in O
      PROVE  (o.id = p.id => o = p) /\ (o.key = p.key => o = p)
  <2>1. PICK l \in L, k \in L : o = OldHeader(v, L, l.order[1]) /\ p = OldHeader(v, L, k.order[1])
    BY <1>1
  <2>2. o.id = l.order /\ p.id = k.order /\ o.key = OldNumber(v, l.order[1]) /\ p.key = OldNumber(v, k.order[1])
    BY <1>2, <2>1
  <2>3. OldNumber(v, l.order[1]) = OldNumber(v, k.order[1]) => l.order = k.order
    BY OldNumbersDiffer
  <2> QED
    BY <2>1, <2>2, <2>3
<1>4. \A l \in L : \E o \in O : o.id = l.order
  BY <1>2 DEF OldOrders
<1>5. Headed(O, L)
  BY <1>3, <1>4, LedgersKnown DEF Headed
<1>6. v < 17 => Renamable(O)
  <2> SUFFICES ASSUME v < 17, NEW o \in O PROVE Normal(o.key) \in Seq(Parts)
    BY DEF Renamable
  <2>1. PICK l \in L : o = OldHeader(v, L, l.order[1])
    BY <1>1
  <2>2. o.key = OldNumber(v, l.order[1])
    BY <1>2, <2>1
  <2>3. Normal(OldNumber(v, l.order[1])) \in Seq(Parts)
    BY OldNumbersDiffer
  <2> QED
    BY <2>2, <2>3
<1> QED
  BY <1>1, <1>2, <1>5, <1>6 DEF Stage

(* So are the rows.                                                          *)
LEMMA OldRowsEarly ==
    ASSUME NEW v \in Nat, v < 18, NEW L \in OldLedgers, Possible(v, L),
           NEW O, O = OldRows(v, L).orders, NEW M, M = OldRows(v, L).lines
    PROVE  /\ Stage(O, M) /\ \A o \in O : Speaks(o, Under(M, o.id))
           /\ v < 17 => Renamable(O)
           /\ v >= 17 => UidsRight(O, M)
<1>1. O = OldOrders(v, L) /\ M = IF v < 17 THEN L ELSE Identified(AsNumbered(O), L)
  BY OldRowsForm
<1>2. Stage(O, L) /\ (\A o \in O : Speaks(o, Under(L, o.id))) /\ (v < 17 => Renamable(O))
  BY <1>1, OldStage
<1>3. AsNumbered(O) = O
  BY <1>2 DEF AsNumbered, Stage, Stands
<1>4. CASE v < 17
  BY <1>1, <1>2, <1>4
<1>5. CASE v >= 17
  <2>1. M = Identified(O, L)
    BY <1>1, <1>3, <1>5
  <2>2. UidsRight(O, M) /\ Resembles(L, M)
    BY <1>2, <2>1, IdentifiedUids DEF Stage
  <2>3. ASSUME NEW o \in O PROVE Stands(o, M) /\ Speaks(o, Under(M, o.id))
    BY <1>2, <2>2, StandsOnEither DEF Stage, Stands
  <2>4. Headed(O, M)
    <3>1. \A k \in M : \E l \in L : k.order = l.order
      BY <2>2 DEF Resembles
    <3>2. \A l \in L : \E o \in O : o.id = l.order
      BY <1>2 DEF Stage, Headed
    <3> QED
      BY <1>2, <2>2, <3>1, <3>2 DEF Headed, Stage, Resembles
  <2> QED
    BY <1>5, <2>2, <2>3, <2>4 DEF Stage
<1> QED
  BY <1>4, <1>5

(* Since then.                                                               *)
LEMMA OldRowsLate ==
    ASSUME NEW v \in Nat, v >= 18, NEW L \in OldLedgers, Possible(v, L),
           NEW O, O = OldRows(v, L).orders, NEW M, M = OldRows(v, L).lines
    PROVE  HeadersRight(O, M) /\ \A o \in O : Speaks(o, Under(M, o.id))
<1> DEFINE P == AsNumbered(O)
<1>1. O = OldOrders(v, L) /\ M = Identified(P, L)
  BY OldRowsForm
<1>2. LinesKnown(L) /\ Usable(L)
  BY LedgersKnown
<1>3. \A o \in O : \E l \in L : o = OldHeader(v, L, l.order[1])
  BY <1>1 DEF OldOrders
<1>4. ASSUME NEW l \in L, NEW o, o = OldHeader(v, L, l.order[1])
      PROVE  /\ IsHeader(o) /\ Adds(o, Under(L, o.id)) /\ Dated(o, Under(L, o.id)) /\ Attributed(o, Under(L, o.id))
             /\ Speaks(o, Under(L, o.id)) /\ Under(L, o.id) # {}
             /\ o.id = l.order /\ o.number = OldNumber(v, l.order[1]) /\ o.number # None
             /\ o.period = Min(Years(L, o.id))
  <2>1. PICK n : n = l.order[1]
    OBVIOUS
  <2>2. /\ l.order = <<n>> /\ o.id = <<n>> /\ IsHeader(o)
        /\ o.number = OldNumber(v, n) /\ o.period = Min(Years(L, <<n>>))
        /\ Adds(o, Under(L, o.id)) /\ Dated(o, Under(L, o.id)) /\ Attributed(o, Under(L, o.id))
        /\ Speaks(o, Under(L, o.id)) /\ Under(L, o.id) # {}
    <3>1. OldHeaderOf(o, v, L, l, n)
      BY <1>4, <2>1, OldHeaderIs
    <3> QED
      BY <3>1 DEF OldHeaderOf
  <2>3. OldNumber(v, l.order[1]) \in Seq(Parts)
    BY OldNumbersDiffer
  <2>4. None \notin Seq(Parts)
    BY MigrationAssumption
  <2> QED
    BY <2>1, <2>2, <2>3, <2>4
<1>5. ASSUME NEW o \in O, NEW p \in O
      PROVE  (o.id = p.id => o = p) /\ (o.number = p.number => o = p)
  <2>1. PICK l \in L, k \in L : o = OldHeader(v, L, l.order[1]) /\ p = OldHeader(v, L, k.order[1])
    BY <1>3
  <2>2. o.id = l.order /\ p.id = k.order /\ o.number = OldNumber(v, l.order[1]) /\ p.number = OldNumber(v, k.order[1])
    BY <1>4, <2>1
  <2>3. OldNumber(v, l.order[1]) = OldNumber(v, k.order[1]) => l.order = k.order
    BY OldNumbersDiffer
  <2> QED
    BY <2>1, <2>2, <2>3
<1>6. \A l \in L : \E o \in O : o.id = l.order
  BY <1>1, <1>4 DEF OldOrders
<1>7. /\ \A q \in P : \E o \in O : q.id = o.id /\ q.key = o.number
      /\ \A o \in O : \E q \in P : q.id = o.id /\ q.key = o.number
  <2>1. ASSUME NEW o \in O, NEW q, q = WithKey(o, o.number)
        PROVE  q.id = o.id /\ q.key = o.number
    <3>1. PICK x : x = o.number
      OBVIOUS
    <3>2. IsHeader(o) /\ q = WithKey(o, x)
      BY <1>3, <1>4, <2>1, <3>1
    <3> QED
      BY <3>1, <3>2, KeyForm
  <2>2. P = {WithKey(o, o.number) : o \in O}
    <3>1. \A o \in O : o.number # None
      BY <1>3, <1>4
    <3> QED
      BY <3>1 DEF AsNumbered
  <2> HIDE DEF P
  <2> QED
    BY <2>1, <2>2
<1> HIDE DEF P
<1>8. Headed(P, L)
  <2>1. \A l \in L : \E q \in P : q.id = l.order
    BY <1>6, <1>7
  <2>2. ASSUME NEW q \in P, NEW r \in P, q.id = r.id \/ q.key = r.key
        PROVE  q = r
    <3>1. P = {WithKey(o, o.number) : o \in O}
      <4>1. \A o \in O : o.number # None
        BY <1>3, <1>4
      <4> QED
        BY <4>1 DEF P, AsNumbered
    <3>2. PICK a \in O, b \in O : q = WithKey(a, a.number) /\ r = WithKey(b, b.number)
      BY <3>1
    <3>3. IsHeader(a) /\ IsHeader(b)
      BY <1>3, <1>4
    <3>4. PICK x, y : x = a.number /\ y = b.number
      OBVIOUS
    <3>5. q.id = a.id /\ q.key = x
      BY <3>2, <3>3, <3>4, KeyForm
    <3>6. r.id = b.id /\ r.key = y
      BY <3>2, <3>3, <3>4, KeyForm
    <3>7. a = b
      BY <1>5, <2>2, <3>4, <3>5, <3>6
    <3> QED
      BY <3>2, <3>7
  <2> QED
    BY <1>2, <2>1, <2>2 DEF Headed
<1>9. UidsRight(P, M) /\ Resembles(L, M)
  BY <1>1, <1>8, IdentifiedUids
<1>10. ASSUME NEW o \in O
       PROVE  HeaderHolds(o, O, M) /\ Speaks(o, Under(M, o.id))
  <2>1. PICK l \in L : o = OldHeader(v, L, l.order[1])
    BY <1>3
  <2>2. /\ IsHeader(o) /\ Adds(o, Under(L, o.id)) /\ Dated(o, Under(L, o.id)) /\ Attributed(o, Under(L, o.id))
        /\ Speaks(o, Under(L, o.id)) /\ o.id = l.order /\ o.period = Min(Years(L, o.id))
    BY <1>4, <2>1
  <2>3. Adds(o, Under(M, o.id)) /\ Dated(o, Under(M, o.id)) /\ Attributed(o, Under(M, o.id)) /\ Speaks(o, Under(M, o.id))
    BY <1>9, <2>2, StandsOnEither
  <2>4. Years(M, o.id) = Years(L, o.id)
    <3>1. ASSUME NEW y \in Years(M, o.id) PROVE y \in Years(L, o.id)
      <4>1. PICK k \in M : k.order = o.id /\ y = Year(k.day)
        BY DEF Years, Under
      <4>2. PICK a \in L : SameSale(k, a) /\ k.order = a.order
        BY <1>9 DEF Resembles
      <4> QED
        BY <4>1, <4>2 DEF Years, Under, SameSale
    <3>2. ASSUME NEW y \in Years(L, o.id) PROVE y \in Years(M, o.id)
      <4>1. PICK k \in L : k.order = o.id /\ y = Year(k.day)
        BY DEF Years, Under
      <4>2. PICK a \in M : SameSale(a, k) /\ a.order = k.order
        BY <1>9 DEF Resembles
      <4> QED
        BY <4>1, <4>2 DEF Years, Under, SameSale
    <3> QED
      BY <3>1, <3>2
  <2>5. Cardinality(Years(L, o.id)) = 1
    BY <2>2 DEF Possible
  <2>6. \E z : Years(L, o.id) = {z}
    <3>1. IsFiniteSet(Years(L, o.id))
      <4>1. IsFiniteSet(Under(L, o.id))
        BY <1>2, FS_Subset DEF LinesKnown, Under
      <4>2. [k \in Under(L, o.id) |-> Year(k.day)] \in Surjection(Under(L, o.id), Years(L, o.id))
        BY DEF Surjection, Years
      <4> QED
        BY <4>1, <4>2, FS_Surjection
    <3> QED
      BY <2>5, <3>1, FS_Singleton
  <2>7. \A k \in Under(M, o.id) : Year(k.day) \in Int
    BY <1>9 DEF Under, Resembles, LinesKnown, IsLine
  <2>8. Min({Year(k.day) : k \in Under(M, o.id)}) = Year(o.date)
    BY <2>3, <2>7, DatedYear
  <2>9. Years(M, o.id) = {Year(k.day) : k \in Under(M, o.id)}
    BY DEF Years
  <2>10. Year(o.date) = Min(Years(M, o.id))
    BY <2>8, <2>9
  <2>11. o = Totals(o, M)
    BY <2>2, <2>3, TotalsForm
  <2>12. Under(M, o.id) # {} /\ (\A k \in Under(M, o.id) : o.date <= k.day) /\ o.branch \in Years(M, o.id)
    BY <2>3 DEF Dated, Attributed, Years
  <2>13. Years(M, o.id) \ {o.period} = {}
    <3>1. Year(o.date) \in Years(M, o.id)
      BY <2>3 DEF Dated, Years
    <3> QED
      BY <2>2, <2>4, <2>6, <2>10, <3>1
  <2> QED
    BY <2>3, <2>10, <2>11, <2>12, <2>13 DEF HeaderHolds
<1>11. LinesAreIdentified(O, M)
  <2>1. ASSUME NEW k \in M
        PROVE  \E o \in O : o.id = k.order /\ k.uid[1] = <<Year(k.day), o.number, k.product, k.ret>>
    <3>1. PICK q \in P : q.id = k.order /\ k.uid[1] = <<Year(k.day), q.key, k.product, k.ret>>
      BY <1>9 DEF UidsRight
    <3>2. PICK o \in O : q.id = o.id /\ q.key = o.number
      BY <1>7
    <3> QED
      BY <3>1, <3>2
  <2> QED
    BY <1>9, <2>1 DEF UidsRight, LinesAreIdentified
<1> QED
  BY <1>10, <1>11 DEF HeadersRight

-----------------------------------------------------------------------------
(* All that a commit does to the rows.                                       *)

(* Owners that are not None stay.                                            *)
LEMMA EmailKeysForm ==
    ASSUME NEW d, IsRows(d), NEW f, f = EmailKeys(d)
    PROVE  /\ IsRows(f) /\ f.lines = d.lines /\ f.orders = d.orders
           /\ \A e \in DOMAIN d.owner : d.owner[e] # None => f.owner[e] = d.owner[e]
<1> DEFINE w == [e \in DOMAIN d.owner |-> IF d.owner[e] # None \/ ~\E c \in DOMAIN Mail : Mail[c] = e THEN d.owner[e]
                                          ELSE Min({c \in DOMAIN Mail : Mail[c] = e})]
<1>1. f = [d EXCEPT !.owner = w]
  BY DEF EmailKeys
<1>2. \A e \in DOMAIN d.owner : d.owner[e] # None => w[e] = d.owner[e]
  OBVIOUS
<1> HIDE DEF w
<1>3. f = [lines |-> d.lines, orders |-> d.orders, owner |-> w]
  BY <1>1 DEF IsRows
<1> QED
  BY <1>2, <1>3 DEF IsRows

(* What the rows are, by the last version recorded.                          *)
RowsAt(d, v) ==
    /\ IsRows(d)
    /\ v < 18 => Stage(d.orders, d.lines)
    /\ v < 17 => Renamable(d.orders)
    /\ v = 17 => UidsRight(d.orders, d.lines)
    /\ v >= 18 => HeadersRight(d.orders, d.lines)
    /\ v < Current => \A o \in d.orders : Speaks(o, Under(d.lines, o.id))

(* The rows after, against those before.                                     *)
Carried(d, e) ==
    /\ LinesKept(d.lines, e.lines)
    /\ \A x \in DOMAIN d.owner : d.owner[x] # None => e.owner[x] = d.owner[x]
    /\ \A o \in e.orders : SpeaksOf(o, d.lines, e.lines)
(* That is what an upgrade promises.                                         *)
LEMMA CarriedKeeps ==
    ASSUME NEW d, NEW e, Carried(d, e)
    PROVE  KeepsLedger(d, e)
BY DEF Carried, KeepsLedger, LinesKept, EqualSales, Ids, SpeaksOf, Before

(* Nothing gone, every header speaks of what it did.                         *)
LEMMA NothingGone ==
    ASSUME NEW L, NEW O, \A o \in O : Speaks(o, Under(L, o.id))
    PROVE  LinesKept(L, L) /\ Descends(L, L) /\ \A o \in O : SpeaksOf(o, L, L)
<1>1. \A l \in L : l.id \in Ids(L)
  BY DEF Ids
<1>2. LinesKept(L, L)
  BY <1>1 DEF LinesKept
<1>3. Descends(L, L)
  BY DEF Descends, SameSale
<1>4. \A o \in O : Before(L, o) \subseteq L
  BY DEF Before
<1>5. \A o \in O : SpeaksOf(o, L, L)
  BY <1>1, <1>4 DEF SpeaksOf
<1> QED
  BY <1>2, <1>3, <1>5

(* Migration 17, of what there was.                                          *)
LEMMA StepOfLines ==
    ASSUME NEW d, RowsAt(d, 16), NEW e, e = LineIdentity(d)
    PROVE  /\ IsRows(e) /\ e.owner = d.owner /\ Stage(e.orders, e.lines) /\ UidsRight(e.orders, e.lines)
           /\ LinesKept(d.lines, e.lines) /\ Descends(e.lines, d.lines)
           /\ \A o \in e.orders : SpeaksOf(o, d.lines, e.lines)
<1>1. /\ IsRows(d) /\ Stage(d.orders, d.lines) /\ Renamable(d.orders)
      /\ \A o \in d.orders : Speaks(o, Under(d.lines, o.id))
  BY DEF RowsAt, Current
<1>2. /\ IsRows(e) /\ e.owner = d.owner
      /\ Stage(e.orders, e.lines) /\ UidsRight(e.orders, e.lines)
      /\ LinesKept(d.lines, e.lines) /\ Descends(e.lines, d.lines)
      /\ \A p \in e.orders :
            /\ Speaks(p, Under(d.lines, p.id))
            /\ (\A l \in Under(d.lines, p.id) : l.id \in Ids(e.lines)) => Speaks(p, Under(e.lines, p.id))
  BY <1>1, LineIdentityKeeps
<1>3. ASSUME NEW o \in e.orders
      PROVE  SpeaksOf(o, d.lines, e.lines)
  <2>1. PICK n : o.id = <<n>>
    BY <1>2 DEF Stage, Stands
  <2>2. \A l \in d.lines : \E m : l.order = <<m>>
    BY <1>1 DEF Stage, Headed, LinesKnown, IsLine
  <2>3. Before(d.lines, o) = Under(d.lines, o.id)
    BY <2>1, <2>2 DEF Before, Under
  <2> QED
    BY <1>2, <2>3 DEF SpeaksOf
<1> QED
  BY <1>2, <1>3

(* Lines of orders without a year.                                           *)
LEMMA OneOrderEach ==
    ASSUME NEW O, NEW L, Stage(O, L)
    PROVE  \A l \in L : \E n \in Nat : l.order = <<n>>
BY MigrationAssumption DEF Stage, Headed, LinesKnown, IsLine

(* All of it: the rows are those of today, and nothing is lost.              *)
LEMMA MigratedRight ==
    ASSUME NEW v \in 0..Current, recorded = 1..v, RowsAt(db, v), NEW e, e = Migrated
    PROVE  /\ IsRows(e) /\ HeadersRight(e.orders, e.lines)
           /\ e # db => KeepsLedger(db, e)
<1>1. v \in Int /\ (17 \in Pending <=> v < 17) /\ (18 \in Pending <=> v < 18) /\ (20 \in Pending <=> v < 20)
  BY DEF Pending, Current
<1>2. PICK a : a = IF 17 \in Pending THEN LineIdentity(db) ELSE db
  OBVIOUS
<1>3. PICK b : b = IF 18 \in Pending THEN HeaderPeriod(a) ELSE a
  OBVIOUS
<1>4. e = IF 20 \in Pending THEN EmailKeys(b) ELSE b
  BY <1>2, <1>3 DEF Migrated
<1>5. CASE v = 20
  BY <1>1, <1>2, <1>3, <1>4, <1>5 DEF RowsAt
<1>6. CASE v < 20
  <2>1. /\ IsRows(db) /\ \A o \in db.orders : Speaks(o, Under(db.lines, o.id))
    BY <1>6 DEF RowsAt, Current
  <2>2. CASE v >= 18
    <3>1. b = db
      BY <1>1, <1>2, <1>3, <2>2
    <3>2. HeadersRight(b.orders, b.lines) /\ IsRows(b)
      BY <2>1, <2>2, <3>1 DEF RowsAt
    <3>3. e = EmailKeys(b)
      BY <1>1, <1>4, <1>6
    <3>4. /\ IsRows(e) /\ e.lines = b.lines /\ e.orders = b.orders
          /\ \A x \in DOMAIN b.owner : b.owner[x] # None => e.owner[x] = b.owner[x]
      BY <3>2, <3>3, EmailKeysForm
    <3>5. LinesKept(db.lines, db.lines) /\ \A o \in db.orders : SpeaksOf(o, db.lines, db.lines)
      BY <2>1, NothingGone
    <3>6. Carried(db, e)
      BY <3>1, <3>4, <3>5 DEF Carried
    <3> QED
      BY <3>2, <3>4, <3>6, CarriedKeeps
  <2>3. CASE v < 18
    <3>1. /\ IsRows(a) /\ a.owner = db.owner /\ Stage(a.orders, a.lines) /\ UidsRight(a.orders, a.lines)
          /\ LinesKept(db.lines, a.lines) /\ Descends(a.lines, db.lines)
          /\ \A o \in a.orders : SpeaksOf(o, db.lines, a.lines)
      <4>1. CASE v < 17
        <5>1. RowsAt(db, 16)
          BY <2>1, <4>1 DEF RowsAt
        <5>2. a = LineIdentity(db)
          BY <1>1, <1>2, <4>1
        <5> QED
          BY <5>1, <5>2, StepOfLines
      <4>2. CASE v = 17
        <5>1. a = db
          BY <1>1, <1>2, <4>2
        <5>2. Stage(db.orders, db.lines) /\ UidsRight(db.orders, db.lines)
          BY <4>2 DEF RowsAt
        <5>3. /\ LinesKept(db.lines, db.lines) /\ Descends(db.lines, db.lines)
              /\ \A o \in db.orders : SpeaksOf(o, db.lines, db.lines)
          BY <2>1, NothingGone
        <5> QED
          BY <2>1, <5>1, <5>2, <5>3
      <4> QED
        BY <1>1, <2>3, <4>1, <4>2
    <3>2. b = HeaderPeriod(a)
      BY <1>1, <1>3, <2>3
    <3>3. \A l \in db.lines : \E n \in Nat : l.order = <<n>>
      BY <2>3, OneOrderEach DEF RowsAt
    <3>4. /\ IsRows(b) /\ b.owner = a.owner
          /\ HeadersRight(b.orders, b.lines) /\ Ids(b.lines) = Ids(a.lines)
          /\ \A p \in b.orders : SpeaksOf(p, db.lines, b.lines)
      <4>1. PICK A : A = db.lines
        OBVIOUS
      <4>2. Descends(a.lines, A) /\ (\A o \in a.orders : SpeaksOf(o, A, a.lines)) /\ \A l \in A : \E n \in Nat : l.order = <<n>>
        BY <3>1, <3>3, <4>1
      <4>3. /\ IsRows(b) /\ b.owner = a.owner
            /\ HeadersRight(b.orders, b.lines) /\ Ids(b.lines) = Ids(a.lines)
            /\ \A p \in b.orders : SpeaksOf(p, A, b.lines)
        BY <3>1, <3>2, <4>2, HeaderPeriodKeeps
      <4> QED
        BY <4>1, <4>3
    <3>5. e = EmailKeys(b)
      BY <1>1, <1>4, <2>3
    <3>6. /\ IsRows(e) /\ e.lines = b.lines /\ e.orders = b.orders
          /\ \A x \in DOMAIN b.owner : b.owner[x] # None => e.owner[x] = b.owner[x]
      BY <3>4, <3>5, EmailKeysForm
    <3>7. LinesKept(db.lines, e.lines)
      BY <3>1, <3>4, <3>6 DEF LinesKept
    <3>8. Carried(db, e)
      BY <3>1, <3>4, <3>6, <3>7 DEF Carried
    <3> QED
      BY <3>4, <3>6, <3>8, CarriedKeeps
  <2> QED
    BY <1>1, <2>2, <2>3
<1> QED
  BY <1>5, <1>6 DEF Current

-----------------------------------------------------------------------------
(* The schema.                                                               *)

(* Every table is made by one of the migrations that make all.               *)
LEMMA TablesAreBorn == \A t \in ToSet(Tables) : t.born \in CreatesTables /\ t.born \in 1..Current
<1>1. \A i \in DOMAIN Tables : Tables[i].born \in {1, 2, 3, 4, 5, 6, 7, 8, 9, 10, 12, 13, 14, 15, 19}
  BY DEF Tables
<1>2. \A t \in ToSet(Tables) : t.born \in {1, 2, 3, 4, 5, 6, 7, 8, 9, 10, 12, 13, 14, 15, 19}
  BY <1>1 DEF ToSet
<1>3. ASSUME NEW n \in {1, 2, 3, 4, 5, 6, 7, 8, 9, 10, 12, 13, 14, 15, 19}
      PROVE  n \in CreatesTables /\ n \in 1..Current
  BY DEF CreatesTables, Current
<1> QED
  BY <1>2, <1>3

(* The names of the tables.                                                  *)
LEMMA NamesAre == \A t \in ToSet(Tables) : t.name \in TableNames
BY DEF ToSet, TableNames

(* A column is added by the migration it names.                              *)
Widened == {"order_lines", "campaign_outcomes", "customer_features", "campaign_members", "campaign_sends",
            "opportunity_offers", "orders", "import_batches"}
ColumnsOf(m) == [table : Widened, added : {m}, nth : Nat]
(* The columns of one table.                                                 *)
LEMMA SeveralForm ==
    ASSUME NEW t \in Widened, NEW m, NEW n \in Nat
    PROVE  Several(t, m, n) \in Seq(ColumnsOf(m))
<1>1. \A i \in 1..n : [table |-> t, added |-> m, nth |-> i] \in ColumnsOf(m)
  BY DEF ColumnsOf
<1>2. Several(t, m, n) = [i \in 1..n |-> [table |-> t, added |-> m, nth |-> i]]
  BY DEF Several
<1>3. [i \in 1..n |-> [table |-> t, added |-> m, nth |-> i]] \in [1..n -> ColumnsOf(m)]
  BY <1>1
<1> QED
  BY <1>2, <1>3

(* The columns of one migration.                                             *)
LEMMA AddedForm ==
    ASSUME NEW m \in 1..Current
    PROVE  /\ Added(m) \in Seq(ColumnsOf(m))
           /\ \A c \in ToSet(Added(m)) : c \in AllColumns /\ c.added = m
<1>1. Added(m) \in Seq(ColumnsOf(m))
  <2>0. PICK S : S = Seq(ColumnsOf(m))
    OBVIOUS
  <2> SUFFICES Added(m) \in S
    BY <2>0
  <2>1. /\ Several("order_lines", m, 1) \in S /\ Several("campaign_outcomes", m, 2) \in S
        /\ Several("customer_features", m, 7) \in S /\ Several("customer_features", m, 1) \in S
        /\ Several("campaign_members", m, 1) \in S /\ Several("campaign_sends", m, 1) \in S
        /\ Several("opportunity_offers", m, 2) \in S /\ Several("orders", m, 2) \in S
        /\ Several("import_batches", m, 2) \in S /\ << >> \in S
    <3>1. \A t \in Widened : \A n \in Nat : Several(t, m, n) \in S
      BY <2>0, SeveralForm
    <3>2. << >> \in S
      BY <2>0
    <3>3. /\ "order_lines" \in Widened /\ "campaign_outcomes" \in Widened /\ "customer_features" \in Widened
          /\ "campaign_members" \in Widened /\ "campaign_sends" \in Widened /\ "opportunity_offers" \in Widened
          /\ "orders" \in Widened /\ "import_batches" \in Widened
      BY DEF Widened
    <3>4. 1 \in Nat /\ 2 \in Nat /\ 7 \in Nat
      OBVIOUS
    <3> QED
      BY <3>1, <3>2, <3>3, <3>4, Zenon
  <2>2. \A a, b \in S : a \o b \in S
    BY <2>0, ConcatProperties
  <2>3. CASE m = 8
    BY <2>1, <2>2, <2>3 DEF Added
  <2>4. CASE m \in {10, 11}
    BY <2>1, <2>4 DEF Added
  <2>5. CASE m = 15
    BY <2>1, <2>2, <2>5 DEF Added
  <2>6. CASE m = 16
    BY <2>1, <2>2, <2>6 DEF Added
  <2>7. CASE m = 18
    BY <2>1, <2>7 DEF Added
  <2>8. CASE m = 19
    BY <2>1, <2>8 DEF Added
  <2>9. CASE m \notin {8, 10, 11, 15, 16, 18, 19}
    BY <2>1, <2>9 DEF Added
  <2> QED
    BY <2>3, <2>4, <2>5, <2>6, <2>7, <2>8, <2>9
<1>2. \A c \in ToSet(Added(m)) : c \in AllColumns
  BY DEF AllColumns
<1>3. \A c \in ToSet(Added(m)) : c \in ColumnsOf(m)
  BY <1>1 DEF ToSet
<1>4. \A c \in ColumnsOf(m) : c.added = m
  BY DEF ColumnsOf
<1> QED
  BY <1>1, <1>2, <1>3, <1>4

(* A recorded migration is wholly in the schema.                             *)
SchemaInv ==
    \A v \in recorded : /\ \A t \in ToSet(Tables) : t.born <= v => t.name \in tables
                        /\ ToSet(Added(v)) \subseteq columns
UpgradeInv ==
    /\ \E v \in 0..Current : recorded = 1..v /\ RowsAt(db, v)
    /\ SchemaInv

(* It is so at first.                                                        *)
LEMMA UpgradeInit == MigrationInit => UpgradeInv
<1> SUFFICES ASSUME MigrationInit PROVE UpgradeInv
  OBVIOUS
<1>1. PICK v \in OldVersions, L \in OldLedgers, owner \in OldOwners :
       /\ Possible(v, L)
       /\ recorded = 1..v
       /\ tables = {t.name : t \in {x \in ToSet(Tables) : x.born <= v}}
       /\ columns = {c \in AllColumns : c.added <= v}
       /\ db = [lines |-> OldRows(v, L).lines, orders |-> OldRows(v, L).orders, owner |-> owner]
  BY DEF MigrationInit
<1>2. v \in 0..Current /\ v \in Nat
  BY MigrationAssumption DEF Current
<1>3. PICK O, M : O = OldRows(v, L).orders /\ M = OldRows(v, L).lines
  OBVIOUS
<1>4. db.orders = O /\ db.lines = M /\ IsRows(db)
  BY <1>1, <1>3 DEF IsRows
<1>5. RowsAt(db, v)
  <2>1. CASE v < 18
    <3>1. /\ Stage(O, M) /\ \A o \in O : Speaks(o, Under(M, o.id))
          /\ v < 17 => Renamable(O)
          /\ v >= 17 => UidsRight(O, M)
      BY <1>1, <1>2, <1>3, <2>1, OldRowsEarly
    <3> QED
      BY <1>2, <1>4, <2>1, <3>1 DEF RowsAt
  <2>2. CASE v >= 18
    <3>1. HeadersRight(O, M) /\ \A o \in O : Speaks(o, Under(M, o.id))
      BY <1>1, <1>2, <1>3, <2>2, OldRowsLate
    <3> QED
      BY <1>2, <1>4, <2>2, <3>1 DEF RowsAt
  <2> QED
    BY <1>2, <2>1, <2>2
<1>6. SchemaInv
  <2>1. ASSUME NEW w \in recorded, NEW t \in ToSet(Tables), t.born <= w
        PROVE  t.name \in tables
    <3>1. t.born \in 1..Current /\ w \in 1..v
      BY <1>1, TablesAreBorn
    <3>2. t.born <= v
      BY <1>2, <2>1, <3>1 DEF Current
    <3> QED
      BY <1>1, <3>2
  <2>2. ASSUME NEW w \in recorded, NEW c \in ToSet(Added(w))
        PROVE  c \in columns
    <3>1. w \in 1..Current /\ w <= v
      BY <1>1, <1>2 DEF Current
    <3>2. c \in AllColumns /\ c.added = w
      BY <3>1, AddedForm
    <3> QED
      BY <1>1, <3>1, <3>2
  <2> QED
    BY <2>1, <2>2 DEF SchemaInv
<1> QED
  BY <1>1, <1>2, <1>5, <1>6 DEF UpgradeInv

(* Steps that only add to the schema keep it.                                *)
LEMMA SchemaGrows ==
    ASSUME UpgradeInv, recorded' = recorded, db' = db, tables \subseteq tables', columns \subseteq columns'
    PROVE  UpgradeInv'
<1>1. PICK v \in 0..Current : recorded = 1..v /\ RowsAt(db, v)
  BY DEF UpgradeInv
<1>2. recorded' = 1..v /\ RowsAt(db', v)
  BY <1>1
<1>3. SchemaInv'
  BY DEF UpgradeInv, SchemaInv
<1> QED
  BY <1>2, <1>3 DEF UpgradeInv

(* The commit.                                                               *)
LEMMA CommitRight ==
    ASSUME UpgradeInv, CommitUpgrade
    PROVE  UpgradeInv' /\ (db' # db => KeepsLedger(db, db'))
<1>1. PICK v \in 0..Current : recorded = 1..v /\ RowsAt(db, v)
  BY DEF UpgradeInv
<1>2. PICK e : e = Migrated
  OBVIOUS
<1>3. db' = e /\ recorded' = 1..Current
  BY <1>2 DEF CommitUpgrade
<1>4. /\ IsRows(e) /\ HeadersRight(e.orders, e.lines)
      /\ e # db => KeepsLedger(db, e)
  BY <1>1, <1>2, MigratedRight
<1>5. RowsAt(e, Current)
  BY <1>4 DEF RowsAt, Current
<1>6. \E w \in 0..Current : recorded' = 1..w /\ RowsAt(db', w)
  <2>1. Current \in 0..Current
    BY DEF Current
  <2> QED
    BY <1>3, <1>5, <2>1
<1>7. SchemaInv'
  <2>1. ASSUME NEW w \in 1..Current, NEW t \in ToSet(Tables), t.born <= w
        PROVE  t.name \in tables'
    <3>1. CASE Pending \cap CreatesTables # {}
      <4>1. tables' = TableNames
        BY <3>1 DEF CommitUpgrade
      <4> QED
        BY <4>1, NamesAre
    <3>2. CASE Pending \cap CreatesTables = {}
      <4>1. tables' = tables
        BY <3>2 DEF CommitUpgrade
      <4>2. t.born \in recorded /\ t.born <= t.born
        BY <3>2, TablesAreBorn DEF Pending, Current
      <4> QED
        BY <4>1, <4>2 DEF UpgradeInv, SchemaInv
    <3> QED
      BY <3>1, <3>2
  <2>2. ASSUME NEW w \in 1..Current, NEW c \in ToSet(Added(w))
        PROVE  c \in columns'
    <3>1. /\ columns \subseteq columns'
          /\ \A m \in Pending : \A i \in Lacking(m) : Added(m)[i] \in columns'
      <4>1. /\ columns \subseteq columns'
            /\ UNION {{Added(m)[i] : i \in Lacking(m)} : m \in Pending} \subseteq columns'
        <5> DEFINE X == UNION {WholeTable(n) : n \in tables' \ tables}
                   Y == UNION {{Added(m)[i] : i \in Lacking(m)} : m \in Pending}
        <5>1. columns' = columns \cup X \cup Y
          BY DEF CommitUpgrade
        <5> HIDE DEF X, Y
        <5>2. columns \subseteq columns' /\ Y \subseteq columns'
          BY <5>1
        <5> QED
          BY <5>2 DEF Y
      <4>2. ASSUME NEW m \in Pending, NEW i \in Lacking(m)
            PROVE  Added(m)[i] \in UNION {{Added(j)[k] : k \in Lacking(j)} : j \in Pending}
        OBVIOUS
      <4> QED
        BY <4>1, <4>2
    <3>2. CASE w \in recorded
      BY <3>1, <3>2 DEF UpgradeInv, SchemaInv
    <3>3. CASE w \notin recorded
      <4>1. w \in Pending
        BY <3>3 DEF Pending
      <4>2. PICK i \in DOMAIN Added(w) : c = Added(w)[i]
        BY DEF ToSet
      <4>3. c \in columns \/ i \in Lacking(w)
        BY <4>2 DEF Lacking
      <4> QED
        BY <3>1, <4>1, <4>2, <4>3
    <3> QED
      BY <3>2, <3>3
  <2> QED
    BY <1>3, <2>1, <2>2 DEF SchemaInv
<1> QED
  BY <1>3, <1>4, <1>6, <1>7 DEF UpgradeInv

(* Every step.                                                               *)
LEMMA UpgradeStep ==
    ASSUME UpgradeInv, [MigrationNext]_schemaVars
    PROVE  /\ UpgradeInv' /\ (db' # db => KeepsLedger(db, db'))
           /\ process' = "down" => db' = db
<1>1. CASE EnsureSchema
  BY <1>1, SchemaGrows DEF EnsureSchema
<1>2. CASE CreateTable
  BY <1>2, SchemaGrows DEF CreateTable
<1>3. CASE AddColumn
  BY <1>3, SchemaGrows DEF AddColumn
<1>4. CASE CreateIndex
  BY <1>4, SchemaGrows DEF CreateIndex
<1>5. CASE CommitUpgrade
  BY <1>5, CommitRight DEF CommitUpgrade
<1>6. CASE Crash
  BY <1>6, SchemaGrows DEF Crash
<1>7. CASE UNCHANGED schemaVars
  BY <1>7, SchemaGrows DEF schemaVars
<1> QED
  BY <1>1, <1>2, <1>3, <1>4, <1>5, <1>6, <1>7 DEF MigrationNext

-----------------------------------------------------------------------------
(* Whatever the version it started from and wherever it died: the recorded   *)
(* migrations are wholly in the schema, and the rows are those of the last   *)
(* of them.                                                                  *)
THEOREM UpgradeStays == MigrationSpec => []UpgradeInv
<1>1. UpgradeInv /\ [MigrationNext]_schemaVars => UpgradeInv'
  BY UpgradeStep
<1> QED
  BY <1>1, UpgradeInit, PTL DEF MigrationSpec

(* An upgraded installation has its tables and columns, headers that are the *)
(* sums of their own lines in one year, unless another order has the key of  *)
(* the other, and lines that an import finds again.                          *)
THEOREM UpgradeHolds == MigrationSpec => []UpgradedIsSound
<1>1. UpgradeInv => UpgradedIsSound
  <2> SUFFICES ASSUME UpgradeInv PROVE UpgradedIsSound
    OBVIOUS
  <2>1. PICK v \in 0..Current : recorded = 1..v /\ RowsAt(db, v)
    BY DEF UpgradeInv
  <2>2. v \in Nat
    BY DEF Current
  <2>3. Cardinality(1..v) = v
    <3>1. Cardinality(1..v) = IF 1 > v THEN 0 ELSE v - 1 + 1
      BY <2>2, FS_Interval
    <3> QED
      BY <2>2, <3>1
  <2>4. Pending = {} => HeadersRight(db.orders, db.lines)
    <3> SUFFICES ASSUME Pending = {} PROVE HeadersRight(db.orders, db.lines)
      OBVIOUS
    <3>1. 20 \in recorded
      BY DEF Pending, Current
    <3>2. v >= 18
      BY <2>1, <2>2, <3>1
    <3> QED
      BY <2>1, <3>2 DEF RowsAt
  <2> QED
    BY <2>1, <2>3, <2>4 DEF UpgradedIsSound, UpgradeInv, SchemaInv, HeadersRight
<1> QED
  BY <1>1, UpgradeStays, PTL

(* No upgrade loses a sale or an owner, no crash touches a row, and a header *)
(* takes its date and customer from lines it has or, where a copy went, had. *)
THEOREM UpgradeLosesNothing == MigrationSpec => UpgradeKeepsLedger
<1>1. UpgradeInv /\ [MigrationNext]_schemaVars =>
        [/\ db' # db => KeepsLedger(db, db')
         /\ process' = "down" => db' = db]_schemaVars
  BY UpgradeStep
<1> QED
  BY <1>1, UpgradeStays, PTL DEF MigrationSpec, UpgradeKeepsLedger
=============================================================================
