--------------------------- MODULE LearningProofs ---------------------------
(***************************************************************************)
(* What holds of the learning loop for every set of sales, customers and   *)
(* campaigns: what a measured member is, that the history of states is     *)
(* complete, that an analysis of the same file again is silent, that a     *)
(* closed campaign's measurement stands, that the arms have the shares     *)
(* that were asked for, that the readers of a group's counts agree, and    *)
(* that the table of effects rests on evidence and counts nobody twice.    *)
(***************************************************************************)
EXTENDS MCLearning, NatFacts, FiniteSetTheorems, TLAPS

(* The loop, and analyses that post nothing to the ledger.                   *)
Analyse(file) == file # {} /\ Features(file) /\ UNCHANGED learningVars
LoopNext == LearningNext \/ \E file \in Exports : Analyse(file)
LoopSpec == LearningInit /\ [][LoopNext]_allVars

-----------------------------------------------------------------------------
(* Days.                                                                     *)

(* A file of known sales up to some day.                                     *)
Analysable(file) ==
    /\ file # {} /\ file \subseteq Sales
    /\ \E b \in Nat : \A s \in file : s.day <= b

(* The last of some days up to a day is one of them.                         *)
LEMMA LastDay ==
    ASSUME NEW S \in SUBSET Nat, S # {}, NEW b \in Nat, \A n \in S : n <= b
    PROVE  Max(S) \in S /\ \A n \in S : n <= Max(S)
<1>1. PICK m \in S : \A n \in S : n <= m
  BY GreatestExists
<1>2. \E x \in S : \A y \in S : x >= y
  BY <1>1
<1>3. Max(S) \in S /\ \A y \in S : Max(S) >= y
  BY <1>2 DEF Max
<1> QED
  BY <1>3

(* The first of some days is one of them.                                    *)
LEMMA FirstDay ==
    ASSUME NEW S \in SUBSET Nat, S # {}
    PROVE  Min(S) \in S /\ \A n \in S : Min(S) <= n
<1>1. \E x \in S : \A y \in S : x =< y
  BY LeastExists
<1> QED
  BY <1>1 DEF Min

(* A file has a last day, and it is a day of a sale (as_of).                 *)
LEMMA FileHasADay ==
    ASSUME NEW file, Analysable(file)
    PROVE  AsOf(file) \in Dates /\ AsOf(file) \in Nat
<1> DEFINE S == {s.day : s \in file}
<1>1. PICK b \in Nat : \A s \in file : s.day <= b
  BY DEF Analysable
<1>2. S \in SUBSET Nat /\ S # {} /\ \A n \in S : n <= b
  BY <1>1, LifecycleAssumption DEF Analysable
<1>3. S \subseteq Dates
  BY DEF Analysable, Dates
<1> HIDE DEF S
<1>4. Max(S) \in S
  BY <1>2, LastDay
<1>5. AsOf(file) = Max(S)
  BY DEF AsOf, S
<1> QED
  BY <1>2, <1>3, <1>4, <1>5

(* What an upload may hold can be analysed.                                  *)
LEMMA ExportsAreAnalysable ==
    ASSUME sales \subseteq Sales, NEW file \in Exports, file # {}
    PROVE  Analysable(file) /\ file \subseteq sales /\ OneVersion(file)
<1>1. PICK book \in Books, d \in Dates, keys \in Scopes : file = {s \in book : s.day <= d /\ s.key \in keys}
  BY DEF Exports
<1>2. d \in Nat
  BY LifecycleAssumption DEF Dates
<1>3. book \subseteq sales /\ OneVersion(book)
  BY DEF Books
<1>4. OneVersion(file)
  BY <1>1, <1>3 DEF OneVersion
<1> QED
  BY <1>1, <1>2, <1>3, <1>4 DEF Analysable

(* And so can what was bought of it.                                         *)
LEMMA BoughtIsAnalysable ==
    ASSUME NEW file, Analysable(file), Bought(file) # {}
    PROVE  Analysable(Bought(file))
BY DEF Analysable, Bought

-----------------------------------------------------------------------------
(* Rows and events.                                                          *)

PastOf(c, asOf) == {d \in Dates : d < asOf /\ snapshot[c][d] # NoRow}

(* The last row before a day is of a day before it.                          *)
LEMMA PastIsBefore ==
    ASSUME NEW c, NEW asOf \in Nat, PastOf(c, asOf) # {}
    PROVE  Max(PastOf(c, asOf)) \in Dates /\ Max(PastOf(c, asOf)) < asOf
           /\ snapshot[c][Max(PastOf(c, asOf))] # NoRow
<1>1. Dates \subseteq Nat
  BY LifecycleAssumption DEF Dates
<1>2. PastOf(c, asOf) \in SUBSET Nat
  BY <1>1 DEF PastOf
<1>3. \A n \in PastOf(c, asOf) : n \in Nat /\ n < asOf
  BY <1>1 DEF PastOf
<1>4. \A n \in PastOf(c, asOf) : n <= asOf
  BY <1>3
<1>5. Max(PastOf(c, asOf)) \in PastOf(c, asOf)
  BY <1>2, <1>4, LastDay
<1> QED
  BY <1>5 DEF PastOf

(* A write of one day changes no row before it, and so not what a write of   *)
(* that day compares with.                                                   *)
LEMMA PreviousStays ==
    ASSUME NEW c, NEW asOf \in Nat, \A d \in Dates : d < asOf => snapshot'[c][d] = snapshot[c][d]
    PROVE  Previous(c, asOf)' = Previous(c, asOf)
<1> DEFINE past == PastOf(c, asOf)
           then == {d \in Dates : d < asOf /\ snapshot'[c][d] # NoRow}
<1>1. then = past
  BY DEF PastOf
<1>2. Previous(c, asOf) = IF past = {} THEN NoRow
                          ELSE [state |-> snapshot[c][Max(past)].state, asOf |-> Max(past)]
  BY DEF Previous, PastOf
<1>3. Previous(c, asOf)' = IF then = {} THEN NoRow
                           ELSE [state |-> snapshot'[c][Max(then)].state, asOf |-> Max(then)]
  BY DEF Previous
<1>4. past # {} => snapshot'[c][Max(past)] = snapshot[c][Max(past)]
  BY PastIsBefore
<1> HIDE DEF past, then
<1> QED
  BY <1>1, <1>2, <1>3, <1>4

(* Every customer is in one of the states.                                   *)
LEMMA ClassifiedIsAState ==
    ASSUME NEW f, NEW asOf, NEW population, NEW vip, NEW before
    PROVE  Classify(f, asOf, population, vip, before) \in States
BY DEF Classify, States, Lapsed

(* The customers of a file are customers.                                    *)
LEMMA KnownAreCustomers ==
    ASSUME NEW file
    PROVE  Known(file) \subseteq Customers
BY DEF Known, Customers

(* A verdict is of the customers of the file, and is a state.                *)
LEMMA VerdictsTyped ==
    ASSUME NEW file
    PROVE  DOMAIN Verdicts(file) = Known(file) /\ \A c \in Known(file) : Verdicts(file)[c] \in States
BY ClassifiedIsAState DEF Verdicts


-----------------------------------------------------------------------------
(* The invariant of the loop.                                                *)

(* An event says that a customer's state became this one on a day.           *)
Told(c, d, state) == \E e \in events : e.customer = c /\ e.asOf = d /\ e.to = state

(* Against what the write saw, the state is another one, or the first.       *)
Changed(before, state) == before = NoRow \/ before.state # state

DaysTyped ==
    /\ day \in Days /\ sales \subseteq Sales /\ ledger \subseteq sales
    /\ OneVersion(ledger)

EventsTyped ==
    \A e \in events : e.customer \in Customers /\ e.asOf \in Dates /\ e.to \in States /\ e.from \in States \cup {NoState}

(* A row is of its file, and a change it made was told.                      *)
RowTrue(row, c, d) ==
    /\ row.state \in States /\ AsOf(row.file) = d /\ c \in Known(row.file)
    /\ Changed(row.before, row.state) => Told(c, d, row.state)
RowsTrue ==
    /\ DOMAIN snapshot = Customers
    /\ \A c \in Customers : snapshot[c] = [d \in Dates |-> snapshot[c][d]]
    /\ \A c \in Customers, d \in Dates : snapshot[c][d] # NoRow => RowTrue(snapshot[c][d], c, d)

(* What the file written last says of its customers is what their rows say,  *)
(* and its changes were told: the invariant behind a silent second analysis. *)
Said(file) ==
    \A c \in Known(file) :
        LET d == AsOf(file) IN
        /\ snapshot[c][d].state = Verdicts(file)[c]
        /\ Changed(Previous(c, d), Verdicts(file)[c]) => Told(c, d, Verdicts(file)[c])
LatestSaid == \A file \in {latest} : file # NoFile => Analysable(file) /\ Said(file)

LifeInv == DaysTyped /\ EventsTyped /\ RowsTrue /\ LatestSaid

(* A member is measured only after his window began, in the window he has.   *)
(* Its orders are bounded by those that ever were in it, which only grow: the *)
(* lines of the ledger itself may be moved out of it.                        *)
MeasuredTrue ==
    \A k \in Campaigns : \A c \in Measured(k) :
        /\ c \in Active(k)
        /\ outcome[k][c].start = Start(member[k][c])
        /\ outcome[k][c].orders \in Nat
        /\ outcome[k][c].orders <= Cardinality(OrdersEverIn(member[k][c], c))
OutcomesTyped ==
    /\ closed \subseteq Campaigns /\ DOMAIN member = Campaigns
    /\ DOMAIN outcome = Campaigns /\ \A k \in Campaigns : DOMAIN outcome[k] = Customers

(* Between the upload and its features a chain holds a file of known sales.  *)
FilesKnown ==
    /\ DOMAIN worker = Workers
    /\ \A w \in Workers :
         /\ worker[w] = [at |-> worker[w].at, file |-> worker[w].file, table |-> worker[w].table]
         /\ worker[w].at = "features" => Analysable(worker[w].file)

LoopInv == LifeInv /\ OutcomesTyped /\ MeasuredTrue /\ FilesKnown

(* The loop starts right.                                                    *)
LEMMA LoopStarts == LearningInit => LoopInv
<1> SUFFICES ASSUME LearningInit PROVE LoopInv
  OBVIOUS
<1>1. Days \in SUBSET Nat /\ Days # {}
  BY LifecycleAssumption
<1>2. Min(Days) \in Days
  BY <1>1, FirstDay
<1>3. DaysTyped /\ EventsTyped
  BY <1>2 DEF DaysTyped, EventsTyped, LearningInit, LifecycleInit, OneVersion
<1>4. RowsTrue
  BY DEF RowsTrue, LearningInit, LifecycleInit
<1>5. LatestSaid
  BY DEF LatestSaid, LearningInit, LifecycleInit
<1>6. OutcomesTyped
  BY DEF OutcomesTyped, LearningInit
<1>7. MeasuredTrue
  BY DEF MeasuredTrue, Measured, LearningInit
<1>8. FilesKnown
  BY DEF FilesKnown, Idle, LearningInit
<1> QED
  BY <1>3, <1>4, <1>5, <1>6, <1>7, <1>8 DEF LoopInv, LifeInv

-----------------------------------------------------------------------------
(* The steps of a customer's life.                                           *)

(* A file says the same as long as the rows before its last day stand.       *)
LEMMA VerdictsStay ==
    ASSUME NEW file, Analysable(file),
           \A c \in Known(file), d \in Dates : d < AsOf(file) => snapshot'[c][d] = snapshot[c][d]
    PROVE  /\ Verdicts(file)' = Verdicts(file)
           /\ \A c \in Known(file) : Previous(c, AsOf(file))' = Previous(c, AsOf(file))
<1>1. AsOf(file) \in Nat
  BY FileHasADay
<1>2. ASSUME NEW c \in Known(file)
      PROVE  Previous(c, AsOf(file))' = Previous(c, AsOf(file))
  BY <1>1, PreviousStays
<1> QED
  BY <1>2 DEF Verdicts

(* Nothing of the snapshots moves: what holds of them stands.                *)
LEMMA RowsStand ==
    ASSUME RowsTrue, LatestSaid, EventsTyped, UNCHANGED <<snapshot, events, latest>>
    PROVE  RowsTrue' /\ LatestSaid' /\ EventsTyped'
<1>1. RowsTrue'
  BY DEF RowsTrue, RowTrue, Told
<1>2. EventsTyped'
  BY DEF EventsTyped
<1>3. ASSUME NEW file, file = latest, file # NoFile
      PROVE  Analysable(file) /\ Said(file)'
  <2>1. Analysable(file) /\ Said(file)
    BY <1>3 DEF LatestSaid
  <2>2. /\ Verdicts(file)' = Verdicts(file)
        /\ \A c \in Known(file) : Previous(c, AsOf(file))' = Previous(c, AsOf(file))
    BY <2>1, VerdictsStay
  <2> QED
    BY <2>1, <2>2 DEF Said, Told
<1>4. LatestSaid'
  BY <1>3 DEF LatestSaid
<1> QED
  BY <1>1, <1>2, <1>4


(* What the write of a file leaves in the rows.                              *)
LEMMA RowsWritten ==
    ASSUME RowsTrue, NEW file, Analysable(file), WriteFeatures(file)
    PROVE  /\ DOMAIN snapshot' = Customers
           /\ \A c \in Customers : snapshot'[c] = [d \in Dates |-> snapshot'[c][d]]
           /\ \A c \in Customers, d \in Dates :
                (c \in Known(file) /\ d = AsOf(file)) \/ snapshot'[c][d] = snapshot[c][d]
           /\ \A c \in Known(file) : snapshot'[c][AsOf(file)] = Row(file, c, Verdicts(file)[c])
<1> DEFINE verdict == Verdicts(file)
           d0 == AsOf(file)
           Written(c) == Row(file, c, verdict[c])
<1>1. DOMAIN verdict = Known(file) /\ Known(file) \subseteq Customers
  BY VerdictsTyped, KnownAreCustomers
<1>2. snapshot' = [c \in Customers |->
          IF c \in DOMAIN verdict THEN [snapshot[c] EXCEPT ![d0] = Written(c)] ELSE snapshot[c]]
  BY DEF WriteFeatures
<1>3. d0 \in Dates
  BY FileHasADay
<1>4. \A c \in Customers : snapshot[c] = [d \in Dates |-> snapshot[c][d]]
  BY DEF RowsTrue
<1> HIDE DEF verdict, d0, Written
<1>5. ASSUME NEW c \in Customers, c \in Known(file)
      PROVE  /\ snapshot'[c] = [d \in Dates |-> snapshot'[c][d]]
             /\ snapshot'[c][d0] = Written(c)
             /\ \A d \in Dates : d # d0 => snapshot'[c][d] = snapshot[c][d]
  <2>1. snapshot'[c] = [snapshot[c] EXCEPT ![d0] = Written(c)]
    BY <1>1, <1>2, <1>5
  <2>2. snapshot'[c] = [d \in Dates |-> IF d = d0 THEN Written(c) ELSE snapshot[c][d]]
    BY <2>1, <1>4, <1>3
  <2> QED
    BY <2>2, <1>3
<1>6. ASSUME NEW c \in Customers, c \notin Known(file)
      PROVE  snapshot'[c] = snapshot[c]
  BY <1>1, <1>2, <1>6
<1>7. DOMAIN snapshot' = Customers
  BY <1>2
<1>8. \A c \in Customers : snapshot'[c] = [d \in Dates |-> snapshot'[c][d]]
  BY <1>4, <1>5, <1>6
<1>9. \A c \in Customers, d \in Dates : (c \in Known(file) /\ d = d0) \/ snapshot'[c][d] = snapshot[c][d]
  BY <1>5, <1>6
<1>10. \A c \in Known(file) : snapshot'[c][d0] = Written(c)
  BY <1>1, <1>5
<1> QED
  BY <1>7, <1>8, <1>9, <1>10 DEF d0, Written, verdict

(* What a write compares with is a state.                                    *)
LEMMA PreviousIsAState ==
    ASSUME RowsTrue, NEW c \in Customers, NEW asOf \in Nat, Previous(c, asOf) # NoRow
    PROVE  Previous(c, asOf).state \in States
<1>1. PastOf(c, asOf) # {} /\ Previous(c, asOf).state = snapshot[c][Max(PastOf(c, asOf))].state
  BY DEF Previous, PastOf
<1>2. Max(PastOf(c, asOf)) \in Dates /\ snapshot[c][Max(PastOf(c, asOf))] # NoRow
  BY <1>1, PastIsBefore
<1> QED
  BY <1>1, <1>2 DEF RowsTrue, RowTrue

(* What a write finds changed is told after it; nothing told is forgotten.   *)
LEMMA ChangesTold ==
    ASSUME RowsTrue, EventsTyped, NEW file, Analysable(file), WriteFeatures(file)
    PROVE  /\ EventsTyped'
           /\ events \subseteq events'
           /\ \A c \in Known(file) : Changed(Previous(c, AsOf(file)), Verdicts(file)[c])
                => \E e \in events' : e.customer = c /\ e.asOf = AsOf(file) /\ e.to = Verdicts(file)[c]
<1> DEFINE verdict == Verdicts(file)
           d0 == AsOf(file)
           From(c) == IF Previous(c, d0) = NoRow THEN NoState ELSE Previous(c, d0).state
           Event(c) == [customer |-> c, asOf |-> d0, to |-> verdict[c], from |-> From(c)]
           changed == {c \in DOMAIN verdict : Changed(Previous(c, d0), verdict[c])}
           Untold(c) == \A e \in events : ~(e.customer = c /\ e.asOf = d0 /\ e.to = verdict[c])
<1>1. /\ DOMAIN verdict = Known(file) /\ Known(file) \subseteq Customers
      /\ \A c \in Known(file) : verdict[c] \in States
  BY VerdictsTyped, KnownAreCustomers
<1>2. d0 \in Dates
  BY FileHasADay
<1>3. events' = events \cup {Event(c) : c \in {x \in changed : Untold(x)}}
  BY Zenon DEF WriteFeatures, Transitions, Changed
<1>4. d0 \in Nat
  BY FileHasADay
<1>5. \A c \in Customers : From(c) \in States \cup {NoState}
  BY <1>4, PreviousIsAState
<1> HIDE DEF verdict, d0, From
<1>6. \A c \in changed : /\ c \in Known(file)
                         /\ Event(c).customer = c /\ Event(c).asOf = d0 /\ Event(c).to = verdict[c]
                         /\ Event(c).from = From(c)
  BY <1>1
<1> HIDE DEF Event
<1>7. EventsTyped'
  <2>1. ASSUME NEW e \in events'
        PROVE  e.customer \in Customers /\ e.asOf \in Dates /\ e.to \in States /\ e.from \in States \cup {NoState}
    <3>1. CASE e \in events
      BY <3>1 DEF EventsTyped
    <3>2. CASE e \notin events
      <4>1. PICK c \in changed : e = Event(c)
        BY <1>3, <3>2
      <4> QED
        BY <4>1, <1>1, <1>2, <1>5, <1>6
    <3> QED
      BY <3>1, <3>2
  <2> QED
    BY <2>1 DEF EventsTyped
<1>8. ASSUME NEW c \in Known(file), Changed(Previous(c, d0), verdict[c])
      PROVE  \E e \in events' : e.customer = c /\ e.asOf = d0 /\ e.to = verdict[c]
  <2>1. c \in changed
    BY <1>1, <1>8
  <2>2. CASE Untold(c)
    <3>1. Event(c) \in events'
      BY <1>3, <2>1, <2>2
    <3> QED
      BY <3>1, <2>1, <1>6
  <2>3. CASE ~Untold(c)
    BY <2>3, <1>3
  <2> QED
    BY <2>2, <2>3
<1>9. events \subseteq events'
  BY <1>3
<1> QED
  BY <1>7, <1>8, <1>9 DEF verdict, d0

(* A write keeps the snapshots' invariant, and what it wrote is what its     *)
(* file says.                                                                *)
LEMMA FeaturesKeep ==
    ASSUME RowsTrue, EventsTyped, NEW file, Analysable(file), WriteFeatures(file)
    PROVE  RowsTrue' /\ LatestSaid' /\ EventsTyped'
<1> DEFINE verdict == Verdicts(file)
           d0 == AsOf(file)
<1>1. /\ DOMAIN snapshot' = Customers
      /\ \A c \in Customers : snapshot'[c] = [d \in Dates |-> snapshot'[c][d]]
      /\ \A c \in Customers, d \in Dates : (c \in Known(file) /\ d = d0) \/ snapshot'[c][d] = snapshot[c][d]
      /\ \A c \in Known(file) : snapshot'[c][d0] = Row(file, c, verdict[c])
  BY RowsWritten
<1>2. /\ EventsTyped'
      /\ events \subseteq events'
      /\ \A c \in Known(file) : Changed(Previous(c, d0), verdict[c])
           => \E e \in events' : e.customer = c /\ e.asOf = d0 /\ e.to = verdict[c]
  BY ChangesTold
<1>3. /\ \A c \in Known(file) : c \in Customers /\ verdict[c] \in States
      /\ d0 \in Dates /\ d0 \in Nat
  BY VerdictsTyped, KnownAreCustomers, FileHasADay
<1>4. \A c \in Known(file) : LET r == Row(file, c, verdict[c]) IN
          r.state = verdict[c] /\ r.before = Previous(c, d0) /\ r.file = file
  BY DEF Row
<1>5. latest' = file
  BY DEF WriteFeatures
<1> HIDE DEF verdict, d0
<1>6. RowsTrue'
  <2>1. ASSUME NEW c \in Customers, NEW d \in Dates, snapshot'[c][d] # NoRow
        PROVE  RowTrue(snapshot[c][d], c, d)'
    <3>1. CASE c \in Known(file) /\ d = d0
      <4> DEFINE r == snapshot'[c][d]
      <4>1. r.state = verdict[c] /\ r.before = Previous(c, d0) /\ r.file = file
        BY <1>1, <1>4, <3>1
      <4>2. Changed(r.before, r.state) => \E e \in events' : e.customer = c /\ e.asOf = d /\ e.to = r.state
        BY <4>1, <1>2, <3>1
      <4>3. r.state \in States /\ AsOf(r.file) = d /\ c \in Known(r.file)
        BY <4>1, <1>3, <3>1 DEF d0
      <4> QED
        BY <4>2, <4>3 DEF RowTrue, Told, Changed
    <3>2. CASE snapshot'[c][d] = snapshot[c][d]
      <4>1. RowTrue(snapshot[c][d], c, d)
        BY <2>1, <3>2 DEF RowsTrue
      <4> QED
        BY <4>1, <3>2, <1>2 DEF RowTrue, Told, Changed
    <3> QED
      BY <3>1, <3>2, <1>1
  <2> QED
    BY <2>1, <1>1 DEF RowsTrue
<1>7. /\ verdict' = verdict
      /\ \A c \in Known(file) : Previous(c, d0)' = Previous(c, d0)
  <2>1. \A c \in Known(file), d \in Dates : d < d0 => snapshot'[c][d] = snapshot[c][d]
    BY <1>1, <1>3, LifecycleAssumption DEF Dates
  <2> QED
    BY <2>1, VerdictsStay DEF verdict, d0
<1>8. Said(file)'
  <2>1. \A c \in Known(file) : /\ snapshot'[c][d0].state = verdict[c]
                               /\ Changed(Previous(c, d0), verdict[c])
                                    => \E e \in events' : e.customer = c /\ e.asOf = d0 /\ e.to = verdict[c]
    BY <1>1, <1>2, <1>4
  <2> QED
    BY <2>1, <1>7 DEF Said, Told, Changed, verdict, d0
<1> QED
  BY <1>2, <1>5, <1>6, <1>8 DEF LatestSaid


(* A write of the file written last says nothing new.                        *)
LEMMA SecondIsSilent ==
    ASSUME RowsTrue, EventsTyped, LatestSaid,
           NEW file, file = latest, file # NoFile, WriteFeatures(file)
    PROVE  /\ events' = events
           /\ \A c \in Customers, d \in Dates : snapshot'[c][d].state = snapshot[c][d].state
<1> DEFINE verdict == Verdicts(file)
           d0 == AsOf(file)
           changed == {c \in DOMAIN verdict : Changed(Previous(c, d0), verdict[c])}
           Untold(c) == \A e \in events : ~(e.customer = c /\ e.asOf = d0 /\ e.to = verdict[c])
           From(c) == IF Previous(c, d0) = NoRow THEN NoState ELSE Previous(c, d0).state
           Event(c) == [customer |-> c, asOf |-> d0, to |-> verdict[c], from |-> From(c)]
<1>1. Analysable(file) /\ Said(file)
  BY DEF LatestSaid
<1>2. \A c \in Known(file) : /\ snapshot[c][d0].state = verdict[c]
                             /\ Changed(Previous(c, d0), verdict[c]) => Told(c, d0, verdict[c])
  BY <1>1 DEF Said
<1>3. /\ \A c \in Customers, d \in Dates : (c \in Known(file) /\ d = d0) \/ snapshot'[c][d] = snapshot[c][d]
      /\ \A c \in Known(file) : snapshot'[c][d0] = Row(file, c, verdict[c])
  BY <1>1, RowsWritten
<1>4. events' = events \cup {Event(c) : c \in {x \in changed : Untold(x)}}
  BY Zenon DEF WriteFeatures, Transitions, Changed
<1>5. DOMAIN verdict = Known(file)
  BY VerdictsTyped
<1>6. \A c \in Known(file) : Row(file, c, verdict[c]).state = verdict[c]
  BY DEF Row
<1> HIDE DEF verdict, d0, Event
<1>7. \A c \in changed : ~Untold(c)
  BY <1>2, <1>5 DEF Told
<1>8. events' = events
  BY <1>4, <1>7
<1>9. ASSUME NEW c \in Customers, NEW d \in Dates
      PROVE  snapshot'[c][d].state = snapshot[c][d].state
  <2>1. CASE c \in Known(file) /\ d = d0
    BY <2>1, <1>2, <1>3, <1>6
  <2>2. CASE snapshot'[c][d] = snapshot[c][d]
    BY <2>2
  <2> QED
    BY <2>1, <2>2, <1>3
<1> QED
  BY <1>8, <1>9

-----------------------------------------------------------------------------
(* The steps of a campaign.                                                  *)

(* A line of the books that is, or was, an order of the window.              *)
OrderOf(x, m, c) ==
    /\ ~x.ret /\ x.key \in DOMAIN Owner /\ Owner[x.key] = c
    /\ Start(m) <= x.day /\ x.day < Start(m) + Window

(* What was ever in a window can be counted, and a new version only adds.    *)
LEMMA WindowsGrow ==
    ASSUME sales \subseteq sales', sales' \subseteq Sales, NEW m, NEW c
    PROVE  /\ Cardinality(OrdersEverIn(m, c)) \in Nat /\ Cardinality(OrdersEverIn(m, c)') \in Nat
           /\ Cardinality(OrdersEverIn(m, c)) <= Cardinality(OrdersEverIn(m, c)')
<1> DEFINE was == {x \in sales : OrderOf(x, m, c)}
           is == {x \in sales' : OrderOf(x, m, c)}
           id == [x \in Sales |-> x.id]
<1>1. OrdersEverIn(m, c) = {x.id : x \in was} /\ OrdersEverIn(m, c)' = {x.id : x \in is}
  BY DEF OrdersEverIn, OrderOf, Start
<1>2. was \subseteq is /\ is \subseteq Sales
  OBVIOUS
<1> HIDE DEF was, is
<1>3. IsFiniteSet(is)
  BY <1>2, FS_Subset, LifecycleAssumption
<1>4. {id[x] : x \in is} = {x.id : x \in is}
  BY <1>2
<1>5. IsFiniteSet({id[x] : x \in is})
  <2> HIDE DEF id
  <2> QED
    BY <1>3, SizeAcross
<1>6. {x.id : x \in was} \subseteq {x.id : x \in is}
  BY <1>2
<1>7. IsFiniteSet({x.id : x \in is})
  BY <1>4, <1>5
<1>8. IsFiniteSet({x.id : x \in was}) /\ Cardinality({x.id : x \in was}) <= Cardinality({x.id : x \in is})
  BY <1>6, <1>7, FS_Subset
<1> QED
  BY <1>1, <1>7, <1>8, FS_CardinalityType

(* A count takes each order once: the ledger has one version of its line.    *)
LEMMA CountedOnce ==
    ASSUME DaysTyped, NEW m, NEW c
    PROVE  Counted(m, c).orders \in Nat /\ Counted(m, c).orders <= Cardinality(OrdersEverIn(m, c))
<1> DEFINE now == {x \in ledger : OrderOf(x, m, c)}
           ever == {x \in sales : OrderOf(x, m, c)}
           id == [x \in Sales |-> x.id]
<1>1. /\ Counted(m, c).orders = Cardinality({s \in InWindow(m, c) : ~s.ret})
      /\ {s \in InWindow(m, c) : ~s.ret} = now
  BY DEF Counted, InWindow, LedgerOf, OrderOf
<1>2. OrdersEverIn(m, c) = {x.id : x \in ever}
  BY DEF OrdersEverIn, OrderOf
<1>3. now \subseteq ever /\ ever \subseteq Sales /\ \A x, y \in now : x.id = y.id => x = y
  BY DEF DaysTyped, OneVersion
<1> HIDE DEF now, ever
<1>4. IsFiniteSet(ever) /\ IsFiniteSet(now)
  BY <1>3, FS_Subset, LifecycleAssumption
<1>5. /\ {id[x] : x \in now} = {x.id : x \in now} /\ {id[x] : x \in ever} = {x.id : x \in ever}
      /\ \A x, y \in now : id[x] = id[y] => x = y
  BY <1>3
<1>6. /\ Cardinality(now) \in Nat /\ Cardinality({id[x] : x \in now}) = Cardinality(now)
      /\ IsFiniteSet({id[x] : x \in ever})
  <2>1. \A x, y \in now : id[x] = id[y] => x = y
    BY <1>5
  <2> HIDE DEF id
  <2> QED
    BY <2>1, <1>4, SizeAcross
<1>7. {x.id : x \in now} \subseteq {x.id : x \in ever} /\ IsFiniteSet({x.id : x \in ever})
  BY <1>3, <1>5, <1>6
<1>8. Cardinality({x.id : x \in now}) <= Cardinality({x.id : x \in ever})
  BY <1>7, FS_Subset
<1> QED
  BY <1>1, <1>2, <1>5, <1>6, <1>8

(* A count gives every running campaign's active members the row of their    *)
(* windows and leaves all others alone.                                      *)
LEMMA CountKeeps ==
    ASSUME DaysTyped, OutcomesTyped, MeasuredTrue, CountOutcomes, UNCHANGED <<lifecycleVars, member, closed>>
    PROVE  OutcomesTyped' /\ MeasuredTrue' /\ \A k \in closed : outcome'[k] = outcome[k]
<1>1. outcome' = [k \in Campaigns |->
          IF k \in Running
          THEN [c \in Customers |-> IF c \in Active(k) THEN Counted(member[k][c], c) ELSE outcome[k][c]]
          ELSE outcome[k]]
  BY Zenon DEF CountOutcomes
<1>2. \A k \in closed : outcome'[k] = outcome[k]
  BY <1>1 DEF OutcomesTyped, Running
<1>3. \A k \in Campaigns : DOMAIN outcome'[k] = Customers
  BY <1>1 DEF OutcomesTyped
<1>4. OutcomesTyped'
  BY <1>1, <1>3 DEF OutcomesTyped
<1>5. ASSUME NEW k \in Campaigns, NEW c \in Customers, outcome'[k][c] # NoRow
      PROVE  /\ c \in Active(k)
             /\ outcome'[k][c].start = Start(member[k][c])
             /\ outcome'[k][c].orders \in Nat
             /\ outcome'[k][c].orders <= Cardinality(OrdersEverIn(member[k][c], c))
  <2>1. CASE k \in Running /\ c \in Active(k)
    <3>1. outcome'[k][c] = Counted(member[k][c], c)
      BY <1>1, <2>1
    <3>2. outcome'[k][c].start = Start(member[k][c])
      BY <3>1 DEF Counted
    <3> QED
      BY <2>1, <3>1, <3>2, CountedOnce
  <2>2. CASE ~(k \in Running /\ c \in Active(k))
    <3>1. outcome'[k][c] = outcome[k][c]
      BY <1>1, <2>2
    <3> QED
      BY <3>1, <1>5 DEF MeasuredTrue, Measured
  <2> QED
    BY <2>1, <2>2
<1>6. \A k \in Campaigns : Active(k)' = Active(k)
  BY DEF Active
<1>7. \A m, c : OrdersEverIn(m, c)' = OrdersEverIn(m, c) /\ Start(m)' = Start(m)
  BY DEF OrdersEverIn, Start, lifecycleVars
<1>8. MeasuredTrue'
  BY <1>5, <1>6, <1>7 DEF MeasuredTrue, Measured
<1> QED
  BY <1>2, <1>4, <1>8


(* Nothing is counted and no member moves: what is measured stays true,      *)
(* whatever is sold or corrected and however the ledger changes.             *)
LEMMA MeasuredStands ==
    ASSUME OutcomesTyped, MeasuredTrue, sales \subseteq sales', sales' \subseteq Sales,
           UNCHANGED <<member, outcome>>
    PROVE  MeasuredTrue'
<1>1. ASSUME NEW k \in Campaigns, NEW c \in Customers, outcome[k][c] # NoRow
      PROVE  /\ c \in Active(k)
             /\ outcome[k][c].start = Start(member[k][c]) /\ outcome[k][c].orders \in Nat
             /\ outcome[k][c].orders <= Cardinality(OrdersEverIn(member[k][c], c))'
  <2> DEFINE mine == member[k][c]
             old == Cardinality(OrdersEverIn(mine, c))
             new == Cardinality(OrdersEverIn(mine, c))'
  <2>1. c \in Active(k) /\ outcome[k][c].start = Start(mine) /\ outcome[k][c].orders \in Nat
        /\ outcome[k][c].orders <= old
    BY <1>1 DEF MeasuredTrue, Measured
  <2>2. \A m : /\ Cardinality(OrdersEverIn(m, c)) \in Nat /\ Cardinality(OrdersEverIn(m, c)') \in Nat
               /\ Cardinality(OrdersEverIn(m, c)) <= Cardinality(OrdersEverIn(m, c)')
    BY WindowsGrow
  <2>3. member' = member
    OBVIOUS
  <2>4. \A m : m = mine => OrdersEverIn(m, c)' = OrdersEverIn(mine, c)'
    BY <2>3 DEF OrdersEverIn, Start
  <2>5. old \in Nat /\ new \in Nat /\ old <= new
    BY <2>2, <2>4
  <2> HIDE DEF old
  <2> QED
    BY <2>1, <2>5
<1>2. \A k \in Campaigns : Active(k)' = Active(k) /\ \A c : Start(member[k][c])' = Start(member[k][c])
  BY DEF Active, Start
<1> QED
  BY <1>1, <1>2 DEF MeasuredTrue, Measured

(* A campaign is drawn, of members nobody has measured yet.                  *)
LEMMA AssignKeeps ==
    ASSUME OutcomesTyped, MeasuredTrue, NEW k0 \in Campaigns, Assign(k0)
    PROVE  OutcomesTyped' /\ MeasuredTrue'
<1>1. /\ member[k0] = << >> /\ UNCHANGED <<sales, closed, outcome>>
      /\ DOMAIN member' = DOMAIN member
      /\ \A k \in Campaigns \ {k0} : member'[k] = member[k]
  BY DEF Assign, OutcomesTyped, lifecycleVars
<1>2. Measured(k0) = {}
  <2>1. DOMAIN member[k0] = {}
    BY <1>1
  <2> QED
    BY <2>1 DEF MeasuredTrue, Active
<1>3. ASSUME NEW k \in Campaigns, NEW c \in Customers, outcome[k][c] # NoRow
      PROVE  /\ k # k0 /\ member'[k] = member[k] /\ c \in Active(k)
             /\ outcome[k][c].start = Start(member[k][c]) /\ outcome[k][c].orders \in Nat
             /\ outcome[k][c].orders <= Cardinality(OrdersEverIn(member[k][c], c))
  BY <1>1, <1>2, <1>3 DEF MeasuredTrue, Measured
<1>4. ASSUME NEW k \in Campaigns, NEW c, member'[k] = member[k]
      PROVE  /\ Start(member[k][c])' = Start(member[k][c]) /\ Active(k)' = Active(k)
             /\ OrdersEverIn(member[k][c], c)' = OrdersEverIn(member[k][c], c)
  BY <1>1, <1>4 DEF Start, Active, OrdersEverIn
<1>5. MeasuredTrue'
  BY <1>1, <1>3, <1>4 DEF MeasuredTrue, Measured
<1>6. OutcomesTyped'
  BY <1>1 DEF OutcomesTyped
<1> QED
  BY <1>5, <1>6

(* A member is contacted for the first time: his window begins now.          *)
LEMMA ContactKeeps ==
    ASSUME OutcomesTyped, MeasuredTrue, NEW k0 \in Campaigns, NEW c0 \in Customers, Contact(k0, c0)
    PROVE  OutcomesTyped' /\ MeasuredTrue'
<1>1. /\ UNCHANGED <<sales, closed, outcome>>
      /\ DOMAIN member' = DOMAIN member
      /\ \A k \in Campaigns : DOMAIN member'[k] = DOMAIN member[k]
      /\ \A k \in Campaigns : k # k0 => member'[k] = member[k]
      /\ \A k \in Campaigns : \A c : k # k0 \/ c # c0 => member'[k][c] = member[k][c]
  BY DEF Contact, OutcomesTyped, lifecycleVars
<1>2. c0 \notin Active(k0)
  BY DEF Active, Contact
<1>3. ASSUME NEW k \in Campaigns, NEW c \in Customers, outcome[k][c] # NoRow
      PROVE  /\ member'[k][c] = member[k][c] /\ c \in Active(k)
             /\ outcome[k][c].start = Start(member[k][c]) /\ outcome[k][c].orders \in Nat
             /\ outcome[k][c].orders <= Cardinality(OrdersEverIn(member[k][c], c))
  BY <1>1, <1>2, <1>3 DEF MeasuredTrue, Measured
<1>4. ASSUME NEW k \in Campaigns, NEW c, member'[k][c] = member[k][c]
      PROVE  /\ Start(member[k][c])' = Start(member[k][c])
             /\ c \in Active(k) => c \in Active(k)'
             /\ OrdersEverIn(member[k][c], c)' = OrdersEverIn(member[k][c], c)
  BY <1>1, <1>4 DEF Start, Active, OrdersEverIn
<1>5. MeasuredTrue'
  BY <1>1, <1>3, <1>4 DEF MeasuredTrue, Measured
<1>6. OutcomesTyped'
  BY <1>1 DEF OutcomesTyped
<1> QED
  BY <1>5, <1>6


-----------------------------------------------------------------------------
(* The steps of a chain.                                                     *)

(* A chain that goes on to any step but the features needs no file.          *)
LEMMA GoesOn ==
    ASSUME FilesKnown, NEW w0 \in Workers, NEW step, step # "features", Goto(w0, step)
    PROVE  FilesKnown'
<1>1. worker' = [worker EXCEPT ![w0].at = step]
  BY DEF Goto
<1>2. \A w \in Workers : w # w0 => worker'[w] = worker[w]
  BY <1>1 DEF FilesKnown
<1>3. worker[w0] = [at |-> worker[w0].at, file |-> worker[w0].file, table |-> worker[w0].table]
  BY DEF FilesKnown
<1>4. worker'[w0] = [worker[w0] EXCEPT !.at = step]
  BY <1>1 DEF FilesKnown
<1>5. worker'[w0] = [at |-> step, file |-> worker[w0].file, table |-> worker[w0].table]
  BY <1>3, <1>4
<1>6. DOMAIN worker' = Workers
  BY <1>1 DEF FilesKnown
<1> QED
  BY <1>2, <1>5, <1>6 DEF FilesKnown

(* A chain that has ended holds no file.                                     *)
LEMMA Ends ==
    ASSUME FilesKnown, NEW w0 \in Workers, Done(w0)
    PROVE  FilesKnown'
BY DEF FilesKnown, Done, Idle

(* A chain that built a table holds it.                                      *)
LEMMA BuildKeeps ==
    ASSUME FilesKnown, NEW w0 \in Workers, DoBuild(w0)
    PROVE  FilesKnown'
<1>1. PICK table : worker' = [worker EXCEPT ![w0].at = "save", ![w0].table = table]
  BY Zenon DEF DoBuild
<1>2. \A w \in Workers : w # w0 => worker'[w] = worker[w]
  BY <1>1 DEF FilesKnown
<1>3. worker[w0] = [at |-> worker[w0].at, file |-> worker[w0].file, table |-> worker[w0].table]
  BY DEF FilesKnown
<1>4. worker'[w0] = [[worker[w0] EXCEPT !.at = "save"] EXCEPT !.table = table]
  BY <1>1 DEF FilesKnown
<1>5. worker'[w0] = [at |-> "save", file |-> worker[w0].file, table |-> table]
  BY <1>3, <1>4
<1>6. DOMAIN worker' = Workers
  BY <1>1 DEF FilesKnown
<1> QED
  BY <1>2, <1>5, <1>6 DEF FilesKnown

(* Every step of the loop keeps the invariant, and none of them touches what *)
(* a closed campaign measured.                                               *)
ClosedStand == \A k \in closed : k \in closed' /\ outcome'[k] = outcome[k]

(* The day goes on, something is sold, or a line is corrected.               *)
LEMMA LivesOn ==
    ASSUME LoopInv, UNCHANGED <<ledger, snapshot, events, latest>>, UNCHANGED learningVars,
           day' \in Days, sales \subseteq sales', sales' \subseteq Sales
    PROVE  LoopInv' /\ ClosedStand
<1>1. RowsTrue' /\ LatestSaid' /\ EventsTyped'
  BY RowsStand DEF LoopInv, LifeInv
<1>2. DaysTyped'
  BY DEF LoopInv, LifeInv, DaysTyped, OneVersion
<1>3. UNCHANGED <<member, closed, outcome, saved, worker>>
  BY DEF learningVars
<1>5. MeasuredTrue'
  BY <1>3, MeasuredStands DEF LoopInv
<1>6. OutcomesTyped' /\ FilesKnown'
  BY <1>3 DEF LoopInv, OutcomesTyped, FilesKnown
<1>7. ClosedStand
  BY <1>3 DEF ClosedStand
<1> QED
  BY <1>1, <1>2, <1>5, <1>6, <1>7 DEF LoopInv, LifeInv

(* The days and sales stand, and so does what the customers are.             *)
LEMMA LifeStands ==
    ASSUME LifeInv, UNCHANGED lifecycleVars
    PROVE  LifeInv'
<1>1. UNCHANGED <<day, sales, ledger, snapshot, events, latest>>
  BY DEF lifecycleVars
<1>2. RowsTrue' /\ LatestSaid' /\ EventsTyped'
  BY <1>1, RowsStand DEF LifeInv
<1> QED
  BY <1>1, <1>2 DEF LifeInv, DaysTyped, OneVersion

(* The features of a file are written.                                       *)
LEMMA FeaturesKeepLoop ==
    ASSUME LoopInv, NEW file, Analysable(file), Features(file), UNCHANGED <<member, closed, outcome>>
    PROVE  LifeInv' /\ OutcomesTyped' /\ MeasuredTrue' /\ ClosedStand
<1>1. RowsTrue' /\ LatestSaid' /\ EventsTyped'
  <2>1. WriteFeatures(Bought(file)) /\ Analysable(Bought(file))
    BY BoughtIsAnalysable DEF Features, WriteFeatures
  <2> QED
    BY <2>1, FeaturesKeep DEF LoopInv, LifeInv
<1>2. DaysTyped' /\ sales' = sales
  BY DEF Features, LoopInv, LifeInv, DaysTyped, OneVersion
<1>3. MeasuredTrue'
  BY <1>2, MeasuredStands DEF LoopInv, LifeInv, DaysTyped
<1>4. OutcomesTyped' /\ ClosedStand
  BY DEF LoopInv, OutcomesTyped, ClosedStand
<1> QED
  BY <1>1, <1>2, <1>3, <1>4 DEF LifeInv


(* An upload is posted and its chain begins.                                 *)
LEMMA UploadKeeps ==
    ASSUME LoopInv, NEW w0 \in Workers, NEW file \in Exports, Upload(w0, file)
    PROVE  LoopInv' /\ ClosedStand
<1> DEFINE began == [at |-> "features", file |-> file, table |-> {}]
<1>1. /\ worker' = [worker EXCEPT ![w0] = began]
      /\ ledger' = {s \in ledger : \A t \in file : t.id # s.id} \cup file
      /\ file # {} /\ UNCHANGED <<day, sales, snapshot, events, latest, member, closed, outcome>>
  <2>1. /\ Idle = [at |-> "idle", file |-> NoFile, table |-> {}]
        /\ [Idle EXCEPT !.at = "features"] = [at |-> "features", file |-> NoFile, table |-> {}]
    BY DEF Idle
  <2>2. [Idle EXCEPT !.at = "features", !.file = file] = [[Idle EXCEPT !.at = "features"] EXCEPT !.file = file]
    OBVIOUS
  <2>3. [[at |-> "features", file |-> NoFile, table |-> {}] EXCEPT !.file = file] = began
    OBVIOUS
  <2>4. [Idle EXCEPT !.at = "features", !.file = file] = began
    BY <2>1, <2>2, <2>3, Zenon
  <2> QED
    BY <2>4 DEF Upload, Post
<1>2. sales \subseteq Sales
  BY DEF LoopInv, LifeInv, DaysTyped
<1>3. Analysable(file) /\ file \subseteq sales /\ OneVersion(file)
  BY <1>1, <1>2, ExportsAreAnalysable
<1>4. RowsTrue' /\ LatestSaid' /\ EventsTyped'
  BY <1>1, RowsStand DEF LoopInv, LifeInv
<1>5. DaysTyped'
  <2>1. OneVersion(ledger)'
    BY <1>1, <1>3 DEF LoopInv, LifeInv, DaysTyped, OneVersion
  <2> QED
    BY <1>1, <1>3, <2>1 DEF LoopInv, LifeInv, DaysTyped
<1>6. MeasuredTrue'
  BY <1>1, <1>2, MeasuredStands DEF LoopInv
<1>7. OutcomesTyped' /\ ClosedStand
  BY <1>1 DEF LoopInv, OutcomesTyped, ClosedStand
<1>8. FilesKnown'
  BY <1>1, <1>3 DEF LoopInv, FilesKnown
<1> QED
  BY <1>4, <1>5, <1>6, <1>7, <1>8 DEF LoopInv, LifeInv

(* A step of a chain whose upload was posted.                                *)
LEMMA ChainKeeps ==
    ASSUME LoopInv, NEW w0 \in Workers,
           DoFeatures(w0) \/ DoOutcomes(w0) \/ DoBuild(w0) \/ DoSave(w0) \/ Skip(w0) \/ StartRefresh(w0)
    PROVE  LoopInv' /\ ClosedStand
<1>1. CASE DoFeatures(w0)
  <2>1. PICK file : file = worker[w0].file
    OBVIOUS
  <2>2. Analysable(file) /\ Features(file) /\ UNCHANGED <<member, closed, outcome>>
    BY <1>1, <2>1 DEF DoFeatures, At, LoopInv, FilesKnown
  <2>3. LifeInv' /\ OutcomesTyped' /\ MeasuredTrue' /\ ClosedStand
    BY <2>2, FeaturesKeepLoop
  <2>4. FilesKnown'
    BY <1>1, GoesOn DEF DoFeatures, LoopInv
  <2> QED
    BY <2>3, <2>4 DEF LoopInv
<1>2. CASE DoOutcomes(w0)
  <2>1. CountOutcomes /\ Goto(w0, "build") /\ UNCHANGED lifecycleVars /\ UNCHANGED <<member, closed>>
    BY <1>2 DEF DoOutcomes
  <2>2. LifeInv'
    BY <2>1, LifeStands DEF LoopInv
  <2>3. OutcomesTyped' /\ MeasuredTrue' /\ ClosedStand
    BY <2>1, CountKeeps DEF LoopInv, LifeInv, ClosedStand
  <2>4. FilesKnown'
    BY <2>1, GoesOn DEF LoopInv
  <2> QED
    BY <2>2, <2>3, <2>4 DEF LoopInv
<1>3. CASE DoBuild(w0) \/ DoSave(w0) \/ Skip(w0) \/ StartRefresh(w0)
  <2>1. UNCHANGED lifecycleVars /\ UNCHANGED <<member, closed, outcome>>
    BY <1>3, Zenon DEF DoBuild, DoSave, Skip, StartRefresh
  <2>2. LifeInv'
    BY <2>1, LifeStands DEF LoopInv
  <2>3. sales' = sales
    BY <2>1 DEF lifecycleVars
  <2>4. MeasuredTrue'
    BY <2>1, <2>3, MeasuredStands DEF LoopInv, LifeInv, DaysTyped
  <2>5. OutcomesTyped' /\ ClosedStand
    BY <2>1 DEF LoopInv, OutcomesTyped, ClosedStand
  <2>6. CASE DoBuild(w0)
    BY <2>2, <2>4, <2>5, <2>6, BuildKeeps DEF LoopInv
  <2>7. CASE DoSave(w0)
    <3>1. FilesKnown'
      BY <2>7, Ends DEF DoSave, LoopInv
    <3> QED
      BY <2>2, <2>4, <2>5, <3>1 DEF LoopInv
  <2>8. CASE StartRefresh(w0)
    <3>1. FilesKnown'
      BY <2>8, GoesOn DEF StartRefresh, LoopInv
    <3> QED
      BY <2>2, <2>4, <2>5, <3>1 DEF LoopInv
  <2>9. CASE Skip(w0)
    <3>1. Done(w0) \/ Goto(w0, "outcomes") \/ Goto(w0, "build")
      BY <2>9 DEF Skip, Follows
    <3>2. FilesKnown'
      BY <3>1, GoesOn, Ends DEF LoopInv
    <3> QED
      BY <2>2, <2>4, <2>5, <3>2 DEF LoopInv
  <2> QED
    BY <1>3, <2>6, <2>7, <2>8, <2>9
<1> QED
  BY <1>1, <1>2, <1>3

(* A step of a campaign or of the counting of all.                           *)
LEMMA CampaignsKeep ==
    ASSUME LoopInv,
           \/ \E k \in Campaigns : Assign(k) \/ Close(k) \/ \E c \in Customers : Contact(k, c)
           \/ RefreshOutcomes
    PROVE  LoopInv' /\ ClosedStand
<1>1. UNCHANGED lifecycleVars /\ UNCHANGED worker
  BY Zenon DEF Assign, Close, Contact, RefreshOutcomes
<1>2. LifeInv' /\ FilesKnown' /\ sales' = sales
  BY <1>1, LifeStands DEF LoopInv, FilesKnown, lifecycleVars
<1>3. ASSUME NEW k \in Campaigns, Assign(k)
      PROVE  OutcomesTyped' /\ MeasuredTrue' /\ ClosedStand
  BY <1>3, AssignKeeps DEF LoopInv, ClosedStand, Assign
<1>4. ASSUME NEW k \in Campaigns, NEW c \in Customers, Contact(k, c)
      PROVE  OutcomesTyped' /\ MeasuredTrue' /\ ClosedStand
  BY <1>4, ContactKeeps DEF LoopInv, ClosedStand, Contact
<1>5. ASSUME NEW k \in Campaigns, Close(k)
      PROVE  OutcomesTyped' /\ MeasuredTrue' /\ ClosedStand
  <2>1. closed' = closed \cup {k} /\ UNCHANGED <<member, outcome>>
    BY <1>5 DEF Close
  <2>2. MeasuredTrue'
    BY <1>2, <2>1, MeasuredStands DEF LoopInv, LifeInv, DaysTyped
  <2> QED
    BY <2>1, <2>2 DEF LoopInv, OutcomesTyped, ClosedStand
<1>6. CASE RefreshOutcomes
  <2>1. CountOutcomes /\ UNCHANGED lifecycleVars /\ UNCHANGED <<member, closed>>
    BY <1>6 DEF RefreshOutcomes
  <2>2. OutcomesTyped' /\ MeasuredTrue' /\ \A k \in closed : outcome'[k] = outcome[k]
    BY <2>1, CountKeeps DEF LoopInv, LifeInv
  <2> QED
    BY <1>2, <2>1, <2>2 DEF ClosedStand, LoopInv
<1> QED
  BY <1>2, <1>3, <1>4, <1>5, <1>6 DEF LoopInv

(* Every step of the loop keeps the invariant, and what a closed campaign    *)
(* measured.                                                                 *)
LEMMA LoopKeeps ==
    ASSUME LoopInv, [LoopNext]_allVars
    PROVE  LoopInv' /\ ClosedStand
<1>1. Days \in SUBSET Nat /\ day \in Nat /\ DaysTyped /\ sales \subseteq Sales /\ FilesKnown
  BY LifecycleAssumption DEF LoopInv, LifeInv, DaysTyped
<1>2. ASSUME NEW s \in Sales, Sell(s) \/ Correct(s), UNCHANGED learningVars
      PROVE  LoopInv' /\ ClosedStand
  <2>1. /\ UNCHANGED <<ledger, snapshot, events, latest>> /\ day' \in Days
        /\ sales \subseteq sales' /\ sales' \subseteq Sales
    BY <1>1, <1>2 DEF Sell, Correct, DaysTyped
  <2> QED
    BY <1>2, <2>1, LivesOn
<1>3. ASSUME NextDay, UNCHANGED learningVars
      PROVE  LoopInv' /\ ClosedStand
  <2> DEFINE later == {d \in Days : d > day}
  <2>1. later \in SUBSET Nat /\ later # {} /\ day' = Min(later)
    BY <1>1, <1>3 DEF NextDay
  <2> HIDE DEF later
  <2>2. day' \in later
    BY <2>1, FirstDay
  <2>3. day' \in Days
    BY <2>2 DEF later
  <2>4. UNCHANGED <<sales, ledger, snapshot, events, latest>>
    BY <1>3 DEF NextDay
  <2> QED
    BY <1>1, <1>3, <2>3, <2>4, LivesOn
<1>4. ASSUME NEW file \in Exports, Analyse(file)
      PROVE  LoopInv' /\ ClosedStand
  <2>1. Analysable(file)
    BY <1>1, <1>4, ExportsAreAnalysable DEF Analyse
  <2>2. UNCHANGED <<member, closed, outcome, worker>>
    BY <1>4 DEF Analyse, learningVars
  <2>3. FilesKnown'
    BY <1>1, <2>2 DEF FilesKnown
  <2> QED
    BY <1>4, <2>1, <2>2, <2>3, FeaturesKeepLoop DEF Analyse, LoopInv
<1>5. CASE UNCHANGED allVars
  BY <1>1, <1>5, LivesOn DEF allVars, lifecycleVars, DaysTyped
<1> QED
  BY <1>2, <1>3, <1>4, <1>5, UploadKeeps, ChainKeeps, CampaignsKeep, Zenon DEF LoopNext, LearningNext


(* Rows and events are only ever written for a file.                         *)
LEMMA WritesAreOfAFile ==
    ASSUME [LoopNext]_allVars
    PROVE  UNCHANGED <<snapshot, events>> \/ \E file : WriteFeatures(file) /\ latest' = file
<1>1. ASSUME NEW file, Features(file)
      PROVE  WriteFeatures(Bought(file)) /\ latest' = Bought(file)
  BY <1>1 DEF Features, WriteFeatures
<1>2. ASSUME NEW s, Sell(s) \/ Correct(s) PROVE UNCHANGED <<snapshot, events>>
  BY <1>2 DEF Sell, Correct
<1>3. CASE NextDay
  BY <1>3 DEF NextDay
<1>4. CASE UNCHANGED lifecycleVars
  BY <1>4 DEF lifecycleVars
<1>5. CASE \E k \in Campaigns : Assign(k) \/ Close(k) \/ \E c \in Customers : Contact(k, c)
  BY <1>4, <1>5, Zenon DEF Assign, Close, Contact
<1>6. ASSUME NEW w \in Workers, NEW file, Upload(w, file)
      PROVE  UNCHANGED <<snapshot, events>>
  BY <1>6 DEF Upload, Post
<1>7. ASSUME NEW w \in Workers, DoFeatures(w)
      PROVE  \E file : WriteFeatures(file) /\ latest' = file
  BY <1>1, <1>7 DEF DoFeatures
<1>8. CASE \/ \E w \in Workers : DoOutcomes(w) \/ DoBuild(w) \/ DoSave(w) \/ Skip(w) \/ StartRefresh(w)
           \/ RefreshOutcomes
  BY <1>4, <1>8, Zenon DEF DoOutcomes, DoBuild, DoSave, Skip, StartRefresh, RefreshOutcomes
<1>9. CASE UNCHANGED allVars
  BY <1>4, <1>9 DEF allVars
<1> QED
  BY <1>1, <1>2, <1>3, <1>5, <1>6, <1>7, <1>8, <1>9, Zenon DEF LoopNext, LearningNext, Analyse

-----------------------------------------------------------------------------
(* The theorems.                                                             *)

(* What the loop's invariant gives: the types, and the complete history.     *)
LEMMA LoopPromises ==
    ASSUME LoopInv
    PROVE  LearningTypeOK /\ ChangesRecorded
<1>1. LifecycleTypeOK
  BY DEF LoopInv, LifeInv, DaysTyped, EventsTyped, RowsTrue, RowTrue, LifecycleTypeOK
<1>2. LearningTypeOK
  BY <1>1 DEF LoopInv, OutcomesTyped, MeasuredTrue, LearningTypeOK
<1>3. ChangesRecorded
  BY DEF LoopInv, LifeInv, RowsTrue, RowTrue, Changed, Told, ChangesRecorded
<1> QED
  BY <1>2, <1>3

(* Every run of the loop, of any uploads, analyses and chains, keeps its     *)
(* invariant.                                                                *)
THEOREM LoopIsSound == LoopSpec => []LoopInv
<1>1. LearningInit => LoopInv
  BY LoopStarts
<1>2. LoopInv /\ [LoopNext]_allVars => LoopInv'
  BY LoopKeeps
<1> QED
  BY <1>1, <1>2, PTL DEF LoopSpec

(* Every row, event and file is of the shape the transactions write; a       *)
(* measured member is one whose window began, and however uploads correct    *)
(* each other's lines (_upsert_lines) his row counts no order twice and none *)
(* that never was in his window (compute_campaign_outcomes).                 *)
THEOREM MembersAreMeasured == LoopSpec => []LearningTypeOK
<1>1. LoopInv => LearningTypeOK
  BY LoopPromises
<1> QED
  BY <1>1, LoopIsSound, PTL

(* The history is complete: a row that differs from the row its write saw has *)
(* its event, whatever uploads and retries came between                      *)
(* (write_customer_features, _record_transitions).                           *)
THEOREM ChangesAreRecorded == LoopSpec => []ChangesRecorded
<1>1. LoopInv => ChangesRecorded
  BY LoopPromises
<1> QED
  BY <1>1, LoopIsSound, PTL

(* An analysis of the same file again changes no state and tells nothing:    *)
(* rows of the same day are not what a write compares with.                  *)
THEOREM SameFileIsSilent == LoopSpec => SameFileSilent
<1> DEFINE Silent == latest' = latest /\ latest # NoFile =>
                       events' = events /\ \A c \in Customers, d \in Dates :
                           snapshot[c][d] # NoRow => snapshot'[c][d].state = snapshot[c][d].state
<1>1. LoopInv /\ [LoopNext]_allVars => [Silent]_lifecycleVars
  <2> SUFFICES ASSUME LoopInv, [LoopNext]_allVars, latest' = latest, latest # NoFile
               PROVE  events' = events /\ \A c \in Customers, d \in Dates :
                          snapshot[c][d] # NoRow => snapshot'[c][d].state = snapshot[c][d].state
    OBVIOUS
  <2>1. CASE UNCHANGED <<snapshot, events>>
    BY <2>1
  <2>2. CASE \E file : WriteFeatures(file) /\ latest' = file
    BY <2>2, SecondIsSilent DEF LoopInv, LifeInv
  <2> QED
    BY <2>1, <2>2, WritesAreOfAFile
<1> QED
  BY <1>1, LoopIsSound, PTL DEF LoopSpec, SameFileSilent

(* A closed campaign's outcomes stand and it is never reopened: no count,    *)
(* upload, corrected line or later contact of its members changes them       *)
(* (compute_campaign_outcomes, close_campaign).                              *)
THEOREM ClosedStays == LoopSpec => ClosedIsMeasured
<1>1. LoopInv /\ [LoopNext]_allVars => [\A k \in closed : k \in closed' /\ outcome'[k] = outcome[k]]_allVars
  BY LoopKeeps DEF ClosedStand
<1> QED
  BY <1>1, LoopIsSound, PTL DEF LoopSpec, ClosedIsMeasured

(* The loop of the upload alone, and the instance that model checking walks  *)
(* through, are runs of it.                                                  *)
THEOREM LoopsAreRuns == (LearningSpec => LoopSpec) /\ (MCSpec => LoopSpec)
<1>1. [LearningNext]_allVars => [LoopNext]_allVars
  BY DEF LoopNext
<1>2. MCInit => LearningInit
  BY DEF MCInit
<1>3. [MCNext]_mcVars => [LoopNext]_allVars
  <2>1. ASSUME Life PROVE LoopNext
    BY <2>1, InstanceAssumption DEF Life, LoopNext, LearningNext, Analyse
  <2>2. Learn => LoopNext
    BY DEF Learn, LoopNext
  <2> QED
    BY <2>1, <2>2 DEF MCNext, mcVars
<1> QED
  BY <1>1, <1>2, <1>3, PTL DEF LearningSpec, LoopSpec, MCSpec


-----------------------------------------------------------------------------
(* The arms.                                                                 *)

(* A hundredth rounded up is the least number that reaches it.               *)
LEMMA HundredthRoundedUp ==
    ASSUME NEW a \in Nat
    PROVE  /\ CeilDiv(a, 100) \in Nat /\ CeilDiv(a, 100) * 100 >= a
           /\ \A m \in Nat : m * 100 >= a => CeilDiv(a, 100) <= m
           /\ \A p \in 0..100 : CeilDiv(a + p, 100) - CeilDiv(a, 100) \in {0, 1}
BY DEF CeilDiv

(* For every size of a stratum and every percentage, the control arm is the  *)
(* smallest that reaches the share asked for, unless that is everybody; two  *)
(* or more members and any holdout give both arms a member; and one more     *)
(* member adds at most one to it (assign_arms).                              *)
LEMMA ControlShare ==
    ASSUME NEW n \in Nat, NEW pct \in Int
    PROVE  /\ n > 0 => NControl(n, pct) \in
                {m \in 0..(n - 1) : /\ m \in {x \in 0..n : x * 100 >= n * Clamp(pct)}
                                    /\ \A l \in {x \in 0..n : x * 100 >= n * Clamp(pct)} : m <= l}
                \cup {m \in {n - 1} : \A l \in {x \in 0..n : x * 100 >= n * Clamp(pct)} : m < l}
           /\ n >= 2 /\ pct > 0 => NControl(n, pct) \in 1..(n - 1)
           /\ pct <= 0 => NControl(n, pct) = 0
           /\ NControl(n + 1, pct) - NControl(n, pct) \in {0, 1}
<1> DEFINE p == Clamp(pct)
           a == n * p
           wanted == CeilDiv(a, 100)
           next == CeilDiv(a + p, 100)
           enough == {m \in 0..n : m * 100 >= a}
<1>1. /\ n \in Nat /\ pct \in Int /\ p \in 0..100
      /\ (pct > 0 => p >= 1) /\ (pct <= 0 => p = 0)
  BY DEF Clamp
<1>2. /\ a \in Nat /\ a <= n * 100 /\ (n + 1) * p = a + p
      /\ (n >= 1 /\ pct > 0 => a >= 1) /\ (pct <= 0 => a = 0)
  <2> HIDE DEF p
  <2>1. n * p \in Nat /\ n * p <= n * 100 /\ (n + 1) * p = n * p + p
    BY <1>1
  <2>2. n >= 1 /\ p >= 1 => n * p >= 1
    BY <1>1
  <2>3. p = 0 => n * p = 0
    BY <1>1
  <2> QED
    BY <1>1, <2>1, <2>2, <2>3
<1> HIDE DEF p, a
<1>3. /\ wanted \in Nat /\ wanted * 100 >= a
      /\ \A m \in Nat : m * 100 >= a => wanted <= m
      /\ next - wanted \in {0, 1} /\ next \in Nat
  <2>1. a \in Nat /\ a + p \in Nat
    BY <1>1, <1>2
  <2> HIDE DEF wanted, next
  <2>2. /\ wanted \in Nat /\ wanted * 100 >= a
        /\ \A m \in Nat : m * 100 >= a => wanted <= m
        /\ next - wanted \in {0, 1}
    BY <1>1, <2>1, HundredthRoundedUp DEF wanted, next
  <2>3. next \in Nat
    BY <2>1, HundredthRoundedUp DEF next
  <2> QED
    BY <2>2, <2>3
<1> HIDE DEF wanted, next
<1>4. wanted <= n /\ (a >= 1 => wanted >= 1) /\ (a = 0 => wanted = 0)
  <2>1. a = 0 => 0 * 100 >= a
    BY <1>2
  <2> QED
    BY <1>1, <1>2, <1>3, <2>1
<1>5. /\ NControl(n, pct) = IF n = 0 THEN 0 ELSE IF wanted < n THEN wanted ELSE n - 1
      /\ NControl(n + 1, pct) = IF n + 1 = 0 THEN 0 ELSE IF next < n + 1 THEN next ELSE (n + 1) - 1
  <2>1. CeilDiv(n * Clamp(pct), 100) = wanted
    BY DEF wanted, a, p
  <2>2. (n + 1) * Clamp(pct) = a + p
    BY <1>2 DEF p
  <2>3. CeilDiv((n + 1) * Clamp(pct), 100) = next
    BY <2>2, Zenon DEF next
  <2>4. \A m : NControl(m, pct) = IF m = 0 THEN 0
                                  ELSE IF CeilDiv(m * Clamp(pct), 100) < m THEN CeilDiv(m * Clamp(pct), 100)
                                  ELSE m - 1
    BY DEF NControl
  <2>5. NControl(n, pct) = IF n = 0 THEN 0 ELSE IF wanted < n THEN wanted ELSE n - 1
    BY <2>1, <2>4, Zenon
  <2>6. NControl(n + 1, pct) = IF n + 1 = 0 THEN 0 ELSE IF next < n + 1 THEN next ELSE (n + 1) - 1
    BY <2>3, <2>4, Zenon
  <2> QED
    BY <2>5, <2>6
<1>6. n >= 2 /\ pct > 0 => NControl(n, pct) \in 1..(n - 1)
  BY <1>1, <1>2, <1>3, <1>4, <1>5
<1>7. pct <= 0 => NControl(n, pct) = 0
  BY <1>1, <1>2, <1>3, <1>4, <1>5
<1>8. NControl(n + 1, pct) - NControl(n, pct) \in {0, 1}
  BY <1>1, <1>2, <1>3, <1>4, <1>5
<1>9. ASSUME n > 0
      PROVE  NControl(n, pct) \in {m \in 0..(n - 1) : m \in enough /\ \A l \in enough : m <= l}
                                  \cup {m \in {n - 1} : \A l \in enough : m < l}
  <2>1. wanted \in enough /\ \A l \in enough : wanted <= l
    BY <1>1, <1>2, <1>3, <1>4
  <2>2. CASE wanted < n
    BY <1>1, <1>3, <1>5, <1>9, <2>1, <2>2
  <2>3. CASE wanted = n
    BY <1>1, <1>3, <1>5, <1>9, <2>1, <2>3
  <2> QED
    BY <1>1, <1>3, <1>4, <2>2, <2>3
<1> QED
  BY <1>6, <1>7, <1>8, <1>9 DEF p, a

(* The same of the stratum at hand.                                          *)
THEOREM SharesAreAsked ==
    ASSUME stratum \in Nat \X Int
    PROVE  ArmShares
<1> DEFINE n == stratum[1]
           pct == stratum[2]
<1>1. n \in Nat /\ pct \in Int
  OBVIOUS
<1> HIDE DEF n, pct
<1> QED
  BY <1>1, ControlShare, Zenon DEF ArmShares, n, pct

-----------------------------------------------------------------------------
(* The readers of the counts.                                                *)

(* A whole number divided. *)
LEMMA Divided ==
    ASSUME NEW a \in Nat, NEW b \in Nat, b >= 1
    PROVE  /\ a \div b \in Nat /\ a % b \in 0..(b - 1)
           /\ a = b * (a \div b) + (a % b)
  OBVIOUS

(* Something divided and rounded up is something.                           *)
LEMMA RoundedUpPositive ==
    ASSUME NEW a \in Nat, NEW b \in Nat, a >= 1, b >= 1
    PROVE  RoundedUp(a, b) \in Nat /\ RoundedUp(a, b) >= 1
<1> DEFINE q == (a + b - 1) \div b
           r == (a + b - 1) % b
<1>0. a + b - 1 \in Nat
  OBVIOUS
<1> HIDE DEF q, r
<1>1. q \in Nat /\ r \in 0..(b - 1) /\ a + b - 1 = b * q + r
  BY <1>0, Divided, Zenon DEF q, r
<1>2. q = 0 => b * q = 0
  BY <1>1
<1> QED
  BY <1>1, <1>2 DEF RoundedUp, q

(* A campaign with one control member or more at a holdout of a half or less has
   two members at least.                                                     *)
LEMMA AtLeastTwo ==
    ASSUME NEW c \in Nat, c >= 1
    PROVE  Rounded(c * 100, Holdout) \in Nat /\ Rounded(c * 100, Holdout) >= 2
<1> DEFINE q == (c * 100) \div Holdout
           r == (c * 100) % Holdout
<1>1. Holdout \in 5..50
  BY UpliftAssumption
<1>0. c * 100 \in Nat /\ Holdout \in Nat /\ Holdout >= 1
  BY <1>1
<1>2. q \in Nat /\ r \in 0..(Holdout - 1) /\ c * 100 = Holdout * q + r
  BY <1>0, Divided, Zenon
<1>3. Rounded(c * 100, Holdout) \in {q, q + 1}
  BY DEF Rounded
<1> HIDE DEF q, r
<1>4. q = 0 => Holdout * q = 0
  BY <1>1, <1>2
<1>5. q = 1 => Holdout * q = Holdout
  BY <1>1, <1>2
<1>6. q >= 2
  BY <1>1, <1>2, <1>4, <1>5
<1> QED
  BY <1>2, <1>3, <1>6

(* Counts of a group: of either arm no more buyers than members.             *)
CountsTyped(k) ==
    k \in [nt : Nat, nc : Nat, ct : Nat, cc : Nat] /\ k.ct <= k.nt /\ k.cc <= k.nc

(* The base rate the plan calculates with is neither nought nor one.         *)
LEMMA BaselineVaries ==
    ASSUME NEW k, CountsTyped(k), NEW all, CountsTyped(all)
    PROVE  LET b == Baseline(k, all) IN
           b.num \in Nat /\ b.den \in Nat /\ b.num >= 1 /\ b.num < b.den
<1> DEFINE rate == IF k.nc >= MinCell THEN [num |-> k.cc, den |-> k.nc, source |-> "cell_control"]
                   ELSE IF all.nc > 0 THEN [num |-> all.cc, den |-> all.nc, source |-> "global_control"] ELSE Assumed
<1>1. rate.num \in Nat /\ rate.den \in Nat /\ rate.num <= rate.den
  BY DEF CountsTyped, Assumed
<1>2. Baseline(k, all) = IF rate.num = 0 \/ rate.num = rate.den THEN Assumed ELSE rate
  BY DEF Baseline
<1> HIDE DEF rate
<1> QED
  BY <1>1, <1>2 DEF Assumed

(* Whatever was measured, an experiment asks for two members or more.        *)
LEMMA PlanNeedsTwo ==
    ASSUME NEW k, CountsTyped(k), NEW all, CountsTyped(all)
    PROVE  RequiredTotal(Baseline(k, all)) \in Nat /\ RequiredTotal(Baseline(k, all)) >= 2
<1> DEFINE b == Baseline(k, all)
           a == b.num * (b.den - b.num) * 3841000
           d == b.den * b.den * (100 - Holdout) * Target * Target
<1>1. b.num \in Nat /\ b.den \in Nat /\ b.num >= 1 /\ b.num < b.den
  BY BaselineVaries
<1>2. Holdout \in 5..50 /\ Target \in 1..99
  BY UpliftAssumption
<1> HIDE DEF b
<1>3. \A x, y \in Nat : x >= 1 /\ y >= 1 => x * y \in Nat /\ x * y >= 1
  OBVIOUS
<1>4. b.num * (b.den - b.num) \in Nat /\ b.num * (b.den - b.num) >= 1
  BY <1>1, <1>3
<1>5. a \in Nat /\ a >= 1
  BY <1>4
<1>6. b.den * b.den \in Nat /\ b.den * b.den >= 1
  BY <1>1, <1>3
<1>7. b.den * b.den * (100 - Holdout) \in Nat /\ b.den * b.den * (100 - Holdout) >= 1
  BY <1>2, <1>3, <1>6
<1>8. b.den * b.den * (100 - Holdout) * Target \in Nat /\ b.den * b.den * (100 - Holdout) * Target >= 1
  BY <1>2, <1>3, <1>7
<1>9. d \in Nat /\ d >= 1
  BY <1>2, <1>3, <1>8
<1> HIDE DEF a, d
<1>10. ControlNeeded(b) = RoundedUp(a, d)
  BY DEF ControlNeeded, a, d
<1>11. ControlNeeded(b) \in Nat /\ ControlNeeded(b) >= 1
  BY <1>5, <1>9, <1>10, RoundedUpPositive
<1> QED
  BY <1>11, AtLeastTwo DEF RequiredTotal, b

(* A campaign of the planned size, split with the planned share, has members in
   both arms.                                                                *)
LEMMA PlannedSplits ==
    ASSUME NEW k, CountsTyped(k), NEW all, CountsTyped(all)
    PROVE  LET n == RequiredTotal(Baseline(k, all)) IN NControl(n, Holdout) \in 1..(n - 1)
<1>1. RequiredTotal(Baseline(k, all)) \in Nat /\ RequiredTotal(Baseline(k, all)) >= 2
  BY PlanNeedsTwo
<1>2. Holdout \in Int /\ Holdout > 0
  BY UpliftAssumption
<1> QED
  BY <1>1, <1>2, ControlShare

(* Where an interval has a width, its limits are on the side of the difference. *)
LEMMA LimitsAreTold ==
    ASSUME NEW k, CountsTyped(k)
    PROVE  /\ Lift(k) \in Int
           /\ LowAboveZero(k) => Lift(k) > 0
           /\ HighBelowZero(k) => Lift(k) < 0
           /\ HighNotAboveZero(k) => Lift(k) <= 0
           /\ SomeVariance(k) => (HighNotAboveZero(k) <=> HighBelowZero(k))
<1>1. Lift(k) \in Int
  BY DEF Lift, CountsTyped
<1>2. Lift(k) = 0 => 1000 * Lift(k) * Lift(k) * k.nt * k.nc = 0
  BY DEF CountsTyped
<1>3. Spread(k) \in Int
  BY DEF Spread, CountsTyped
<1>4. SomeVariance(k) => (HighNotAboveZero(k) <=> HighBelowZero(k))
  BY <1>1, <1>2, <1>3 DEF SomeVariance, HighNotAboveZero, HighBelowZero, Beyond
<1> QED
  BY <1>1, <1>4 DEF LowAboveZero, HighBelowZero, HighNotAboveZero

(* The planner, the table and the report agree about any counts.             *)
LEMMA ReadersAgreeOn ==
    ASSUME NEW k, CountsTyped(k)
    PROVE  ReadersAgree(k)
<1> DEFINE supply == [kind |-> "any", state |-> "any", available |-> 1000]
           s == Suggestion(k, k, supply)
<1>1. /\ s.status = CellStatus(k)
      /\ s.unmeasured = IF Settled(CellStatus(k)) THEN 0 ELSE 1000
  BY DEF Suggestion
<1> HIDE DEF s
<1>2. MinCell \in Nat /\ MinCell >= 1 /\ MinArm \in Nat /\ MinArm >= 1
  BY UpliftAssumption
<1>3. k.nt \in Nat /\ k.nc \in Nat
  BY DEF CountsTyped
<1>4. Enough(k) => ~(k.nt = 0 /\ k.nc = 0)
  BY <1>2, <1>3 DEF Enough
<1>5. /\ Lift(k) \in Int
      /\ LowAboveZero(k) => Lift(k) > 0
      /\ HighBelowZero(k) => Lift(k) < 0
      /\ HighNotAboveZero(k) => Lift(k) <= 0
      /\ SomeVariance(k) => (HighNotAboveZero(k) <=> HighBelowZero(k))
  BY LimitsAreTold
<1>6. CellStatus(k) = "useless" <=> UselessGroup(k)
  BY <1>4, <1>5 DEF CellStatus, UselessGroup
<1>7. UselessGroup(k) => ~Worthwhile(s) /\ s.unmeasured = 0
  BY <1>1, <1>6 DEF Worthwhile, Settled
<1>8. ASSUME k.nt >= MinArm, k.nc >= MinArm, MinArm >= MinCell, SomeVariance(k)
      PROVE  /\ Settled(CellStatus(k)) <=> CampaignVerdict(k) = "proven"
             /\ Report(k, TRUE, 1).costPerOrder => CellStatus(k) = "proven"
  <2>1. Enough(k)
    BY <1>2, <1>3, <1>8 DEF Enough
  <2>2. k.nt # 0 /\ k.nc # 0 /\ ~(k.nc < MinArm \/ k.nt < MinArm)
    BY <1>2, <1>3, <1>8
  <2>3. CampaignVerdict(k) = "proven" <=> LowAboveZero(k) \/ HighBelowZero(k)
    BY <2>2 DEF CampaignVerdict
  <2>4. Settled(CellStatus(k)) <=> LowAboveZero(k) \/ HighBelowZero(k)
    BY <1>4, <1>5, <1>8, <2>1 DEF Settled, CellStatus
  <2>5. Report(k, TRUE, 1).costPerOrder => CampaignVerdict(k) = "proven" /\ Lift(k) > 0
    BY DEF Report
  <2>6. Lift(k) > 0 => ~HighBelowZero(k)
    BY <1>5
  <2>7. LowAboveZero(k) => CellStatus(k) = "proven"
    BY <1>4, <2>1 DEF CellStatus
  <2> QED
    BY <2>3, <2>4, <2>5, <2>6, <2>7, Zenon
<1> QED
  <2>1. s.status = CellStatus(k)
    BY <1>1
  <2>2. ReadersAgree(k) <=>
          /\ CellStatus(k) = "useless" <=> UselessGroup(k)
          /\ UselessGroup(k) => ~Worthwhile(s) /\ s.unmeasured = 0
          /\ (k.nt >= MinArm /\ k.nc >= MinArm /\ MinArm >= MinCell /\ SomeVariance(k)) =>
               /\ Settled(CellStatus(k)) <=> CampaignVerdict(k) = "proven"
               /\ Report(k, TRUE, 1).costPerOrder => CellStatus(k) = "proven"
    <3>1. ReadersAgree(k) <=>
            /\ s.status = "useless" <=> UselessGroup(k)
            /\ UselessGroup(k) => ~Worthwhile(s) /\ s.unmeasured = 0
            /\ (k.nt >= MinArm /\ k.nc >= MinArm /\ MinArm >= MinCell /\ SomeVariance(k)) =>
                 /\ Settled(s.status) <=> CampaignVerdict(k) = "proven"
                 /\ Report(k, TRUE, 1).costPerOrder => s.status = "proven"
      BY DEF ReadersAgree, s, supply
    <3> QED
      BY <2>1, <3>1
  <2> QED
    BY <1>6, <1>7, <1>8, <2>2

(* For any counts of a group and any stratum: the table, the planner and the *)
(* report agree, the planned campaign has two arms, and the shares are those *)
(* asked for (compute_uplift_table, _verdict, build_plan, assign_arms).      *)
THEOREM EveryCountIsSound ==
    ASSUME CountsTyped(counts), stratum \in Nat \X Int
    PROVE  CountingSound
<1>1. ReadersAgreeHere
  BY ReadersAgreeOn DEF ReadersAgreeHere
<1>2. PlannedIsSplit
  BY PlannedSplits DEF PlannedIsSplit
<1>3. ArmShares
  BY SharesAreAsked
<1> QED
  BY <1>1, <1>2, <1>3 DEF CountingSound

(* So in every run of the instance.                                          *)
THEOREM CountingIsSound == MCSpec => []CountingSound
<1> DEFINE Typed == CountsTyped(counts) /\ stratum \in Nat \X Int
<1>1. MCInit => Typed
  BY DEF MCInit, NoCounts, CountsUpTo, CountsTyped, Percents
<1>2. Typed /\ [MCNext]_mcVars => Typed'
  BY DEF MCNext, mcVars, CountsTyped
<1>3. Typed => CountingSound
  BY EveryCountIsSound
<1> QED
  BY <1>1, <1>2, <1>3, PTL DEF MCSpec

-----------------------------------------------------------------------------
(* The table of effects.                                                     *)

(* The kind a member is filed under is one he was offered.                   *)
LEMMA KindsAreKinds ==
    ASSUME NEW k \in Campaigns, NEW c \in Offered(k)
    PROVE  KindOf(k, c) \in Kinds
<1> DEFINE D == DOMAIN Offering[k]
           own == {i \in D : Offering[k][i].customer = c}
           f == [i \in D |-> Offering[k][i].value]
           top == {i \in own : \A j \in own : Offering[k][j].value <= Offering[k][i].value}
<1>1. D = 1..Len(Offering[k]) /\ Len(Offering[k]) \in Nat
      /\ \A i \in D : Offering[k][i] \in [customer : Customers, kind : Kinds, value : Int]
  <2>1. Offering[k] \in Seq([customer : Customers, kind : Kinds, value : Int])
    BY LearningAssumption
  <2>2. \A T : \A q \in Seq(T) : DOMAIN q = 1..Len(q) /\ Len(q) \in Nat /\ \A i \in DOMAIN q : q[i] \in T
    OBVIOUS
  <2> QED
    BY <2>1, <2>2
<1>2. IsFiniteSet(own)
  <2>1. IsFiniteSet(D)
    BY <1>1, FS_Interval
  <2> QED
    BY <2>1, FS_Subset
<1>3. own # {}
  BY DEF Offered
<1>4. \A i \in own : f[i] \in Int /\ f[i] = Offering[k][i].value
  BY <1>1
<1>5. \E i \in own : \A j \in own : f[j] <= f[i]
  <2> HIDE DEF f, own
  <2> QED
    BY <1>2, <1>3, <1>4, FiniteHasGreatest
<1>6. top # {}
  BY <1>4, <1>5
<1>7. top \in SUBSET Nat
  BY <1>1
<1>8. Min(top) \in top
  <2> HIDE DEF top
  <2> QED
    BY <1>6, <1>7, FirstDay
<1>9. KindOf(k, c) = Offering[k][Min(top)].kind
  BY DEF KindOf
<1> QED
  BY <1>1, <1>8, <1>9

(* The states a member may be filed under are the customers' and the unknown. *)
LEMMA StatesAreStates ==
    ASSUME RowsTrue, NEW c \in Customers, NEW assigned \in Nat
    PROVE  StateAtAssignment(c, assigned) \in States \cup {UnknownState}
<1> DEFINE before == {d \in RowDays(c) : d <= assigned}
<1>1. RowDays(c) \in SUBSET Nat /\ RowDays(c) \subseteq Dates
  BY LifecycleAssumption DEF RowDays, Dates
<1>2. before # {} => Max(before) \in before
  <2>1. before \in SUBSET Nat /\ \A n \in before : n <= assigned
    BY <1>1
  <2> HIDE DEF before
  <2> QED
    BY <2>1, LastDay
<1>3. RowDays(c) # {} => Min(RowDays(c)) \in RowDays(c)
  BY <1>1, FirstDay
<1>4. RowDays(c) # {} => StateDay(c, assigned) \in RowDays(c)
  BY <1>2, <1>3 DEF StateDay
<1>5. \A d \in RowDays(c) : snapshot[c][d].state \in States
  BY DEF RowDays, RowsTrue, RowTrue
<1> QED
  BY <1>4, <1>5 DEF StateAtAssignment

(* A member is in the arm his campaign drew him into, since a day.           *)
MembersAreSplit ==
    \A k \in Campaigns :
        /\ DOMAIN member[k] \subseteq DOMAIN Split[k]
        /\ \A c \in DOMAIN member[k] :
             /\ member[k][c] = [arm |-> Split[k][c], assigned |-> member[k][c].assigned,
                                contacted |-> member[k][c].contacted, known |-> member[k][c].known]
             /\ member[k][c].assigned \in Days

(* A measured member counts for the arm he was drawn into.                   *)
OutcomesAreSplit ==
    \A k \in Campaigns : \A c \in Measured(k) : outcome[k][c].arm = Split[k][c]

SplitInv == LoopInv /\ MembersAreSplit /\ OutcomesAreSplit

(* A member's arm and day.                                                   *)
LEMMA MemberArm ==
    ASSUME MembersAreSplit, NEW k \in Campaigns, NEW c \in DOMAIN member[k]
    PROVE  member[k][c].arm = Split[k][c] /\ member[k][c].assigned \in Days /\ c \in DOMAIN Split[k]
<1>1. /\ DOMAIN member[k] \subseteq DOMAIN Split[k]
      /\ member[k][c] = [arm |-> Split[k][c], assigned |-> member[k][c].assigned,
                         contacted |-> member[k][c].contacted, known |-> member[k][c].known]
      /\ member[k][c].assigned \in Days
  BY Zenon DEF MembersAreSplit
<1>2. \A m, v, x, y, z : m = [arm |-> v, assigned |-> x, contacted |-> y, known |-> z] => m.arm = v
  OBVIOUS
<1>3. member[k][c].arm = Split[k][c]
  BY <1>1, <1>2
<1> QED
  BY <1>1, <1>3

(* What is observed of a measured member.                                    *)
Observed(k, c) ==
    [campaign |-> k, customer |-> c, kind |-> KindOf(k, c),
     state |-> StateAtAssignment(c, member[k][c].assigned), offer |-> Discount[k][c],
     arm |-> outcome[k][c].arm, converted |-> outcome[k][c].orders > 0]

(* An observation is of one measured member of a campaign with both arms.    *)
LEMMA ObservationsAreMembers ==
    ASSUME NEW o \in Observations
    PROVE  /\ o.campaign \in TwoArmed /\ o.customer \in Measured(o.campaign) \cap Offered(o.campaign)
           /\ o = Observed(o.campaign, o.customer)
BY DEF Observations, Observed

(* Its arm is the drawn one, and its kind and state are no sum's.            *)
LEMMA ObservationsTyped ==
    ASSUME SplitInv, NEW o \in Observations
    PROVE  /\ o.campaign \in Campaigns /\ o.customer \in Customers
           /\ o.arm \in Arms
           /\ o.customer \in DOMAIN member[o.campaign] /\ member[o.campaign][o.customer].arm = o.arm
           /\ o.kind # "*" /\ o.state # "*"
<1> DEFINE k == o.campaign
           c == o.customer
<1>1. k \in TwoArmed /\ c \in Measured(k) /\ c \in Offered(k) /\ o = Observed(k, c)
  BY ObservationsAreMembers
<1>2. k \in Campaigns /\ c \in Customers
  BY <1>1 DEF TwoArmed, Measured
<1>3. o.arm = outcome[k][c].arm /\ o.kind = KindOf(k, c) /\ o.state = StateAtAssignment(c, member[k][c].assigned)
  BY <1>1 DEF Observed
<1> HIDE DEF k, c
<1>4. c \in Active(k)
  BY <1>1, <1>2 DEF SplitInv, LoopInv, MeasuredTrue
<1>5. c \in DOMAIN member[k] /\ outcome[k][c].arm = Split[k][c]
  BY <1>1, <1>2, <1>4 DEF SplitInv, OutcomesAreSplit, Active
<1>6. member[k][c].arm = Split[k][c] /\ member[k][c].assigned \in Days /\ c \in DOMAIN Split[k]
  BY <1>2, <1>5, MemberArm DEF SplitInv
<1>7. Split[k][c] \in Arms
  BY <1>2, <1>6, LearningAssumption
<1>8. o.kind # "*"
  BY <1>1, <1>2, <1>3, KindsAreKinds, LearningAssumption
<1>9. o.state # "*"
  <2>1. member[k][c].assigned \in Nat
    BY <1>6, LifecycleAssumption
  <2>2. StateAtAssignment(c, member[k][c].assigned) \in States \cup {UnknownState}
    BY <1>2, <2>1, StatesAreStates DEF SplitInv, LoopInv, LifeInv
  <2>3. "*" \notin States
    BY DEF States, Lapsed
  <2> QED
    BY <1>3, <2>2, <2>3, LearningAssumption
<1> QED
  BY <1>2, <1>3, <1>5, <1>6, <1>7, <1>8, <1>9 DEF k, c

(* Campaigns and customers are finitely many.                                *)
LEMMA MembersAreFinite == IsFiniteSet(Campaigns \X Customers)
<1>1. IsFiniteSet(DOMAIN Owner)
  BY FS_Subset, LifecycleAssumption
<1>2. [x \in DOMAIN Owner |-> Owner[x]] \in Surjection(DOMAIN Owner, Customers)
  BY DEF Surjection, Customers
<1>3. IsFiniteSet(Customers)
  BY <1>1, <1>2, FS_Surjection
<1>4. IsFiniteSet(Campaigns)
  BY LearningAssumption
<1> QED
  BY <1>3, <1>4, FS_Product

(* The members there are, of whom the observations are some.                 *)
LEMMA ObservationsAreCounted ==
    ASSUME SplitInv
    PROVE  /\ IsFiniteSet(Observations)
           /\ \A arm : /\ IsFiniteSet(MembersIn(arm))
                       /\ Cardinality({o \in Observations : o.arm = arm}) <= Cardinality(MembersIn(arm))
<1> DEFINE All == Campaigns \X Customers
           At2(o) == <<o.campaign, o.customer>>
<1>1. IsFiniteSet(All)
  BY MembersAreFinite
<1>2. \A o \in Observations : At2(o) \in All
  BY ObservationsTyped
<1>3. ASSUME NEW o \in Observations, NEW p \in Observations, At2(o) = At2(p)
      PROVE  o = p
  BY <1>3, ObservationsAreMembers
<1>4. IsFiniteSet(Observations)
  <2>1. [o \in Observations |-> At2(o)] \in Injection(Observations, All)
    BY <1>2, <1>3 DEF Injection, IsInjective
  <2> QED
    BY <1>1, <2>1, FS_Injection
<1>5. ASSUME NEW arm
      PROVE  /\ IsFiniteSet(MembersIn(arm))
             /\ Cardinality({o \in Observations : o.arm = arm}) <= Cardinality(MembersIn(arm))
  <2> DEFINE mine == {o \in Observations : o.arm = arm}
  <2>1. IsFiniteSet(MembersIn(arm))
    BY <1>1, FS_Subset DEF MembersIn
  <2>2. \A o \in mine : At2(o) \in MembersIn(arm)
    BY ObservationsTyped DEF MembersIn
  <2>3. [o \in mine |-> At2(o)] \in Injection(mine, MembersIn(arm))
    BY <1>3, <2>2 DEF Injection, IsInjective
  <2> HIDE DEF mine
  <2>4. Cardinality(mine) <= Cardinality(MembersIn(arm))
    BY <2>1, <2>3, FS_Injection
  <2> QED
    BY <2>1, <2>4 DEF mine
<1> QED
  BY <1>4, <1>5

(* Where counts speak, members of both arms stand behind them.               *)
LEMMA EnoughIsEnough ==
    ASSUME NEW group, \A o \in group : o.arm \in Arms, Enough(Counts(group))
    PROVE  LET control == {x \in group : x.arm = "control"} IN
           Cardinality(control) >= MinCell /\ Cardinality(group \ control) >= MinCell
<1>1. group \ {x \in group : x.arm = "control"} = {x \in group : x.arm = "treatment"}
  BY DEF Arms
<1> QED
  BY <1>1 DEF Enough, Counts

(* A larger group has no fewer of either arm.                                *)
LEMMA EnoughGrows ==
    ASSUME NEW big, IsFiniteSet(big), NEW small \in SUBSET big, Enough(Counts(small))
    PROVE  Enough(Counts(big))
<1>1. ASSUME NEW arm
      PROVE  /\ Cardinality({o \in small : o.arm = arm}) <= Cardinality({o \in big : o.arm = arm})
             /\ Cardinality({o \in small : o.arm = arm}) \in Nat
             /\ Cardinality({o \in big : o.arm = arm}) \in Nat
  <2> DEFINE S == {o \in small : o.arm = arm}
             B == {o \in big : o.arm = arm}
  <2>1. IsFiniteSet(B) /\ S \in SUBSET B
    BY FS_Subset
  <2> HIDE DEF S, B
  <2>2. IsFiniteSet(S) /\ Cardinality(S) <= Cardinality(B)
    BY <2>1, FS_Subset
  <2>3. Cardinality(S) \in Nat /\ Cardinality(B) \in Nat
    BY <2>1, <2>2, FS_CardinalityType
  <2> QED
    BY <2>2, <2>3 DEF S, B
<1>2. /\ Cardinality({o \in small : o.arm = "treatment"}) >= MinCell
      /\ Cardinality({o \in small : o.arm = "control"}) >= MinCell
  BY DEF Enough, Counts
<1>3. /\ Cardinality({o \in big : o.arm = "treatment"}) >= MinCell
      /\ Cardinality({o \in big : o.arm = "control"}) >= MinCell
  <2>1. MinCell \in Nat
    BY UpliftAssumption
  <2>2. \A a, b \in Nat : a >= MinCell /\ a <= b => b >= MinCell
    BY <2>1
  <2> QED
    BY <1>1, <1>2, <2>2
<1> QED
  BY <1>3 DEF Enough, Counts

(* A campaign that teaches has measured somebody in the other arm too.       *)
LEMMA BothArmsThere ==
    ASSUME NEW k \in TwoArmed, NEW arm \in Arms
    PROVE  \E x \in Measured(k) : outcome[k][x].arm # arm
<1>1. ASSUME NEW other, Cardinality({c \in Measured(k) : outcome[k][c].arm = other}) > 0
      PROVE  \E x \in Measured(k) : outcome[k][x].arm = other
  BY <1>1, FS_EmptySet
<1>2. CountsOf(k).nt > 0 /\ CountsOf(k).nc > 0
  BY DEF TwoArmed
<1>3. /\ \E x \in Measured(k) : outcome[k][x].arm = "treatment"
      /\ \E x \in Measured(k) : outcome[k][x].arm = "control"
  BY <1>1, <1>2 DEF CountsOf
<1> QED
  BY <1>3 DEF Arms

(* So the answers of the table rest on evidence.                             *)
LEMMA SplitGivesEvidence ==
    ASSUME SplitInv
    PROVE  EvidenceBehindLookup
<1> DEFINE obs == Observations
<1>1. IsFiniteSet(obs)
  BY ObservationsAreCounted
<1>2. \A o \in obs : o.arm \in Arms
  BY ObservationsTyped
<1>3. ASSUME NEW o \in obs
      PROVE  \E x \in Measured(o.campaign) : outcome[o.campaign][x].arm # o.arm
  BY <1>2, ObservationsAreMembers, BothArmsThere
<1>4. ASSUME NEW o \in obs,
             NEW group, group = IF Basis(obs, o.kind, o.state) = "cell" THEN OfCell(obs, o.kind, o.state)
                                ELSE IF Basis(obs, o.kind, o.state) = "kind" THEN OfKind(obs, o.kind) ELSE obs,
             Basis(obs, o.kind, o.state) # "none"
      PROVE  LET control == {x \in group : x.arm = "control"} IN
             Cardinality(control) >= MinCell /\ Cardinality(group \ control) >= MinCell
  <2> HIDE DEF obs
  <2>1. Enough(Counts(group)) /\ group \subseteq obs
    BY <1>4 DEF Basis, HasKind, HasGlobal, OfCell, OfKind
  <2> QED
    BY <1>2, <2>1, EnoughIsEnough
<1>5. ASSUME NEW cell, OfferReady(obs, cell)
      PROVE  HasKind(obs, cell.kind)
  <2> HIDE DEF obs
  <2>1. OfferCell(obs, cell.kind, cell.offer) \subseteq OfKind(obs, cell.kind)
    BY DEF OfferCell, OfKind
  <2>2. IsFiniteSet(OfKind(obs, cell.kind))
    BY <1>1, FS_Subset DEF OfKind
  <2> QED
    BY <1>5, <2>1, <2>2, EnoughGrows DEF OfferReady, HasKind
<1> QED
  BY <1>3, <1>4, <1>5 DEF EvidenceBehindLookup

(* The rows of a table of observations.                                      *)
CellRow(obs, kind, state) ==
    TableRow(kind, state, Counts(OfCell(obs, kind, state)), Lookup(obs, kind, state),
             Basis(obs, kind, state), IsUseless(obs, kind, state))
KindRow(obs, kind) == TableRow(kind, "*", NoCounts, KindEffect(obs, kind), "kind", FALSE)
TotalRow(obs) == TableRow("*", "*", NoCounts, GlobalEffect(obs), "global", FALSE)
IsCellRow(obs, r) == \E o \in obs : r = CellRow(obs, o.kind, o.state)
IsKindRow(obs, r) == \E o \in obs : HasKind(obs, o.kind) /\ r = KindRow(obs, o.kind)
IsTotalRow(obs, r) == HasGlobal(obs) /\ r = TotalRow(obs)

(* A table has a row per cell, per kind with numbers of its own, and one total. *)
LEMMA RowsOfATable ==
    ASSUME NEW obs, NEW r
    PROVE  r \in TableRows(obs) <=> IsCellRow(obs, r) \/ IsKindRow(obs, r) \/ IsTotalRow(obs, r)
<1> DEFINE K == {x \in {o.kind : o \in obs} : HasKind(obs, x)}
           A == {CellRow(obs, c.kind, c.state) : c \in Cells(obs)}
           B == {KindRow(obs, k) : k \in K}
           T == IF HasGlobal(obs) THEN {TotalRow(obs)} ELSE {}
<1>1. TableRows(obs) = A \cup B \cup T
  BY Zenon DEF TableRows, CellRow, KindRow, TotalRow
<1>2. r \in A <=> IsCellRow(obs, r)
  <2>1. \A o : [kind |-> o.kind, state |-> o.state].kind = o.kind /\ [kind |-> o.kind, state |-> o.state].state = o.state
    OBVIOUS
  <2> QED
    BY <2>1 DEF IsCellRow, Cells
<1>3. r \in B <=> IsKindRow(obs, r)
  BY DEF IsKindRow
<1>4. r \in T <=> IsTotalRow(obs, r)
  BY DEF IsTotalRow
<1> HIDE DEF A, B, T
<1> QED
  BY <1>1, <1>2, <1>3, <1>4

(* The row of a cell says what its observations say.                         *)
LEMMA CellRows ==
    ASSUME NEW obs, NEW r, IsCellRow(obs, r)
    PROVE  \E o \in obs :
              /\ r = CellRow(obs, o.kind, o.state)
              /\ r.cell.kind = o.kind /\ r.cell.state = o.state
              /\ r.basis = Basis(obs, o.kind, o.state) /\ r.counts = Counts(OfCell(obs, o.kind, o.state))
<1>1. PICK o \in obs : r = CellRow(obs, o.kind, o.state)
  BY DEF IsCellRow
<1>2. /\ r.cell.kind = o.kind /\ r.cell.state = o.state
      /\ r.basis = Basis(obs, o.kind, o.state) /\ r.counts = Counts(OfCell(obs, o.kind, o.state))
  BY <1>1 DEF CellRow, TableRow
<1> QED
  BY <1>1, <1>2

(* The row of a kind sums up its states.                                     *)
LEMMA KindRows ==
    ASSUME NEW obs, NEW r, IsKindRow(obs, r)
    PROVE  \E o \in obs :
              /\ r = KindRow(obs, o.kind)
              /\ r.cell.kind = o.kind /\ r.cell.state = "*"
              /\ r.basis = "kind"
<1>1. PICK o \in obs : r = KindRow(obs, o.kind)
  BY DEF IsKindRow
<1>2. /\ r.cell = [kind |-> o.kind, state |-> "*"] /\ r.cell.kind = o.kind /\ r.cell.state = "*"
      /\ r.basis = "kind"
  BY <1>1 DEF KindRow, TableRow
<1> QED
  BY <1>1, <1>2

(* The total sums up all.                                                   *)
LEMMA TotalRows ==
    ASSUME NEW obs, NEW r, IsTotalRow(obs, r)
    PROVE  /\ HasGlobal(obs) /\ r = TotalRow(obs) /\ r.basis = "global"
           /\ r.cell = AllCells /\ r.cell.kind = "*" /\ r.cell.state = "*"
<1>1. r = TotalRow(obs) /\ HasGlobal(obs)
  BY DEF IsTotalRow
<1>2. r.cell = [kind |-> "*", state |-> "*"] /\ r.cell.kind = "*" /\ r.cell.state = "*" /\ r.basis = "global"
  BY <1>1 DEF TotalRow, TableRow
<1> QED
  BY <1>1, <1>2 DEF AllCells

(* What is built of observations under kinds and states of their own is one
   table.                                                                    *)
LEMMA BuiltIsOneTable ==
    ASSUME NEW obs, \A o \in obs : o.kind # "*" /\ o.state # "*"
    PROVE  OneTable(TableRows(obs))
<1> DEFINE rows == TableRows(obs)
<1>0. AllCells.kind = "*" /\ AllCells.state = "*"
  BY DEF AllCells
<1>1. ASSUME NEW r \in rows, NEW q \in rows, q.cell = r.cell
      PROVE  q = r
  <2>0. q.cell.kind = r.cell.kind /\ q.cell.state = r.cell.state
    BY <1>1
  <2>1. CASE IsCellRow(obs, r)
    <3>1. PICK o \in obs : r = CellRow(obs, o.kind, o.state) /\ r.cell.kind = o.kind /\ r.cell.state = o.state
      BY <2>1, CellRows
    <3>2. ~IsKindRow(obs, q) /\ ~IsTotalRow(obs, q)
      BY <2>0, <3>1, KindRows, TotalRows
    <3>3. IsCellRow(obs, q)
      BY <3>2, RowsOfATable
    <3>4. PICK p \in obs : q = CellRow(obs, p.kind, p.state) /\ q.cell.kind = p.kind /\ q.cell.state = p.state
      BY <3>3, CellRows
    <3> QED
      BY <2>0, <3>1, <3>4
  <2>2. CASE IsKindRow(obs, r)
    <3>1. PICK o \in obs : r = KindRow(obs, o.kind) /\ r.cell.kind = o.kind /\ r.cell.state = "*"
      BY <2>2, KindRows
    <3>2. ~IsCellRow(obs, q) /\ ~IsTotalRow(obs, q)
      BY <2>0, <3>1, CellRows, TotalRows
    <3>3. IsKindRow(obs, q)
      BY <3>2, RowsOfATable
    <3>4. PICK p \in obs : q = KindRow(obs, p.kind) /\ q.cell.kind = p.kind
      BY <3>3, KindRows
    <3> QED
      BY <2>0, <3>1, <3>4
  <2>3. CASE IsTotalRow(obs, r)
    <3>1. r = TotalRow(obs) /\ r.cell.kind = "*" /\ r.cell.state = "*"
      BY <2>3, TotalRows
    <3>2. ~IsCellRow(obs, q) /\ ~IsKindRow(obs, q)
      BY <2>0, <3>1, CellRows, KindRows
    <3>3. IsTotalRow(obs, q)
      BY <3>2, RowsOfATable
    <3> QED
      BY <3>1, <3>3, TotalRows
  <2> QED
    BY <2>1, <2>2, <2>3, RowsOfATable
<1>2. ASSUME NEW r \in rows, r.basis = "kind"
      PROVE  \E q \in rows : q.cell = [kind |-> r.cell.kind, state |-> "*"]
  <2>1. CASE IsCellRow(obs, r)
    <3>1. PICK o \in obs : r.cell.kind = o.kind /\ r.basis = Basis(obs, o.kind, o.state)
      BY <2>1, CellRows
    <3>2. HasKind(obs, o.kind)
      BY <1>2, <3>1 DEF Basis
    <3>3. IsKindRow(obs, KindRow(obs, o.kind))
      BY <3>2 DEF IsKindRow
    <3>4. KindRow(obs, o.kind) \in rows
      BY <3>3, RowsOfATable
    <3>5. KindRow(obs, o.kind).cell = [kind |-> o.kind, state |-> "*"]
      BY DEF KindRow, TableRow
    <3> QED
      BY <3>1, <3>4, <3>5
  <2>2. CASE IsKindRow(obs, r)
    <3>1. PICK o \in obs : r = KindRow(obs, o.kind) /\ r.cell.kind = o.kind
      BY <2>2, KindRows
    <3>2. r.cell = [kind |-> o.kind, state |-> "*"]
      BY <3>1 DEF KindRow, TableRow
    <3> QED
      BY <3>1, <3>2
  <2>3. ~IsTotalRow(obs, r)
    BY <1>2, TotalRows
  <2> QED
    BY <2>1, <2>2, <2>3, RowsOfATable
<1>3. ASSUME NEW r \in rows, r.basis = "global"
      PROVE  \E q \in rows : q.cell = AllCells
  <2>1. CASE IsCellRow(obs, r)
    <3>1. PICK o \in obs : r.basis = Basis(obs, o.kind, o.state)
      BY <2>1, CellRows
    <3>2. HasGlobal(obs)
      BY <1>3, <3>1 DEF Basis
    <3>3. IsTotalRow(obs, TotalRow(obs))
      BY <3>2 DEF IsTotalRow
    <3>4. TotalRow(obs) \in rows /\ TotalRow(obs).cell = AllCells
      BY <3>3, RowsOfATable, TotalRows
    <3> QED
      BY <3>4
  <2>2. ~IsKindRow(obs, r)
    BY <1>3, KindRows
  <2>3. CASE IsTotalRow(obs, r)
    BY <2>3, TotalRows
  <2> QED
    BY <2>1, <2>2, <2>3, RowsOfATable
<1>4. ASSUME NEW r \in rows, r.basis = "none", NEW q \in rows, q.cell = AllCells
      PROVE  FALSE
  <2>1. IsCellRow(obs, r)
    BY <1>4, KindRows, TotalRows, RowsOfATable
  <2>2. PICK o \in obs : r.basis = Basis(obs, o.kind, o.state)
    BY <2>1, CellRows
  <2>3. ~HasGlobal(obs)
    BY <1>4, <2>2 DEF Basis
  <2>4. ~IsTotalRow(obs, q)
    BY <2>3, TotalRows
  <2>5. q.cell.kind = "*" /\ q.cell.state = "*"
    BY <1>0, <1>4
  <2>6. ~IsCellRow(obs, q) /\ ~IsKindRow(obs, q)
    BY <2>5, CellRows, KindRows
  <2> QED
    BY <2>4, <2>6, RowsOfATable
<1> HIDE DEF rows
<1> QED
  BY <1>1, <1>2, <1>3, <1>4 DEF OneTable, rows

(* The members of an arm in the cells of a table, as a sum.                  *)
OfCells(rows) == {q \in rows : q.cell.state # "*"}
SizesIn(rows, arm) == [q \in rows |-> IF arm = "control" THEN q.counts.nc ELSE q.counts.nt]

(* The sum the table is read with is the sum over its cells.                 *)
LEMMA CountedIsSum ==
    ASSUME NEW rows, IsFiniteSet(OfCells(rows)), NEW arm
    PROVE  CountedIn(rows, arm) = SumOver(SizesIn(rows, arm), OfCells(rows))
<1> DEFINE A == OfCells(rows)
           f == SizesIn(rows, arm)
           E(it) == [s \in SUBSET A |-> IF s = {} THEN 0
                       ELSE (IF arm = "control" THEN Pick(s).counts.nc ELSE Pick(s).counts.nt) + it[s \ {Pick(s)}]]
<1>1. CountedIn(rows, arm) = (CHOOSE it : it = E(it))[A]
  BY DEF CountedIn, OfCells, MapThenSumSet, MapThenFoldSet, Pick
<1>2. ASSUME NEW it
      PROVE  it = E(it) <=> SumsOf(f, A, it)
  <2>1. ASSUME NEW s \in SUBSET A, s # {}
        PROVE  f[Pick(s)] = IF arm = "control" THEN Pick(s).counts.nc ELSE Pick(s).counts.nt
    BY <2>1, PickIsIn DEF SizesIn, OfCells
  <2>2. E(it) = [s \in SUBSET A |-> IF s = {} THEN 0 ELSE f[Pick(s)] + it[s \ {Pick(s)}]]
    <3> HIDE DEF f, A
    <3> QED
      BY <2>1
  <2> HIDE DEF E, f, A
  <2> QED
    BY <2>2 DEF SumsOf
<1>3. SumsOf(f, A, CHOOSE it : SumsOf(f, A, it))
  <2> HIDE DEF f, A
  <2> QED
    BY SumsExist DEF A
<1>4. PICK it : it = (CHOOSE x : x = E(x)) /\ it = E(it)
  <2> HIDE DEF E, f, A
  <2> QED
    BY <1>2, <1>3
<1>5. SumsOf(f, A, it)
  <2> HIDE DEF E, f, A
  <2> QED
    BY <1>2, <1>4
<1> HIDE DEF E, f, A
<1>6. it[A] = SumOver(f, A)
  BY <1>5, SumsAreIt DEF A
<1> QED
  BY <1>1, <1>4, <1>6 DEF f, A

(* The cells of a table count each observation of an arm once.               *)
LEMMA BuiltCountsAll ==
    ASSUME NEW obs, IsFiniteSet(obs), \A o \in obs : o.kind # "*" /\ o.state # "*",
           NEW arm \in Arms
    PROVE  /\ CountedIn(TableRows(obs), arm) <= Cardinality({o \in obs : o.arm = arm})
           /\ CountedIn(TableRows(obs), arm) \in Nat
<1> DEFINE rows == TableRows(obs)
           A == OfCells(rows)
           f == SizesIn(rows, arm)
           G == [q \in A |-> {o \in OfCell(obs, q.cell.kind, q.cell.state) : o.arm = arm}]
           mine == {o \in obs : o.arm = arm}
<1>1. ASSUME NEW q \in A
      PROVE  /\ \E o \in obs : q = CellRow(obs, o.kind, o.state)
             /\ q.counts = Counts(OfCell(obs, q.cell.kind, q.cell.state))
  <2>1. q \in rows /\ q.cell.state # "*"
    BY DEF OfCells
  <2>2. ~IsKindRow(obs, q) /\ ~IsTotalRow(obs, q)
    BY <2>1, KindRows, TotalRows
  <2>3. IsCellRow(obs, q)
    BY <2>1, <2>2, RowsOfATable
  <2> QED
    BY <2>3, CellRows
<1>2. IsFiniteSet(A)
  <2> DEFINE B == {CellRow(obs, o.kind, o.state) : o \in obs}
  <2>1. [o \in obs |-> CellRow(obs, o.kind, o.state)] \in Surjection(obs, B)
    BY DEF Surjection
  <2>2. IsFiniteSet(B)
    <3> HIDE DEF B
    <3> QED
      BY <2>1, FS_Surjection
  <2>3. A \subseteq B
    <3> HIDE DEF A
    <3> QED
      BY <1>1
  <2> HIDE DEF A, B
  <2> QED
    BY <2>2, <2>3, FS_Subset
<1>3. ASSUME NEW q \in A
      PROVE  IsFiniteSet(G[q]) /\ f[q] = Cardinality(G[q])
  <2>1. G[q] = {o \in OfCell(obs, q.cell.kind, q.cell.state) : o.arm = arm}
    OBVIOUS
  <2>2. IsFiniteSet(G[q])
    BY <2>1, FS_Subset DEF OfCell
  <2>3. f[q] = IF arm = "control" THEN q.counts.nc ELSE q.counts.nt
    BY DEF SizesIn, OfCells
  <2>4. \A group : /\ Counts(group).nc = Cardinality({o \in group : o.arm = "control"})
                   /\ Counts(group).nt = Cardinality({o \in group : o.arm = "treatment"})
    BY DEF Counts
  <2> HIDE DEF G, f, A
  <2>5. f[q] = Cardinality({o \in OfCell(obs, q.cell.kind, q.cell.state) : o.arm = arm})
    BY <1>1, <2>3, <2>4 DEF Arms
  <2> QED
    BY <2>1, <2>2, <2>5
<1>4. ASSUME NEW q \in A, NEW r \in A, q # r
      PROVE  G[q] \cap G[r] = {}
  <2>1. q \in rows /\ r \in rows
    BY DEF OfCells
  <2>2. q.cell # r.cell
    <3> HIDE DEF rows
    <3>1. OneTable(rows)
      BY BuiltIsOneTable DEF rows
    <3> QED
      BY <1>4, <2>1, <3>1 DEF OneTable
  <2>3. /\ \E o \in obs : q = CellRow(obs, o.kind, o.state)
        /\ \E o \in obs : r = CellRow(obs, o.kind, o.state)
    BY <1>1
  <2>4. /\ q.cell = [kind |-> q.cell.kind, state |-> q.cell.state]
        /\ r.cell = [kind |-> r.cell.kind, state |-> r.cell.state]
    BY <2>3 DEF CellRow, TableRow
  <2>5. ~(q.cell.kind = r.cell.kind /\ q.cell.state = r.cell.state)
    BY <2>2, <2>4
  <2> QED
    BY <2>5 DEF OfCell
<1>5. \E U \in SUBSET mine : SumOver(f, A) = Cardinality(U)
  <2> DEFINE U == UNION {G[x] : x \in A}
  <2>2. U \in SUBSET mine
    BY DEF OfCell
  <2>3. \A x \in A : IsFiniteSet(G[x]) /\ f[x] = Cardinality(G[x])
    BY <1>3
  <2>4. \A x, y \in A : x # y => G[x] \cap G[y] = {}
    BY <1>4
  <2>5. SumOver(f, A) = Cardinality(U)
    <3> HIDE DEF G, f, A
    <3>1. Parted(U, A, G, f)
      BY <1>2, <2>3, <2>4 DEF Parted
    <3> HIDE DEF U
    <3> QED
      BY <3>1, SizesAddUp
  <2> QED
    BY <2>2, <2>5
<1>6. PICK U \in SUBSET mine : SumOver(f, A) = Cardinality(U)
  BY <1>5
<1>7. IsFiniteSet(mine)
  BY FS_Subset
<1>8. Cardinality(U) <= Cardinality(mine) /\ Cardinality(U) \in Nat
  <2> HIDE DEF mine
  <2> QED
    BY <1>7, FS_Subset, FS_CardinalityType
<1>9. CountedIn(rows, arm) = SumOver(f, A)
  <2> HIDE DEF rows
  <2> QED
    BY <1>2, CountedIsSum
<1> HIDE DEF G, f, A, rows, mine
<1> QED
  BY <1>6, <1>8, <1>9 DEF rows, mine

(* A table fits when it is one, and counts no more members than there are.   *)
TableFits(rows) ==
    /\ OneTable(rows)
    /\ \A arm \in Arms : CountedIn(rows, arm) \in Nat /\ CountedIn(rows, arm) <= Cardinality(MembersIn(arm))

(* Every table that is saved, or held to be, fits.                           *)
TablesFit ==
    /\ DOMAIN saved = Days
    /\ \A d \in Days : TableFits(saved[d])
    /\ \A w \in Workers : TableFits(worker[w].table)
TableInv == SplitInv /\ TablesFit

(* The steps that touch a member or an outcome.                              *)
LEMMA WhoTouchesMembers ==
    ASSUME [LoopNext]_allVars
    PROVE  \/ UNCHANGED <<member, outcome>>
           \/ \E k \in Campaigns : Assign(k)
           \/ \E k \in Campaigns : \E c \in Customers : Contact(k, c)
           \/ CountOutcomes /\ UNCHANGED member
<1>1. CASE UNCHANGED learningVars
  BY <1>1 DEF learningVars
<1>2. CASE \E k \in Campaigns : Assign(k) \/ Close(k) \/ \E c \in Customers : Contact(k, c)
  BY <1>2, Zenon DEF Close
<1>3. CASE \E w \in Workers :
          \/ \E file \in Exports : Upload(w, file)
          \/ DoFeatures(w) \/ DoOutcomes(w) \/ DoBuild(w) \/ DoSave(w) \/ Skip(w) \/ StartRefresh(w)
  BY <1>3, Zenon DEF Upload, DoFeatures, DoOutcomes, DoBuild, DoSave, Skip, StartRefresh
<1>4. CASE RefreshOutcomes
  BY <1>4, Zenon DEF RefreshOutcomes
<1>5. CASE UNCHANGED allVars
  BY <1>5 DEF allVars, learningVars
<1>6. ASSUME NEW file \in Exports, Analyse(file) PROVE UNCHANGED learningVars
  BY <1>6 DEF Analyse
<1> QED
  BY <1>1, <1>2, <1>3, <1>4, <1>5, <1>6, Zenon DEF LoopNext, LearningNext

(* Nobody changes his arm, and nobody leaves a campaign.                     *)
LEMMA MembersMove ==
    ASSUME LoopInv, MembersAreSplit, [LoopNext]_allVars
    PROVE  MembersAreSplit' /\ \A k \in Campaigns : DOMAIN member[k] \subseteq DOMAIN member'[k]
<1>0. DOMAIN member = Campaigns /\ day \in Days
  BY DEF LoopInv, OutcomesTyped, LifeInv, DaysTyped
<1>1. CASE UNCHANGED member
  BY <1>1 DEF MembersAreSplit
<1>2. ASSUME NEW k0 \in Campaigns, Assign(k0)
      PROVE  MembersAreSplit' /\ \A k \in Campaigns : DOMAIN member[k] \subseteq DOMAIN member'[k]
  <2> DEFINE New(c) == [arm |-> Split[k0][c], assigned |-> day, contacted |-> Never, known |-> sales]
             drawn == [c \in DOMAIN Split[k0] |-> New(c)]
  <2>1. member[k0] = << >> /\ member' = [member EXCEPT ![k0] = drawn]
    BY <1>2 DEF Assign
  <2>2. member'[k0] = drawn /\ \A k \in Campaigns : k # k0 => member'[k] = member[k]
    BY <1>0, <2>1
  <2>3. DOMAIN member[k0] = {}
    BY <2>1
  <2>4. /\ DOMAIN member'[k0] = DOMAIN Split[k0]
        /\ \A c \in DOMAIN Split[k0] : member'[k0][c] = New(c)
    BY <2>2
  <2>5. \A c : New(c) = [arm |-> Split[k0][c], assigned |-> New(c).assigned,
                         contacted |-> New(c).contacted, known |-> New(c).known]
               /\ New(c).assigned = day
    OBVIOUS
  <2> HIDE DEF New, drawn
  <2>6. \A k \in Campaigns : DOMAIN member[k] \subseteq DOMAIN member'[k]
    BY <2>2, <2>3
  <2>7. ASSUME NEW c \in DOMAIN member'[k0]
        PROVE  /\ member'[k0][c] = [arm |-> Split[k0][c], assigned |-> member'[k0][c].assigned,
                                    contacted |-> member'[k0][c].contacted, known |-> member'[k0][c].known]
               /\ member'[k0][c].assigned \in Days
    <3>1. member'[k0][c] = New(c)
      BY <2>4
    <3> QED
      BY <1>0, <2>5, <3>1
  <2>8. MembersAreSplit'
    BY <2>2, <2>4, <2>7 DEF MembersAreSplit
  <2> QED
    BY <2>6, <2>8
<1>3. ASSUME NEW k0 \in Campaigns, NEW c0 \in Customers, Contact(k0, c0)
      PROVE  MembersAreSplit' /\ \A k \in Campaigns : DOMAIN member[k] \subseteq DOMAIN member'[k]
  <2>1. c0 \in DOMAIN member[k0] /\ member' = [member EXCEPT ![k0][c0].contacted = day]
    BY <1>3 DEF Contact
  <2>2. member'[k0] = [member[k0] EXCEPT ![c0] = [member[k0][c0] EXCEPT !.contacted = day]]
        /\ \A k \in Campaigns : k # k0 => member'[k] = member[k]
    BY <1>0, <2>1
  <2>3. /\ DOMAIN member'[k0] = DOMAIN member[k0]
        /\ member'[k0][c0] = [member[k0][c0] EXCEPT !.contacted = day]
        /\ \A c \in DOMAIN member[k0] : c # c0 => member'[k0][c] = member[k0][c]
    BY <2>1, <2>2
  <2>4. /\ member[k0][c0] = [arm |-> Split[k0][c0], assigned |-> member[k0][c0].assigned,
                             contacted |-> member[k0][c0].contacted, known |-> member[k0][c0].known]
        /\ member[k0][c0].assigned \in Days
    BY <2>1, Zenon DEF MembersAreSplit
  <2>5. \A m, v, a, x, y, d : m = [arm |-> v, assigned |-> a, contacted |-> x, known |-> y]
          => [m EXCEPT !.contacted = d] = [arm |-> v, assigned |-> a, contacted |-> d, known |-> y]
    OBVIOUS
  <2>6. member'[k0][c0] = [arm |-> Split[k0][c0], assigned |-> member[k0][c0].assigned,
                           contacted |-> day, known |-> member[k0][c0].known]
    BY <2>3, <2>4, <2>5
  <2>7. /\ member'[k0][c0] = [arm |-> Split[k0][c0], assigned |-> member'[k0][c0].assigned,
                              contacted |-> member'[k0][c0].contacted, known |-> member'[k0][c0].known]
        /\ member'[k0][c0].assigned \in Days
    BY <2>4, <2>6
  <2>8. \A k \in Campaigns : DOMAIN member'[k] = DOMAIN member[k]
    BY <2>2, <2>3
  <2>9. \A k \in Campaigns : \A c \in DOMAIN member[k] : (k = k0 /\ c = c0) \/ member'[k][c] = member[k][c]
    BY <2>2, <2>3
  <2>10. ASSUME NEW k \in Campaigns, NEW c \in DOMAIN member[k]
         PROVE  /\ member'[k][c] = [arm |-> Split[k][c], assigned |-> member'[k][c].assigned,
                                    contacted |-> member'[k][c].contacted, known |-> member'[k][c].known]
                /\ member'[k][c].assigned \in Days
    <3>1. CASE k = k0 /\ c = c0
      BY <2>7, <3>1
    <3>2. CASE member'[k][c] = member[k][c]
      <4>1. /\ member[k][c] = [arm |-> Split[k][c], assigned |-> member[k][c].assigned,
                                contacted |-> member[k][c].contacted, known |-> member[k][c].known]
            /\ member[k][c].assigned \in Days
        BY Zenon DEF MembersAreSplit
      <4> QED
        BY <3>2, <4>1, Zenon
    <3> QED
      BY <2>9, <3>1, <3>2
  <2> QED
    BY <2>8, <2>10 DEF MembersAreSplit
<1> QED
  BY <1>1, <1>2, <1>3, WhoTouchesMembers

(* Whoever counts a member counts him for his arm.                           *)
LEMMA OutcomesMove ==
    ASSUME LoopInv, MembersAreSplit, OutcomesAreSplit, [LoopNext]_allVars
    PROVE  OutcomesAreSplit'
<1>1. CASE outcome' = outcome
  BY <1>1 DEF OutcomesAreSplit, Measured
<1>2. CASE CountOutcomes
  <2>1. ASSUME NEW k \in Campaigns, NEW c \in Customers, outcome'[k][c] # NoRow
        PROVE  outcome'[k][c].arm = Split[k][c]
    <3>1. CASE k \in Running /\ c \in Active(k)
      <4>1. outcome'[k][c] = Counted(member[k][c], c)
        BY <1>2, <3>1 DEF CountOutcomes
      <4>2. outcome'[k][c].arm = member[k][c].arm
        BY <4>1 DEF Counted
      <4>3. c \in DOMAIN member[k]
        BY <3>1 DEF Active
      <4> QED
        BY <4>2, <4>3, MemberArm
    <3>2. CASE ~(k \in Running /\ c \in Active(k))
      <4>1. outcome'[k][c] = outcome[k][c]
        BY <1>2, <3>2 DEF CountOutcomes
      <4> QED
        BY <2>1, <4>1 DEF OutcomesAreSplit, Measured
    <3> QED
      BY <3>1, <3>2
  <2> QED
    BY <2>1 DEF OutcomesAreSplit, Measured
<1>3. ASSUME NEW k \in Campaigns, Assign(k) PROVE outcome' = outcome
  BY <1>3 DEF Assign
<1>4. ASSUME NEW k \in Campaigns, NEW c \in Customers, Contact(k, c) PROVE outcome' = outcome
  BY <1>4 DEF Contact
<1> QED
  BY <1>1, <1>2, <1>3, <1>4, WhoTouchesMembers

(* No arm loses a member.                                                    *)
LEMMA MembersGrow ==
    ASSUME SplitInv, SplitInv', \A k \in Campaigns : DOMAIN member[k] \subseteq DOMAIN member'[k], NEW arm
    PROVE  /\ Cardinality(MembersIn(arm)) \in Nat /\ Cardinality(MembersIn(arm)') \in Nat
           /\ Cardinality(MembersIn(arm)) <= Cardinality(MembersIn(arm)')
<1> DEFINE S == MembersIn(arm)
           B == MembersIn(arm)'
<1>1. MembersAreSplit /\ MembersAreSplit'
  BY DEF SplitInv
<1>2. ASSUME NEW k \in Campaigns, NEW c \in DOMAIN member[k]
      PROVE  member[k][c].arm = Split[k][c]
  BY <1>1, MemberArm
<1>3. ASSUME NEW k \in Campaigns, NEW c \in DOMAIN member'[k]
      PROVE  member'[k][c].arm = Split[k][c]
  <2>1. /\ member'[k][c] = [arm |-> Split[k][c], assigned |-> member'[k][c].assigned,
                            contacted |-> member'[k][c].contacted, known |-> member'[k][c].known]
    BY <1>1, Zenon DEF MembersAreSplit
  <2>2. \A m, v, x, y, z : m = [arm |-> v, assigned |-> x, contacted |-> y, known |-> z] => m.arm = v
    OBVIOUS
  <2> QED
    BY <2>1, <2>2
<1>4. S \subseteq B
  BY <1>2, <1>3 DEF MembersIn
<1>5. IsFiniteSet(B)
  BY MembersAreFinite, FS_Subset DEF MembersIn
<1> HIDE DEF S, B
<1>6. IsFiniteSet(S) /\ Cardinality(S) <= Cardinality(B)
  BY <1>4, <1>5, FS_Subset
<1>7. Cardinality(S) \in Nat /\ Cardinality(B) \in Nat
  BY <1>5, <1>6, FS_CardinalityType
<1> QED
  BY <1>6, <1>7 DEF S, B

(* A table of no rows counts nobody.                                         *)
LEMMA EmptyFits ==
    ASSUME SplitInv
    PROVE  TableFits({})
<1>1. OneTable({})
  BY DEF OneTable
<1>2. ASSUME NEW arm \in Arms
      PROVE  CountedIn({}, arm) = 0 /\ Cardinality(MembersIn(arm)) \in Nat
  <2>1. OfCells({}) = {}
    BY DEF OfCells
  <2>2. IsFiniteSet(OfCells({}))
    BY <2>1, FS_EmptySet
  <2>3. CountedIn({}, arm) = SumOver(SizesIn({}, arm), {})
    BY <2>1, <2>2, CountedIsSum
  <2>4. SumOver(SizesIn({}, arm), {}) = 0
    BY SumEmpty
  <2>5. IsFiniteSet(MembersIn(arm))
    BY ObservationsAreCounted
  <2> QED
    BY <2>3, <2>4, <2>5, FS_CardinalityType
<1> QED
  BY <1>1, <1>2 DEF TableFits

(* What is built now counts members there are, each of them once.            *)
LEMMA BuiltFits ==
    ASSUME SplitInv
    PROVE  TableFits(TableRows(Observations))
<1> DEFINE obs == Observations
<1>1. \A o \in obs : o.kind # "*" /\ o.state # "*"
  BY ObservationsTyped
<1>2. IsFiniteSet(obs)
  BY ObservationsAreCounted
<1>3. \A arm \in Arms : /\ IsFiniteSet(MembersIn(arm))
                        /\ Cardinality({o \in obs : o.arm = arm}) <= Cardinality(MembersIn(arm))
  BY ObservationsAreCounted
<1>4. ASSUME NEW arm \in Arms
      PROVE  Cardinality(MembersIn(arm)) \in Nat /\ Cardinality({o \in obs : o.arm = arm}) \in Nat
  <2>1. IsFiniteSet({o \in obs : o.arm = arm})
    <3> HIDE DEF obs
    <3> QED
      BY <1>2, FS_Subset
  <2> QED
    BY <1>3, <2>1, FS_CardinalityType
<1> HIDE DEF obs
<1>5. OneTable(TableRows(obs))
  BY <1>1, BuiltIsOneTable
<1>6. \A arm \in Arms : /\ CountedIn(TableRows(obs), arm) <= Cardinality({o \in obs : o.arm = arm})
                        /\ CountedIn(TableRows(obs), arm) \in Nat
  BY <1>1, <1>2, BuiltCountsAll
<1>7. \A arm \in Arms : /\ CountedIn(TableRows(obs), arm) \in Nat
                        /\ CountedIn(TableRows(obs), arm) <= Cardinality(MembersIn(arm))
  <2>1. \A a, b, c \in Nat : a <= b /\ b <= c => a <= c
    OBVIOUS
  <2> QED
    BY <1>3, <1>4, <1>6, <2>1
<1> QED
  BY <1>5, <1>7 DEF TableFits, obs

(* A table that fits fits still when there are more members.                 *)
LEMMA StillFits ==
    ASSUME SplitInv, SplitInv', \A k \in Campaigns : DOMAIN member[k] \subseteq DOMAIN member'[k],
           NEW rows, TableFits(rows)
    PROVE  TableFits(rows)'
<1>1. \A arm \in Arms : /\ Cardinality(MembersIn(arm)) \in Nat /\ Cardinality(MembersIn(arm)') \in Nat
                        /\ Cardinality(MembersIn(arm)) <= Cardinality(MembersIn(arm)')
  BY MembersGrow
<1>2. OneTable(rows) /\ \A arm \in Arms : CountedIn(rows, arm) \in Nat /\ CountedIn(rows, arm) <= Cardinality(MembersIn(arm))
  BY DEF TableFits
<1>3. \A a, b, c \in Nat : a <= b /\ b <= c => a <= c
  OBVIOUS
<1> QED
  BY <1>1, <1>2, <1>3 DEF TableFits

(* Where a saved table and a held one come from.                             *)
HeldMoves(w) ==
    worker'[w].table = worker[w].table \/ worker'[w].table = {} \/ worker'[w].table = TableRows(Observations)
SavedMoves(d) == saved'[d] = saved[d] \/ \E w \in Workers : saved'[d] = worker[w].table

(* Only a build makes a table, and only a save files one.                    *)
LEMMA TablesMove ==
    ASSUME LoopInv, DOMAIN saved = Days, [LoopNext]_allVars
    PROVE  /\ DOMAIN saved' = Days /\ \A d \in Days : SavedMoves(d)
           /\ \A w \in Workers : HeldMoves(w)
<1>0. /\ DOMAIN worker = Workers /\ day \in Days
      /\ \A w \in Workers : worker[w] = [at |-> worker[w].at, file |-> worker[w].file, table |-> worker[w].table]
  BY DEF LoopInv, FilesKnown, LifeInv, DaysTyped
<1>1. CASE UNCHANGED <<saved, worker>>
  BY <1>1 DEF SavedMoves, HeldMoves
<1>2. ASSUME NEW w0 \in Workers, NEW step, Goto(w0, step)
      PROVE  \A w \in Workers : HeldMoves(w)
  <2>1. worker'[w0] = [worker[w0] EXCEPT !.at = step] /\ \A w \in Workers : w # w0 => worker'[w] = worker[w]
    BY <1>0, <1>2 DEF Goto
  <2>2. worker'[w0] = [at |-> step, file |-> worker[w0].file, table |-> worker[w0].table]
    BY <1>0, <2>1
  <2> QED
    BY <2>1, <2>2 DEF HeldMoves
<1>3. ASSUME NEW w0 \in Workers, Done(w0)
      PROVE  \A w \in Workers : HeldMoves(w)
  BY <1>0, <1>3 DEF Done, Idle, HeldMoves
<1>4. ASSUME NEW w0 \in Workers, NEW file \in Exports, Upload(w0, file)
      PROVE  \A w \in Workers : HeldMoves(w)
  <2> DEFINE began == [Idle EXCEPT !.at = "features", !.file = file]
  <2>1. worker' = [worker EXCEPT ![w0] = began]
    BY <1>4 DEF Upload
  <2>2. began.table = {}
    BY DEF Idle
  <2> HIDE DEF began
  <2>3. worker'[w0] = began /\ \A w \in Workers : w # w0 => worker'[w] = worker[w]
    BY <1>0, <2>1
  <2> QED
    BY <2>2, <2>3 DEF HeldMoves
<1>5. ASSUME NEW w0 \in Workers, DoBuild(w0)
      PROVE  \A w \in Workers : HeldMoves(w)
  <2>1. PICK table : table = TableRows(Observations)
    OBVIOUS
  <2>2. worker' = [worker EXCEPT ![w0].at = "save", ![w0].table = table]
    BY <1>5, <2>1, Zenon DEF DoBuild
  <2>3. worker'[w0] = [[worker[w0] EXCEPT !.at = "save"] EXCEPT !.table = table]
        /\ \A w \in Workers : w # w0 => worker'[w] = worker[w]
    BY <1>0, <2>2
  <2>4. worker'[w0] = [at |-> "save", file |-> worker[w0].file, table |-> table]
    BY <1>0, <2>3
  <2>5. worker'[w0].table = table
    BY <2>4
  <2>6. \A w \in Workers : worker'[w].table = worker[w].table \/ worker'[w].table = table
    BY <2>3, <2>5
  <2> QED
    BY <2>1, <2>6, Zenon DEF HeldMoves
<1>6. CASE saved' = saved
  <2>1. DOMAIN saved' = Days /\ \A d \in Days : SavedMoves(d)
    BY <1>6 DEF SavedMoves
  <2>2. ASSUME UNCHANGED worker
        PROVE  \A w \in Workers : HeldMoves(w)
    BY <2>2 DEF HeldMoves
  <2>3. ASSUME NEW w0 \in Workers, DoFeatures(w0) \/ DoOutcomes(w0) \/ Skip(w0) \/ StartRefresh(w0)
        PROVE  Done(w0) \/ \E step : Goto(w0, step)
    BY <2>3, Zenon DEF DoFeatures, DoOutcomes, Skip, StartRefresh
  <2>4. ASSUME NEW w0 \in Workers, DoSave(w0)
        PROVE  Done(w0)
    BY <2>4, Zenon DEF DoSave
  <2>5. ASSUME \/ \E k \in Campaigns : Assign(k) \/ Close(k) \/ \E c \in Customers : Contact(k, c)
               \/ RefreshOutcomes
        PROVE  UNCHANGED worker
    BY <2>5, Zenon DEF Assign, Close, Contact, RefreshOutcomes
  <2>6. ASSUME UNCHANGED learningVars \/ UNCHANGED allVars
        PROVE  UNCHANGED worker
    BY <2>6 DEF learningVars, allVars
  <2>7. ASSUME NEW file \in Exports, Analyse(file) PROVE UNCHANGED learningVars
    BY <2>7 DEF Analyse
  <2>8. \A w \in Workers : HeldMoves(w)
    BY <1>2, <1>3, <1>4, <1>5, <2>2, <2>3, <2>4, <2>5, <2>6, <2>7, Zenon DEF LoopNext, LearningNext
  <2> QED
    BY <2>1, <2>8
<1>7. ASSUME NEW w0 \in Workers, DoSave(w0)
      PROVE  DOMAIN saved' = Days /\ \A d \in Days : SavedMoves(d)
  <2>1. saved' = saved \/ saved' = [saved EXCEPT ![day] = worker[w0].table]
    BY <1>7 DEF DoSave, SaveRows
  <2>2. DOMAIN saved' = Days /\ \A d \in Days : saved'[d] = saved[d] \/ saved'[d] = worker[w0].table
    BY <1>0, <2>1
  <2> QED
    BY <2>2 DEF SavedMoves
<1>8. saved' = saved \/ \E w \in Workers : DoSave(w)
  <2>1. CASE UNCHANGED learningVars \/ UNCHANGED allVars
    BY <2>1 DEF learningVars, allVars
  <2>2. CASE \E k \in Campaigns : Assign(k) \/ Close(k) \/ \E c \in Customers : Contact(k, c)
    BY <2>2, Zenon DEF Assign, Close, Contact
  <2>3. ASSUME NEW w \in Workers,
               \/ \E file \in Exports : Upload(w, file)
               \/ DoFeatures(w) \/ DoOutcomes(w) \/ DoBuild(w) \/ Skip(w) \/ StartRefresh(w)
        PROVE  saved' = saved
    BY <2>3, Zenon DEF Upload, DoFeatures, DoOutcomes, DoBuild, Skip, StartRefresh
  <2>4. CASE RefreshOutcomes
    BY <2>4, Zenon DEF RefreshOutcomes
  <2>5. ASSUME NEW file \in Exports, Analyse(file) PROVE UNCHANGED learningVars
    BY <2>5 DEF Analyse
  <2> QED
    BY <2>1, <2>2, <2>3, <2>4, <2>5, Zenon DEF LoopNext, LearningNext
<1>9. ASSUME NEW w0 \in Workers, DoSave(w0)
      PROVE  \A w \in Workers : HeldMoves(w)
  BY <1>3, <1>9, Zenon DEF DoSave
<1> QED
  BY <1>6, <1>7, <1>8, <1>9

(* The tables start right.                                                   *)
LEMMA TablesStart == LearningInit => TableInv
<1> SUFFICES ASSUME LearningInit PROVE TableInv
  OBVIOUS
<1>1. LoopInv
  BY LoopStarts
<1>2. MembersAreSplit
  BY DEF LearningInit, MembersAreSplit
<1>3. OutcomesAreSplit
  BY DEF LearningInit, OutcomesAreSplit, Measured
<1>4. SplitInv
  BY <1>1, <1>2, <1>3 DEF SplitInv
<1>5. TableFits({})
  BY <1>4, EmptyFits
<1>6. /\ DOMAIN saved = Days /\ \A d \in Days : saved[d] = {}
      /\ \A w \in Workers : worker[w].table = {}
  BY DEF LearningInit, Idle
<1> QED
  BY <1>4, <1>5, <1>6 DEF TableInv, TablesFit

(* Every step of the loop leaves them right.                                 *)
LEMMA TablesStay ==
    ASSUME TableInv, [LoopNext]_allVars
    PROVE  TableInv'
<1>1. SplitInv /\ TablesFit /\ LoopInv /\ MembersAreSplit /\ OutcomesAreSplit
  BY DEF TableInv, SplitInv
<1>2. /\ MembersAreSplit' /\ OutcomesAreSplit' /\ LoopInv'
      /\ \A k \in Campaigns : DOMAIN member[k] \subseteq DOMAIN member'[k]
  BY <1>1, MembersMove, OutcomesMove, LoopKeeps
<1>3. SplitInv'
  BY <1>2 DEF SplitInv
<1>4. \A rows : TableFits(rows) => TableFits(rows)'
  BY <1>1, <1>2, <1>3, StillFits
<1>5. TableFits({}) /\ TableFits(TableRows(Observations))
  BY <1>1, EmptyFits, BuiltFits
<1>6. /\ DOMAIN saved = Days /\ \A d \in Days : TableFits(saved[d])
      /\ \A w \in Workers : TableFits(worker[w].table)
  BY <1>1 DEF TablesFit
<1>7. /\ DOMAIN saved' = Days /\ \A d \in Days : SavedMoves(d)
      /\ \A w \in Workers : HeldMoves(w)
  BY <1>1, <1>6, TablesMove
<1>8. ASSUME NEW d \in Days
      PROVE  TableFits(saved[d])'
  <2>1. PICK rows : rows = saved'[d] /\ TableFits(rows)
    BY <1>6, <1>7 DEF SavedMoves
  <2>2. TableFits(rows)'
    BY <1>4, <2>1
  <2> QED
    BY <2>1, <2>2 DEF TableFits
<1>9. ASSUME NEW w \in Workers
      PROVE  TableFits(worker[w].table)'
  <2>1. PICK rows : rows = worker'[w].table /\ TableFits(rows)
    BY <1>5, <1>6, <1>7 DEF HeldMoves
  <2>2. TableFits(rows)'
    BY <1>4, <2>1
  <2> QED
    BY <2>1, <2>2 DEF TableFits
<1>10. TablesFit'
  BY <1>7, <1>8, <1>9 DEF TablesFit
<1> QED
  BY <1>3, <1>10 DEF TableInv

(* Every run of the loop keeps to the arms that were drawn, and every table  *)
(* it holds or has saved fits the members there are.                         *)
THEOREM TablesAreSound == LoopSpec => []TableInv
<1>1. LearningInit => TableInv
  BY TablesStart
<1>2. TableInv /\ [LoopNext]_allVars => TableInv'
  BY TablesStay
<1> QED
  BY <1>1, <1>2, PTL DEF LoopSpec

(* What the table answers rests on enough members of both arms, and what is  *)
(* saved of it for a day is one table in which no member counts twice,       *)
(* whatever chains build and save between each other's steps (lookup,        *)
(* save_snapshot).                                                           *)
THEOREM TableHolds == LoopSpec => []TableSound
<1>1. TableInv => TableSound
  <2> SUFFICES ASSUME TableInv PROVE EvidenceBehindLookup /\ SavedIsOneTable
    BY DEF TableSound
  <2>1. EvidenceBehindLookup
    BY SplitGivesEvidence DEF TableInv
  <2>2. SavedIsOneTable
    BY DEF TableInv, TablesFit, TableFits, SavedIsOneTable
  <2> QED
    BY <2>1, <2>2
<1> QED
  BY <1>1, TablesAreSound, PTL
=============================================================================
