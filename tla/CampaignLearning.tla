-------------------------- MODULE CampaignLearning ---------------------------
(* The learning loop: an upload is posted, the features are written, the outcomes
   of the running campaigns are counted from the ledger, and the table of effects
   is built from all outcomes and saved under its date.
   Every step is a transaction of its own whose failure is logged and skipped;
   uploads of several sessions, the scheduled jobs and the refresh button run
   their steps between each other's.
     member      per campaign and customer: arm, day of assignment, day of contact,
                 and the sales made by then (history, for one property)
     closed      the campaigns closed
     outcome     per campaign and customer, the row counted last, or NoRow
     saved       per date, the rows of the table of effects saved last
     worker      what each running chain does next and what it holds           *)
EXTENDS CustomerLifecycle, UpliftTable

CONSTANTS
    Campaigns, Workers,
    Split,         \* per campaign, the arm of every customer it takes
    Kinds,         \* the kinds of opportunities
    Offering,      \* per campaign, the customers' opportunities in row order
    Discount,      \* per campaign, the confirmed discount of a customer
    Window,        \* the days an outcome is counted over
    Never

Arms == {"treatment", "control"}

(* A kind and a state are never the "*" of the rows that sum up.              *)
ASSUME LearningAssumption ==
    /\ Window \in Nat \ {0} /\ Never \notin Nat /\ IsFiniteSet(Campaigns)
    /\ \A k \in Campaigns :
         /\ DOMAIN Split[k] \subseteq Customers /\ \A c \in DOMAIN Split[k] : Split[k][c] \in Arms
         /\ Offering[k] \in Seq([customer : Customers, kind : Kinds, value : Int])
    /\ UnknownState # "*" /\ "*" \notin Kinds

VARIABLES member, closed, outcome, saved, worker
learningVars == <<member, closed, outcome, saved, worker>>
allVars == <<lifecycleVars, learningVars>>

Idle == [at |-> "idle", file |-> NoFile, table |-> {}]
At(w, step) == worker[w].at = step
Goto(w, step) == worker' = [worker EXCEPT ![w].at = step]
Done(w) == worker' = [worker EXCEPT ![w] = Idle]

-----------------------------------------------------------------------------
(* Campaigns.                                                                *)

Assign(k) ==
    /\ member[k] = << >> /\ k \notin closed
    /\ member' = [member EXCEPT ![k] =
           [c \in DOMAIN Split[k] |-> [arm |-> Split[k][c], assigned |-> day, contacted |-> Never, known |-> sales]]]
    /\ UNCHANGED <<lifecycleVars, closed, outcome, saved, worker>>

(* An export asks for no status: a closed campaign's members are stamped too. *)
Contact(k, c) ==
    /\ c \in DOMAIN member[k]
    /\ member[k][c].arm = "treatment" /\ member[k][c].contacted = Never
    /\ member' = [member EXCEPT ![k][c].contacted = day]
    /\ UNCHANGED <<lifecycleVars, closed, outcome, saved, worker>>

Close(k) ==
    /\ member[k] # << >> /\ k \notin closed
    /\ closed' = closed \cup {k}
    /\ UNCHANGED <<lifecycleVars, member, outcome, saved, worker>>

-----------------------------------------------------------------------------
(* The outcomes: every member whose window has begun (a control member's with the
   assignment, a treated one's with the contact) gets the row of his window.  A
   return lowers its revenue and is no order; a cost is known only when every
   line of the window has one.                                               *)

EverybodyMistake(k) == DOMAIN member[k]
Active(k) == {c \in DOMAIN member[k] : member[k][c].arm = "control" \/ member[k][c].contacted # Never}
Start(m) == IF m.contacted # Never THEN m.contacted ELSE m.assigned
InWindow(m, c) == {s \in LedgerOf(c) : Start(m) <= s.day /\ s.day < Start(m) + Window}
Counted(m, c) ==
    LET lines == InWindow(m, c) IN
    [arm |-> m.arm, start |-> Start(m), orders |-> Cardinality({s \in lines : ~s.ret}),
     revenue |-> MapThenSumSet(LAMBDA s : s.money, lines), costed |-> \A s \in lines : s.costed]

AnyCampaignMistake == Campaigns
Running == Campaigns \ closed
CountOutcomes ==
    outcome' = [k \in Campaigns |->
        IF k \in Running
        THEN [c \in Customers |-> IF c \in Active(k) THEN Counted(member[k][c], c) ELSE outcome[k][c]]
        ELSE outcome[k]]

(* The sums of an arm; its cost only when every member's is known.            *)
Measured(k) == {c \in Customers : outcome[k][c] # NoRow}
CountsOf(k) ==
    LET n(arm) == {c \in Measured(k) : outcome[k][c].arm = arm}
        buyers(arm) == {c \in n(arm) : outcome[k][c].orders > 0} IN
    [nt |-> Cardinality(n("treatment")), nc |-> Cardinality(n("control")),
     ct |-> Cardinality(buyers("treatment")), cc |-> Cardinality(buyers("control"))]
CostKnown(k) == \A c \in Measured(k) : outcome[k][c].costed

-----------------------------------------------------------------------------
(* The observations.  A campaign teaches only with outcomes in both arms; a member
   is filed under his most valuable opportunity, the first of equals, and under
   the state of his last row up to the day he was assigned, else of his first
   row after it.                                                             *)

OneArmMistake == {k \in Campaigns : Measured(k) # {}}
TwoArmed == {k \in Campaigns : CountsOf(k).nt > 0 /\ CountsOf(k).nc > 0}

KindOf(k, c) ==
    LET own == {i \in DOMAIN Offering[k] : Offering[k][i].customer = c}
        top == {i \in own : \A j \in own : Offering[k][j].value <= Offering[k][i].value} IN
    Offering[k][Min(top)].kind
Offered(k) == {Offering[k][i].customer : i \in DOMAIN Offering[k]}

RowDays(c) == {d \in Dates : snapshot[c][d] # NoRow}
StateDay(c, assigned) ==
    LET before == {d \in RowDays(c) : d <= assigned} IN
    IF before # {} THEN Max(before) ELSE Min(RowDays(c))
StateAtAssignment(c, assigned) ==
    IF RowDays(c) = {} THEN UnknownState ELSE snapshot[c][StateDay(c, assigned)].state

Observations ==
    UNION {{[campaign |-> k, customer |-> c, kind |-> KindOf(k, c),
             state |-> StateAtAssignment(c, member[k][c].assigned), offer |-> Discount[k][c],
             arm |-> outcome[k][c].arm, converted |-> outcome[k][c].orders > 0] :
                c \in Measured(k) \cap Offered(k)} : k \in TwoArmed}

(* Saving deletes the rows of the date and inserts the table's; an empty table
   saves nothing.                                                            *)
KeepOldMistake(rows) == saved' = [saved EXCEPT ![day] = rows \cup {r \in @ : \A q \in rows : q.cell # r.cell}]
SaveRows(rows) == saved' = IF rows = {} THEN saved ELSE [saved EXCEPT ![day] = rows]

-----------------------------------------------------------------------------
(* The steps of a chain.                                                     *)

Upload(w, file) ==
    /\ At(w, "idle") /\ file # {}
    /\ worker' = [worker EXCEPT ![w] = [Idle EXCEPT !.at = "features", !.file = file]]
    /\ Post(file)
    /\ UNCHANGED <<member, closed, outcome, saved>>
DoFeatures(w) ==
    /\ At(w, "features") /\ Features(worker[w].file)
    /\ Goto(w, "outcomes") /\ UNCHANGED <<member, closed, outcome, saved>>
DoOutcomes(w) ==
    /\ At(w, "outcomes") /\ CountOutcomes
    /\ Goto(w, "build") /\ UNCHANGED <<lifecycleVars, member, closed, saved>>
DoBuild(w) ==
    /\ At(w, "build")
    /\ worker' = [worker EXCEPT ![w].at = "save", ![w].table = TableRows(Observations)]
    /\ UNCHANGED <<lifecycleVars, member, closed, outcome, saved>>
DoSave(w) ==
    /\ At(w, "save") /\ SaveRows(worker[w].table)
    /\ Done(w) /\ UNCHANGED <<lifecycleVars, member, closed, outcome>>

(* A step that raised, or found nothing to do, is skipped; a failed build ends
   the chain, for the save is part of the same step.                         *)
Follows == [features |-> "outcomes", outcomes |-> "build"]
Skip(w) ==
    /\ \/ worker[w].at \in DOMAIN Follows /\ Goto(w, Follows[worker[w].at])
       \/ worker[w].at \in {"build", "save"} /\ Done(w)
    /\ UNCHANGED <<lifecycleVars, member, closed, outcome, saved>>

(* The scheduled jobs and the refresh button: outcomes alone, or the table alone. *)
RefreshOutcomes ==
    /\ CountOutcomes /\ UNCHANGED <<lifecycleVars, member, closed, saved, worker>>
StartRefresh(w) ==
    /\ At(w, "idle") /\ Goto(w, "build")
    /\ UNCHANGED <<lifecycleVars, member, closed, outcome, saved>>

-----------------------------------------------------------------------------
LearningInit ==
    /\ LifecycleInit
    /\ member = [k \in Campaigns |-> << >>] /\ closed = {}
    /\ outcome = [k \in Campaigns |-> [c \in Customers |-> NoRow]]
    /\ saved = [d \in Days |-> {}]
    /\ worker = [w \in Workers |-> Idle]

LearningNext ==
    \/ \E s \in Sales : (Sell(s) \/ Correct(s)) /\ UNCHANGED learningVars
    \/ NextDay /\ UNCHANGED learningVars
    \/ \E k \in Campaigns : Assign(k) \/ Close(k) \/ \E c \in Customers : Contact(k, c)
    \/ \E w \in Workers :
          \/ \E file \in Exports : Upload(w, file)
          \/ DoFeatures(w) \/ DoOutcomes(w) \/ DoBuild(w) \/ DoSave(w)
          \/ Skip(w) \/ StartRefresh(w)
    \/ RefreshOutcomes

LearningSpec == LearningInit /\ [][LearningNext]_allVars

-----------------------------------------------------------------------------
(* The orders of a customer that ever were in a member's window, in one version
   or another of the books.                                                  *)
OrdersEverIn(m, c) ==
    {s.id : s \in {x \in sales : /\ ~x.ret /\ x.key \in DOMAIN Owner /\ Owner[x.key] = c
                                /\ Start(m) <= x.day /\ x.day < Start(m) + Window}}

(* Every row, event and file is of the shape the transactions write; a measured
   member is one whose window began, and however uploads correct each other's
   lines his row counts no order twice, and none that never was in his window.  *)
LearningTypeOK ==
    /\ LifecycleTypeOK
    /\ closed \subseteq Campaigns
    /\ \A k \in Campaigns : \A c \in Measured(k) :
         /\ c \in Active(k)
         /\ outcome[k][c].start = Start(member[k][c])
         /\ outcome[k][c].orders <= Cardinality(OrdersEverIn(member[k][c], c))

(* Whatever the table answers rests on enough members of both arms, all of
   campaigns that had both; and a kind and discount the readiness page calls
   ready has an answer measured for that kind at least.                      *)
EvidenceBehindLookup ==
    LET obs == Observations IN
    /\ \A o \in obs :
          LET basis == Basis(obs, o.kind, o.state)
              group == IF basis = "cell" THEN OfCell(obs, o.kind, o.state)
                       ELSE IF basis = "kind" THEN OfKind(obs, o.kind) ELSE obs
              control == {x \in group : x.arm = "control"} IN
          /\ basis # "none" => Cardinality(control) >= MinCell /\ Cardinality(group \ control) >= MinCell
          /\ \E x \in Measured(o.campaign) : outcome[o.campaign][x].arm # o.arm
    /\ \A cell \in OfferCells(obs) : OfferReady(obs, cell) => HasKind(obs, cell.kind)

(* One table: no cell has two rows, and every answer agrees with its basis.   *)
OneTable(rows) ==
    LET cells == {q.cell : q \in rows} IN
    \A r \in rows :
        /\ \A q \in rows : q.cell = r.cell => q = r
        /\ r.basis = "kind" => [kind |-> r.cell.kind, state |-> "*"] \in cells
        /\ r.basis = "global" => AllCells \in cells
        /\ r.basis = "none" => AllCells \notin cells

(* The members of an arm the cells of a table count, and all there are.       *)
CountedIn(rows, arm) ==
    MapThenSumSet(LAMBDA q : IF arm = "control" THEN q.counts.nc ELSE q.counts.nt, {q \in rows : q.cell.state # "*"})
MembersIn(arm) == {x \in Campaigns \X Customers : x[2] \in DOMAIN member[x[1]] /\ member[x[1]][x[2]].arm = arm}

(* A saved date is one table, and no member is counted in two cells of it, as he
   would be if a row of an older save survived the one that files him elsewhere. *)
SavedIsOneTable ==
    \A d \in Days :
        /\ OneTable(saved[d])
        /\ \A arm \in Arms : CountedIn(saved[d], arm) <= Cardinality(MembersIn(arm))

(* A closed campaign's measurement stands, whatever is uploaded, corrected or
   counted after it, and whoever of its members is still contacted.          *)
ClosedIsMeasured == [][\A k \in closed : k \in closed' /\ outcome'[k] = outcome[k]]_allVars

(* The state a member is filed under was known when he was assigned: "using
   today's state was a leak of the future".                                  *)
StateBeforeContact ==
    \A k \in Campaigns : \A c \in Measured(k) :
        RowDays(c) # {} => snapshot[c][StateDay(c, member[k][c].assigned)].file \subseteq member[k][c].known

(* A cell that a saved table bars from contact is not one whose own numbers the
   report of a campaign would call inconclusive.                             *)
SavedUselessIsProven == \A d \in Days : \A r \in saved[d] : r.useless => UselessIsProven(r.counts)
=============================================================================
