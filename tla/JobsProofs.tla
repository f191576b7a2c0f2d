----------------------------- MODULE JobsProofs -----------------------------
(***************************************************************************)
(* What holds of the ledger of scheduled jobs for any threads, rows,       *)
(* attempts, manual retries and crashes, and of the lease of the engine    *)
(* for any runs in one process, however often and whenever it dies.        *)
(***************************************************************************)
EXTENDS MCJobs, TLAPS

-----------------------------------------------------------------------------
(* The ledger.                                                               *)

(* Whatever is executed or planned is a row there is, and an attempt.        *)
KnownRows ==
    /\ \A r \in Row : r > nRows <=> status[r] = "none"
    /\ \A t \in Threads : /\ running[t] <= nRows
                          /\ ~Idle(t) => trying[t] >= 1
                          /\ \A p \in plan[t] : p.row <= nRows /\ p.attempt >= 1

Shape == TypeOK /\ KnownRows

(* The failures of a row since it was opened are what its counter tells.     *)
Counted ==
    \A r \in Row :
        /\ status[r] = "none" => failures[r] = 0
        /\ status[r] = "retry_scheduled" =>
              failures[r] = attempt[r] /\ attempt[r] \in 1..(MaxAttempts - 1)
        /\ status[r] = "dead_letter" => failures[r] = MaxAttempts /\ attempt[r] = MaxAttempts

(* A row in execution is running, and its executor makes the attempt the row *)
(* counts; all the attempts before it failed.                                *)
Executed ==
    \A t \in Threads : ~Idle(t) =>
        /\ status[running[t]] = "running"
        /\ trying[t] = attempt[running[t]] /\ trying[t] <= MaxAttempts
        /\ failures[running[t]] = trying[t] - 1

(* What a sweep has read is still due when it comes to it.                   *)
FreshPlans ==
    \A t \in Threads : \A p \in plan[t] :
        /\ t \in Sweepers /\ sweeping[t]
        /\ Due(p.row) /\ p.attempt = attempt[p.row] + 1

(* What is left to wait and what has passed make the whole backoff.          *)
Waited ==
    \A r \in Row : status[r] = "retry_scheduled" =>
        age[r] > Retention \/ age[r] + wait[r] >= Backoff(attempt[r])

Orderly == Counted /\ Executed /\ FreshPlans /\ OneExecutor /\ Waited

LedgerInv == Shape /\ (~misused => Orderly)

(* The scheduler runs a job once at a time (the default of add_job), and     *)
(* nobody sweeps by hand meanwhile.                                          *)
OneSweeper == \A t, u \in Sweepers : t = u

(* The ledger is empty at first. *)
LEMMA LedgerInit == Init => LedgerInv
<1> SUFFICES ASSUME Init PROVE LedgerInv
  OBVIOUS
<1> USE LedgerAssumption DEF Init, Row, Nothing, Idle
<1>1. TypeOK
  <2>1. nRows \in 0..MaxRows /\ manual \in Nat /\ crashes \in Nat
    OBVIOUS
  <2>5. misused \in BOOLEAN
    OBVIOUS
  <2>2. /\ status \in [Row -> {"none", "running", "retry_scheduled", "pruned"} \cup Terminal]
        /\ attempt \in [Row -> Nat] /\ age \in [Row -> Nat]
        /\ wait \in [Row -> Nat] /\ failures \in [Row -> Nat]
    OBVIOUS
  <2>3. /\ running \in [Threads -> Row \cup {Nothing}] /\ trying \in [Threads -> Nat]
        /\ sweeping \in [Threads -> BOOLEAN]
    OBVIOUS
  <2>4. plan \in [Threads -> SUBSET [row : Row, attempt : Nat]]
    OBVIOUS
  <2> QED
    BY <2>1, <2>2, <2>3, <2>4, <2>5 DEF TypeOK
<1>2. KnownRows
  BY DEF KnownRows
<1>3. Orderly
  BY DEF Orderly, Counted, Executed, FreshPlans, OneExecutor, Waited
<1> QED
  BY <1>1, <1>2, <1>3 DEF LedgerInv, Shape

(* A row there is, or the next one, is opened for an attempt.                *)
LEMMA OpenShape ==
    ASSUME Shape, NEW t \in Threads, NEW r \in Row, NEW a \in Nat \ {0}, OpenRun(t, r, a),
           nRows' \in 0..MaxRows, \A q \in Row : q <= nRows' <=> q <= nRows \/ q = r
    PROVE  /\ status' \in [Row -> {"none", "running", "retry_scheduled", "pruned"} \cup Terminal]
           /\ attempt' \in [Row -> Nat] /\ age' \in [Row -> Nat] /\ wait' \in [Row -> Nat]
           /\ running' \in [Threads -> Row \cup {Nothing}] /\ trying' \in [Threads -> Nat]
           /\ \A q \in Row : q > nRows' <=> status'[q] = "none"
           /\ \A u \in Threads : running'[u] <= nRows' /\ (running'[u] # Nothing => trying'[u] >= 1)
<1> USE LedgerAssumption DEF Shape, TypeOK, KnownRows, OpenRun, Row, Nothing, Idle
<1>1. nRows \in Nat /\ nRows' \in Nat /\ r \in Nat
  OBVIOUS
<1>2. /\ status' \in [Row -> {"none", "running", "retry_scheduled", "pruned"} \cup Terminal]
      /\ attempt' \in [Row -> Nat] /\ age' \in [Row -> Nat] /\ wait' \in [Row -> Nat]
      /\ running' \in [Threads -> Row \cup {Nothing}] /\ trying' \in [Threads -> Nat]
  OBVIOUS
<1>3. \A q \in Row : q > nRows' <=> status'[q] = "none"
  <2> SUFFICES ASSUME NEW q \in Row PROVE q > nRows' <=> status'[q] = "none"
    OBVIOUS
  <2>1. q \in Nat /\ (q > nRows <=> ~(q <= nRows)) /\ (q > nRows' <=> ~(q <= nRows'))
    BY <1>1
  <2>2. CASE q = r
    BY <2>1, <2>2
  <2>3. CASE q # r
    BY <2>1, <2>3
  <2> QED
    BY <2>2, <2>3
<1>4. \A u \in Threads : running'[u] <= nRows' /\ (running'[u] # Nothing => trying'[u] >= 1)
  <2> SUFFICES ASSUME NEW u \in Threads
               PROVE  running'[u] <= nRows' /\ (running'[u] # Nothing => trying'[u] >= 1)
    OBVIOUS
  <2>1. running[u] <= nRows'
    <3>1. running[u] \in Nat /\ running[u] <= nRows
      OBVIOUS
    <3>2. CASE running[u] = 0
      BY <1>1, <3>2
    <3>3. CASE running[u] \in Row
      BY <3>1, <3>3
    <3> QED
      BY <3>2, <3>3
  <2>2. CASE u = t
    <3>1. running'[t] = r /\ trying'[t] = a
      OBVIOUS
    <3>2. r <= nRows'
      OBVIOUS
    <3>3. a >= 1
      OBVIOUS
    <3> QED
      BY <2>2, <3>1, <3>2, <3>3
  <2>3. CASE u # t
    BY <2>1, <2>3
  <2> QED
    BY <2>2, <2>3
<1> QED
  BY <1>2, <1>3, <1>4

(* Every step keeps the types and knows its rows.                            *)
LEMMA ShapeStep == Shape /\ [Next]_vars => Shape'
<1> SUFFICES ASSUME Shape, [Next]_vars PROVE Shape'
  OBVIOUS
<1> USE LedgerAssumption
<1>1. ASSUME NEW t \in Threads, StartJob(t) PROVE Shape'
  <2>1. nRows + 1 \in Row /\ nRows' = nRows + 1 /\ nRows' \in 0..MaxRows
        /\ \A q \in Row : q <= nRows' <=> q <= nRows \/ q = nRows + 1
    BY <1>1 DEF StartJob, Shape, TypeOK, Row
  <2>2. OpenRun(t, nRows + 1, 1)
    BY <1>1 DEF StartJob
  <2>3. \A u \in Threads : \A p \in plan[u] : p.row <= nRows'
    BY <2>1 DEF Shape, KnownRows, TypeOK
  <2> QED
    BY <1>1, <2>1, <2>2, <2>3, OpenShape DEF StartJob, Shape, TypeOK, KnownRows, Idle
<1>2. ASSUME NEW t \in Threads, NEW r \in Row, RetryRun(t, r) PROVE Shape'
  <2>1. OpenRun(t, r, 1) /\ nRows' = nRows /\ r <= nRows
    BY <1>2 DEF RetryRun, Shape, TypeOK
  <2>2. manual' \in Nat /\ misused' \in BOOLEAN /\ failures' \in [Row -> Nat]
    BY <1>2 DEF RetryRun, Shape, TypeOK
  <2> QED
    BY <1>2, <2>1, <2>2, OpenShape DEF RetryRun, Shape, TypeOK, KnownRows, Idle
<1>3. ASSUME NEW t \in Threads, SweepRead(t) PROVE Shape'
  <2>1. \A s \in 1..nRows : s \in Row /\ s <= nRows /\ attempt[s] + 1 \in Nat /\ attempt[s] + 1 >= 1
    <3> SUFFICES ASSUME NEW s \in 1..nRows
                 PROVE  s \in Row /\ s <= nRows /\ attempt[s] + 1 \in Nat /\ attempt[s] + 1 >= 1
      OBVIOUS
    <3>1. nRows \in Nat /\ nRows <= MaxRows /\ MaxRows \in Nat
      BY DEF Shape, TypeOK
    <3>2. s \in Row /\ s <= nRows
      BY <3>1 DEF Row
    <3>3. attempt[s] \in Nat
      BY <3>2 DEF Shape, TypeOK
    <3> QED
      BY <3>2, <3>3
  <2>2. \A u \in Threads : plan'[u] \subseteq [row : Row, attempt : Nat]
                           /\ \A p \in plan'[u] : p.row <= nRows /\ p.attempt >= 1
    <3> SUFFICES ASSUME NEW u \in Threads, NEW p \in plan'[u]
                 PROVE  p \in [row : Row, attempt : Nat] /\ p.row <= nRows /\ p.attempt >= 1
      OBVIOUS
    <3>1. CASE u = t
      <4>1. PICK s \in 1..nRows : p = [row |-> s, attempt |-> attempt[s] + 1]
        BY <1>3, <3>1 DEF SweepRead, Shape, TypeOK
      <4> QED
        BY <2>1, <4>1
    <3>2. CASE u # t
      BY <1>3, <3>2 DEF SweepRead, Shape, TypeOK, KnownRows
    <3> QED
      BY <3>1, <3>2
  <2>3. sweeping' \in [Threads -> BOOLEAN]
    BY <1>3 DEF SweepRead, Shape, TypeOK
  <2>4. plan' \in [Threads -> SUBSET [row : Row, attempt : Nat]]
    BY <1>3, <2>2 DEF SweepRead, Shape, TypeOK
  <2> QED
    BY <1>3, <2>2, <2>3, <2>4 DEF SweepRead, Shape, TypeOK, KnownRows, Idle, rowVars
<1>4. ASSUME NEW t \in Threads, SweepNext(t) PROVE Shape'
  <2>1. PICK p \in plan[t] : OpenRun(t, p.row, p.attempt)
                             /\ plan' = [plan EXCEPT ![t] = @ \ {p}]
    BY <1>4 DEF SweepNext
  <2>2. p.row \in Row /\ p.row <= nRows /\ p.attempt \in Nat \ {0} /\ nRows' = nRows
    BY <1>4 DEF Shape, TypeOK, KnownRows, SweepNext
  <2>3. /\ \A u \in Threads : plan'[u] \subseteq plan[u]
        /\ plan' \in [Threads -> SUBSET [row : Row, attempt : Nat]]
    BY <2>1 DEF Shape, TypeOK
  <2> QED
    BY <1>4, <2>1, <2>2, <2>3, OpenShape DEF SweepNext, Shape, TypeOK, KnownRows, Idle
<1>5. ASSUME NEW t \in Threads, SweepEnd(t) PROVE Shape'
  <2>1. \A r \in Row : status'[r] = status[r] \/ (status[r] \in {"succeeded", "skipped"} /\ status'[r] = "pruned")
    BY <1>5 DEF SweepEnd, Prunable
  <2>2. status' \in [Row -> {"none", "running", "retry_scheduled", "pruned"} \cup Terminal]
    BY <1>5 DEF SweepEnd, Shape, TypeOK
  <2>3. sweeping' \in [Threads -> BOOLEAN]
    BY <1>5 DEF SweepEnd, Shape, TypeOK
  <2>4. TypeOK'
    BY <1>5, <2>2, <2>3 DEF SweepEnd, Shape, TypeOK
  <2>5. KnownRows'
    BY <1>5, <2>1 DEF SweepEnd, Shape, KnownRows, Idle
  <2> QED
    BY <2>4, <2>5 DEF Shape
<1>6. ASSUME NEW t \in Threads, NEW s \in {"retry_scheduled"} \cup Terminal, NEW d \in Nat,
             Close(t, s, d), failures' \in [Row -> Nat]
      PROVE  Shape'
  <2>1. running[t] \in Row /\ running[t] <= nRows
    BY <1>6 DEF Close, Idle, Shape, TypeOK, KnownRows
  <2>2. s # "none" /\ s \in {"none", "running", "retry_scheduled", "pruned"} \cup Terminal
    BY DEF Terminal
  <2>3. TypeOK'
    BY <1>6, <2>1, <2>2 DEF Close, Shape, TypeOK
  <2>4. KnownRows'
    <3>1. nRows' = nRows /\ plan' = plan /\ trying' = trying
      BY <1>6 DEF Close
    <3>2. \A r \in Row : r > nRows <=> status'[r] = "none"
      <4> SUFFICES ASSUME NEW r \in Row PROVE r > nRows <=> status'[r] = "none"
        OBVIOUS
      <4>1. CASE r = running[t]
        <5>1. status'[r] = s
          BY <1>6, <4>1 DEF Close, Shape, TypeOK
        <5>2. ~(r > nRows)
          BY <2>1, <4>1 DEF Shape, TypeOK, Row
        <5> QED
          BY <2>2, <5>1, <5>2
      <4>2. CASE r # running[t]
        BY <1>6, <4>2 DEF Close, Shape, TypeOK, KnownRows
      <4> QED
        BY <4>1, <4>2
    <3>3. \A u \in Threads : running'[u] = running[u] \/ running'[u] = Nothing
      BY <1>6 DEF Close, Shape, TypeOK
    <3>4. Nothing <= nRows
      BY DEF Shape, TypeOK, Nothing
    <3> QED
      BY <3>1, <3>2, <3>3, <3>4 DEF Shape, KnownRows, Idle
  <2> QED
    BY <2>3, <2>4 DEF Shape
<1>7. ASSUME NEW t \in Threads, Finish(t) PROVE Shape'
  BY <1>6, <1>7 DEF Finish, Terminal, Shape, TypeOK
<1>8. ASSUME NEW t \in Threads, Fail(t) PROVE Shape'
  <2>1. failures' \in [Row -> Nat]
    <3>1. failures' = [failures EXCEPT ![running[t]] = @ + 1]
      BY <1>8 DEF Fail
    <3>2. running[t] \in Row
      BY <1>8 DEF Fail, Shape, TypeOK, Idle
    <3>3. failures \in [Row -> Nat]
      BY DEF Shape, TypeOK
    <3> QED
      BY <3>1, <3>2, <3>3
  <2>2. CASE Close(t, "dead_letter", 0)
    BY <1>6, <2>1, <2>2 DEF Terminal
  <2>3. CASE ~Exhausted(t) /\ Close(t, "retry_scheduled", Backoff(trying[t]))
    <3>1. trying[t] \in 1..(MaxAttempts - 1)
      BY <1>8, <2>3 DEF Exhausted, Fail, Shape, TypeOK, KnownRows
    <3>2. Backoff(trying[t]) \in Nat
      BY <3>1, BackoffAssumption
    <3> QED
      BY <1>6, <2>1, <2>3, <3>2
  <2> QED
    BY <1>8, <2>2, <2>3 DEF Fail
<1>9. CASE Crash
  BY <1>9 DEF Crash, Shape, TypeOK, KnownRows, Idle, rowVars, Nothing
<1>10. CASE Tick
  BY <1>10 DEF Tick, Shape, TypeOK, KnownRows, Idle, threadVars
<1>11. CASE UNCHANGED vars
  BY <1>11 DEF vars, rowVars, threadVars, Shape, TypeOK, KnownRows, Idle
<1> QED
  BY <1>1, <1>2, <1>3, <1>4, <1>5, <1>7, <1>8, <1>9, <1>10, <1>11 DEF Next, Thread

(* No thread executes a row that is not running, and no sweep has read one   *)
(* that is not waiting.                                                      *)
LEMMA RowsInHand ==
    ASSUME Orderly, NEW r \in Row
    PROVE  /\ \A t \in Threads : ~Idle(t) /\ running[t] = r => status[r] = "running"
           /\ \A t \in Threads : \A p \in plan[t] : p.row = r => status[r] = "retry_scheduled"
  BY DEF Orderly, Executed, FreshPlans, Due

(* An attempt is opened on a row that nobody has in hand.                    *)
LEMMA OpenOrderly ==
    ASSUME Shape, Shape', Orderly, ~misused,
           NEW t \in Threads, NEW r \in Row, NEW a \in 1..MaxAttempts, OpenRun(t, r, a),
           status[r] # "running", failures'[r] = a - 1,
           \A q \in Row : q # r => failures'[q] = failures[q],
           \A u \in Threads : \A p \in plan'[u] : p \in plan[u] /\ p.row # r,
           sweeping' = sweeping
    PROVE  Orderly'
<1>1. /\ status'[r] = "running" /\ attempt'[r] = a
      /\ running'[t] = r /\ trying'[t] = a
  BY DEF OpenRun, Shape, TypeOK
<1>2. \A q \in Row : q # r => /\ status'[q] = status[q] /\ attempt'[q] = attempt[q]
                              /\ wait'[q] = wait[q] /\ age'[q] = age[q]
  BY DEF OpenRun, Shape, TypeOK
<1>3. \A u \in Threads : u # t => running'[u] = running[u] /\ trying'[u] = trying[u]
  BY DEF OpenRun, Shape, TypeOK
<1>4. \A u \in Threads : ~Idle(u) => running[u] \in Row /\ running[u] # r
  BY RowsInHand DEF Idle, Shape, TypeOK
<1>5. Counted'
  BY <1>1, <1>2 DEF Orderly, Counted
<1>6. Executed'
  <2> SUFFICES ASSUME NEW u \in Threads, ~Idle(u)'
               PROVE  (/\ status[running[u]] = "running"
                       /\ trying[u] = attempt[running[u]] /\ trying[u] <= MaxAttempts
                       /\ failures[running[u]] = trying[u] - 1)'
    BY DEF Executed
  <2>1. CASE u = t
    BY <1>1, <2>1, LedgerAssumption
  <2>2. CASE u # t
    BY <1>2, <1>3, <1>4, <2>2 DEF Orderly, Executed, Idle
  <2> QED
    BY <2>1, <2>2
<1>7. FreshPlans'
  <2> SUFFICES ASSUME NEW u \in Threads, NEW p \in plan'[u]
               PROVE  (/\ u \in Sweepers /\ sweeping[u]
                       /\ Due(p.row) /\ p.attempt = attempt[p.row] + 1)'
    BY DEF FreshPlans
  <2>1. p \in plan[u] /\ p.row \in Row /\ p.row # r
    BY DEF Shape, TypeOK
  <2> QED
    BY <1>2, <2>1 DEF Orderly, FreshPlans, Due
<1>8. OneExecutor'
  BY <1>1, <1>3, <1>4 DEF Orderly, OneExecutor, Idle
<1>9. Waited'
  BY <1>1, <1>2 DEF Orderly, Waited
<1> QED
  BY <1>5, <1>6, <1>7, <1>8, <1>9 DEF Orderly

(* The executor of a row closes it, with the failures its new state tells.   *)
LEMMA CloseOrderly ==
    ASSUME Shape, Shape', Orderly, ~misused,
           NEW t \in Threads, NEW s \in {"retry_scheduled"} \cup Terminal, NEW d \in Nat,
           Close(t, s, d),
           \A q \in Row : q # running[t] => failures'[q] = failures[q],
           s = "retry_scheduled" => /\ failures'[running[t]] = attempt[running[t]]
                                    /\ attempt[running[t]] \in 1..(MaxAttempts - 1)
                                    /\ d = Backoff(attempt[running[t]]),
           s = "dead_letter" => /\ failures'[running[t]] = MaxAttempts
                                /\ attempt[running[t]] = MaxAttempts
    PROVE  Orderly'
<1> DEFINE r == running[t]
<1>1. ~Idle(t) /\ r \in Row /\ status[r] = "running" /\ s # "none" /\ s # "running"
  BY DEF Close, Idle, Shape, TypeOK, Orderly, Executed, Terminal
<1>2. status'[r] = s /\ wait'[r] = d /\ attempt' = attempt /\ age' = age /\ Idle(t)'
  BY <1>1 DEF Close, Shape, TypeOK, Idle
<1>3. \A q \in Row : q # r => status'[q] = status[q] /\ wait'[q] = wait[q]
  BY DEF Close, Shape, TypeOK
<1>4. /\ \A u \in Threads : u # t => running'[u] = running[u]
      /\ trying' = trying /\ sweeping' = sweeping /\ plan' = plan
  BY DEF Close, Shape, TypeOK
<1>5. \A u \in Threads : ~Idle(u)' => u # t /\ ~Idle(u) /\ running[u] \in Row /\ running[u] # r
  BY <1>1, <1>2, <1>4 DEF Idle, Orderly, OneExecutor, Shape, TypeOK
<1>6. Counted'
  <2> SUFFICES ASSUME NEW q \in Row
               PROVE  (/\ status[q] = "none" => failures[q] = 0
                       /\ status[q] = "retry_scheduled" =>
                             failures[q] = attempt[q] /\ attempt[q] \in 1..(MaxAttempts - 1)
                       /\ status[q] = "dead_letter" =>
                             failures[q] = MaxAttempts /\ attempt[q] = MaxAttempts)'
    BY DEF Counted
  <2>1. CASE q = r
    BY <1>1, <1>2, <2>1
  <2>2. CASE q # r
    BY <1>2, <1>3, <2>2 DEF Orderly, Counted
  <2> QED
    BY <2>1, <2>2
<1>7. Executed'
  BY <1>2, <1>3, <1>4, <1>5 DEF Orderly, Executed
<1>8. FreshPlans'
  <2> SUFFICES ASSUME NEW u \in Threads, NEW p \in plan[u]
               PROVE  (/\ u \in Sweepers /\ sweeping[u]
                       /\ Due(p.row) /\ p.attempt = attempt[p.row] + 1)'
    BY <1>4 DEF FreshPlans
  <2>1. p.row \in Row /\ p.row # r
    BY <1>1, RowsInHand DEF Shape, TypeOK
  <2> QED
    BY <1>2, <1>3, <1>4, <2>1 DEF Orderly, FreshPlans, Due
<1>9. OneExecutor'
  BY <1>4, <1>5 DEF Orderly, OneExecutor, Idle
<1>10. Waited'
  <2> SUFFICES ASSUME NEW q \in Row, (status[q] = "retry_scheduled")'
               PROVE  (age[q] > Retention \/ age[q] + wait[q] >= Backoff(attempt[q]))'
    BY DEF Waited
  <2>1. CASE q = r
    <3>1. age[r] \in Nat /\ Backoff(attempt[r]) \in Nat /\ d = Backoff(attempt[r])
      BY <1>1, <1>2, <2>1 DEF Shape, TypeOK
    <3> QED
      BY <1>2, <2>1, <3>1
  <2>2. CASE q # r
    BY <1>2, <1>3, <2>2 DEF Orderly, Waited
  <2> QED
    BY <2>1, <2>2
<1> QED
  BY <1>6, <1>7, <1>8, <1>9, <1>10 DEF Orderly

(* Every step of one sweeper and of manual retries of dead rows keeps the    *)
(* rows and their executors in order.                                        *)
LEMMA OrderlyStep ==
    ASSUME OneSweeper, Shape, Shape', Orderly, ~misused, ~misused', [Next]_vars
    PROVE  Orderly'
<1> USE LedgerAssumption
<1>1. ASSUME NEW t \in Threads, StartJob(t) PROVE Orderly'
  <2>1. nRows + 1 \in Row /\ OpenRun(t, nRows + 1, 1) /\ 1 \in 1..MaxAttempts
    BY <1>1 DEF StartJob, Shape, TypeOK, Row
  <2>2. status[nRows + 1] = "none"
    BY <2>1 DEF Shape, KnownRows, TypeOK
  <2>3. failures'[nRows + 1] = 1 - 1 /\ failures' = failures
    BY <1>1, <2>1, <2>2 DEF StartJob, Orderly, Counted
  <2>4. \A u \in Threads : \A p \in plan[u] : p.row # nRows + 1
    BY <2>1, <2>2, RowsInHand
  <2>5. plan' = plan /\ sweeping' = sweeping
    BY <1>1 DEF StartJob
  <2> QED
    BY <2>1, <2>2, <2>3, <2>4, <2>5, OpenOrderly
<1>2. ASSUME NEW t \in Threads, NEW r \in Row, RetryRun(t, r) PROVE Orderly'
  <2>1. status[r] = "dead_letter"
    BY <1>2, Zenon DEF RetryRun
  <2>2. OpenRun(t, r, 1) /\ 1 \in 1..MaxAttempts
    BY <1>2 DEF RetryRun
  <2>3. failures'[r] = 1 - 1 /\ \A q \in Row : q # r => failures'[q] = failures[q]
    BY <1>2 DEF RetryRun, Shape, TypeOK
  <2>4. \A u \in Threads : \A p \in plan[u] : p.row # r
    BY <2>1, RowsInHand
  <2>5. plan' = plan /\ sweeping' = sweeping
    BY <1>2 DEF RetryRun
  <2> QED
    BY <2>1, <2>2, <2>3, <2>4, <2>5, OpenOrderly
<1>3. ASSUME NEW t \in Threads, SweepRead(t) PROVE Orderly'
  <2>1. /\ rowVars' = rowVars /\ running' = running /\ trying' = trying
        /\ t \in Sweepers /\ sweeping'[t] = TRUE
        /\ \A u \in Threads : u # t => plan'[u] = plan[u] /\ sweeping'[u] = sweeping[u]
    BY <1>3 DEF SweepRead, Shape, TypeOK
  <2>2. \A p \in plan'[t] : p.row \in Row /\ Due(p.row) /\ p.attempt = attempt[p.row] + 1
    <3> SUFFICES ASSUME NEW p \in plan'[t]
                 PROVE  p.row \in Row /\ Due(p.row) /\ p.attempt = attempt[p.row] + 1
      OBVIOUS
    <3>1. PICK s \in {q \in 1..nRows : Due(q)} : p = [row |-> s, attempt |-> attempt[s] + 1]
      BY <1>3 DEF SweepRead, Shape, TypeOK
    <3>2. s \in Row
      BY DEF Shape, TypeOK, Row
    <3> QED
      BY <3>1, <3>2
  <2>3. FreshPlans'
    <3> SUFFICES ASSUME NEW u \in Threads, NEW p \in plan'[u]
                 PROVE  (/\ u \in Sweepers /\ sweeping[u]
                         /\ Due(p.row) /\ p.attempt = attempt[p.row] + 1)'
      BY DEF FreshPlans
    <3>1. CASE u = t
      BY <2>1, <2>2, <3>1 DEF Due, rowVars
    <3>2. CASE u # t
      BY <2>1, <3>2 DEF Orderly, FreshPlans, Due, rowVars
    <3> QED
      BY <3>1, <3>2
  <2> QED
    BY <2>1, <2>3 DEF Orderly, Counted, Executed, OneExecutor, Waited, Idle, rowVars
<1>4. ASSUME NEW t \in Threads, SweepNext(t) PROVE Orderly'
  <2>1. PICK p \in plan[t] : OpenRun(t, p.row, p.attempt)
                             /\ plan' = [plan EXCEPT ![t] = @ \ {p}]
    BY <1>4 DEF SweepNext
  <2>2. p \in [row : Row, attempt : Nat] /\ p.row \in Row
    BY DEF Shape, TypeOK
  <2>3. t \in Sweepers /\ status[p.row] = "retry_scheduled" /\ p.attempt = attempt[p.row] + 1
    BY DEF Orderly, FreshPlans, Due
  <2>4. failures[p.row] = attempt[p.row] /\ attempt[p.row] \in 1..(MaxAttempts - 1)
    BY <2>2, <2>3 DEF Orderly, Counted
  <2>5. p.attempt \in 1..MaxAttempts /\ failures[p.row] = p.attempt - 1
    BY <2>3, <2>4
  <2>6. failures' = failures /\ sweeping' = sweeping
    BY <1>4 DEF SweepNext
  <2>7. ASSUME NEW u \in Threads, NEW q \in plan'[u]
        PROVE  q \in plan[u] /\ q.row # p.row
    <3>1. q \in plan[u] /\ (u = t => q # p)
      BY <2>1 DEF Shape, TypeOK
    <3>2. u = t
      BY <2>3, <3>1 DEF OneSweeper, Orderly, FreshPlans
    <3>3. q \in [row : Row, attempt : Nat] /\ q.attempt = attempt[q.row] + 1
      BY <3>1 DEF Shape, TypeOK, Orderly, FreshPlans
    <3>4. q.row = p.row => q = p
      BY <2>2, <2>3, <3>3
    <3> QED
      BY <3>1, <3>2, <3>4
  <2> QED
    BY <2>1, <2>2, <2>3, <2>5, <2>6, <2>7, OpenOrderly
<1>5. ASSUME NEW t \in Threads, SweepEnd(t) PROVE Orderly'
  <2>1. /\ attempt' = attempt /\ age' = age /\ wait' = wait /\ failures' = failures
        /\ running' = running /\ trying' = trying /\ plan' = plan /\ plan[t] = {}
        /\ \A u \in Threads : u # t => sweeping'[u] = sweeping[u]
    BY <1>5 DEF SweepEnd, Shape, TypeOK
  <2>2. \A r \in Row : status'[r] = status[r]
                       \/ (status[r] \in {"succeeded", "skipped"} /\ status'[r] = "pruned")
    BY <1>5 DEF SweepEnd, Prunable
  <2>3. Counted' /\ OneExecutor' /\ Waited'
    BY <2>1, <2>2 DEF Orderly, Counted, OneExecutor, Waited, Idle
  <2>4. Executed'
    BY <2>1, <2>2 DEF Orderly, Executed, Idle, Shape, TypeOK
  <2>5. FreshPlans'
    BY <2>1, <2>2 DEF Orderly, FreshPlans, Due, Shape, TypeOK
  <2> QED
    BY <2>3, <2>4, <2>5 DEF Orderly
<1>6. ASSUME NEW t \in Threads, Finish(t) PROVE Orderly'
  BY <1>6, CloseOrderly DEF Finish, Terminal
<1>7. ASSUME NEW t \in Threads, Fail(t) PROVE Orderly'
  <2> DEFINE r == running[t]
  <2>1. r \in Row /\ trying[t] \in Nat \ {0} /\ trying[t] = attempt[r] /\ trying[t] <= MaxAttempts
        /\ failures[r] = trying[t] - 1
    BY <1>7 DEF Fail, Idle, Shape, TypeOK, KnownRows, Orderly, Executed
  <2>2. failures'[r] = attempt[r] /\ \A q \in Row : q # r => failures'[q] = failures[q]
    BY <1>7, <2>1 DEF Fail, Shape, TypeOK
  <2>3. CASE Exhausted(t) /\ Close(t, "dead_letter", 0)
    <3>1. attempt[r] = MaxAttempts
      BY <2>1, <2>3 DEF Exhausted
    <3> QED
      BY <2>2, <2>3, <3>1, CloseOrderly DEF Terminal
  <2>4. CASE ~Exhausted(t) /\ Close(t, "retry_scheduled", Backoff(trying[t]))
    <3>1. attempt[r] \in 1..(MaxAttempts - 1)
      BY <2>1, <2>4 DEF Exhausted
    <3>2. Backoff(trying[t]) \in Nat
      BY <2>1, <3>1, BackoffAssumption
    <3> QED
      BY <2>1, <2>2, <2>4, <3>1, <3>2, CloseOrderly
  <2> QED
    BY <1>7, <2>3, <2>4 DEF Fail
<1>8. CASE Crash
  <2>1. rowVars' = rowVars /\ \A t \in Threads : Idle(t)' /\ plan'[t] = {}
    BY <1>8 DEF Crash, Idle
  <2> QED
    BY <2>1 DEF Orderly, Counted, Executed, FreshPlans, OneExecutor, Waited, rowVars
<1>9. CASE Tick
  <2>1. /\ status' = status /\ attempt' = attempt /\ failures' = failures
        /\ running' = running /\ trying' = trying /\ sweeping' = sweeping /\ plan' = plan
    BY <1>9 DEF Tick, threadVars
  <2>2. Counted' /\ Executed' /\ OneExecutor'
    BY <2>1 DEF Orderly, Counted, Executed, OneExecutor, Idle
  <2>3. FreshPlans'
    BY <1>9, <2>1 DEF Tick, Orderly, FreshPlans, Due, Shape, TypeOK
  <2>4. Waited'
    <3> SUFFICES ASSUME NEW r \in Row, status[r] = "retry_scheduled"
                 PROVE  age'[r] > Retention \/ age'[r] + wait'[r] >= Backoff(attempt[r])
      BY <2>1 DEF Waited
    <3>1. /\ age[r] \in Nat /\ wait[r] \in Nat
          /\ age'[r] = IF age[r] > Retention THEN age[r] ELSE age[r] + 1
          /\ wait'[r] = IF wait[r] = 0 THEN 0 ELSE wait[r] - 1
      BY <1>9 DEF Tick, Shape, TypeOK
    <3>2. Backoff(attempt[r]) \in Nat
      BY BackoffAssumption DEF Orderly, Counted
    <3>3. age[r] > Retention \/ age[r] + wait[r] >= Backoff(attempt[r])
      BY DEF Orderly, Waited
    <3> QED
      BY <3>1, <3>2, <3>3
  <2> QED
    BY <2>2, <2>3, <2>4 DEF Orderly
<1>10. CASE UNCHANGED vars
  BY <1>10 DEF vars, rowVars, threadVars, Orderly, Counted, Executed, FreshPlans,
               OneExecutor, Waited, Idle, Due
<1> QED
  BY <1>1, <1>2, <1>3, <1>4, <1>5, <1>6, <1>7, <1>8, <1>9, <1>10 DEF Next, Thread

(* A misuse is never forgotten. *)
LEMMA MisuseStands == [Next]_vars /\ ~misused' => ~misused
<1> SUFFICES ASSUME [Next]_vars, ~misused' PROVE ~misused
  OBVIOUS
<1>1. ASSUME NEW t \in Threads, Thread(t) PROVE ~misused
  BY <1>1, Zenon DEF Thread, StartJob, RetryRun, SweepRead, SweepNext, SweepEnd,
                     Finish, Fail, Close
<1> QED
  BY <1>1, Zenon DEF Next, Crash, Tick, vars

(* What every step of the ledger keeps. *)
LEMMA LedgerStep ==
    ASSUME OneSweeper
    PROVE  LedgerInv /\ [Next]_vars => LedgerInv'
  BY ShapeStep, OrderlyStep, MisuseStands, Zenon DEF LedgerInv

(* Rows, threads, plans and counters are of the types that _open_run, _fail, *)
(* sweep_due_retries and retry_run give them.                                *)
THEOREM LedgerTyped == Spec => []TypeOK
<1>1. Init => Shape
  BY LedgerInit DEF LedgerInv
<1>2. Shape => TypeOK
  BY DEF Shape
<1> QED
  BY <1>1, <1>2, ShapeStep, PTL DEF Spec

(* The inductive invariant of the ledger. *)
LEMMA LedgerInvariant ==
    ASSUME OneSweeper
    PROVE  Spec => []LedgerInv
  BY LedgerInit, LedgerStep, PTL DEF Spec

(* A waiting row has failed as often as its counter tells and a dead one     *)
(* exactly max_attempts times, whatever sweeps, crashes and manual retries   *)
(* of dead rows have done (_fail, sweep_due_retries, retry_run).             *)
THEOREM AttemptsAreCounted ==
    ASSUME OneSweeper
    PROVE  Spec => []AttemptsCounted
<1>1. LedgerInv => AttemptsCounted
  BY LedgerAssumption DEF LedgerInv, Orderly, Counted, AttemptsCounted
<1> QED
  BY <1>1, LedgerInvariant, PTL

(* No row is executed by two threads while only dead rows are retried by     *)
(* hand: what a sweep has read does not go stale (sweep_due_retries).        *)
THEOREM RowHasOneExecutor ==
    ASSUME OneSweeper
    PROVE  Spec => []OneExecutor
<1>1. LedgerInv => OneExecutor
  BY DEF LedgerInv, Orderly, OneExecutor
<1> QED
  BY <1>1, LedgerInvariant, PTL

(* Between a failure and the next attempt the whole backoff passes (_fail,   *)
(* sweep_due_retries).                                                       *)
THEOREM BackoffIsKept ==
    ASSUME OneSweeper
    PROVE  Spec => BackoffKept
<1>1. ASSUME LedgerInv, [Next]_vars, NEW r \in Row, ~misused',
             status[r] = "retry_scheduled", status'[r] = "running"
      PROVE  age[r] >= Backoff(attempt[r])
  <2>1. Shape /\ Orderly
    BY <1>1, MisuseStands DEF LedgerInv
  <2>2. wait[r] = 0
    <3>1. ASSUME NEW t \in Threads, StartJob(t) PROVE wait[r] = 0
      <4>1. nRows + 1 \in Row /\ status[nRows + 1] = "none"
        BY <2>1, <3>1, LedgerAssumption DEF StartJob, Shape, TypeOK, KnownRows, Row
      <4>2. status'[r] = status[r]
        BY <1>1, <2>1, <3>1, <4>1 DEF StartJob, OpenRun, Shape, TypeOK
      <4> QED
        BY <1>1, <4>2
    <3>2. ASSUME NEW t \in Threads, NEW q \in Row, RetryRun(t, q) PROVE wait[r] = 0
      <4>1. status[q] = "dead_letter"
        BY <1>1, <3>2, Zenon DEF RetryRun
      <4>2. status'[r] = status[r]
        BY <1>1, <2>1, <3>2, <4>1 DEF RetryRun, OpenRun, Shape, TypeOK
      <4> QED
        BY <1>1, <4>2
    <3>3. ASSUME NEW t \in Threads, SweepNext(t) PROVE wait[r] = 0
      <4>1. PICK p \in plan[t] : OpenRun(t, p.row, p.attempt)
        BY <3>3 DEF SweepNext
      <4>2. p.row = r
        BY <1>1, <2>1, <4>1 DEF OpenRun, Shape, TypeOK
      <4> QED
        BY <2>1, <4>2 DEF Orderly, FreshPlans, Due
    <3>4. ASSUME NEW t \in Threads, NEW s \in {"retry_scheduled"} \cup Terminal, NEW d,
                 Close(t, s, d)
          PROVE  FALSE
      BY <1>1, <2>1, <3>4 DEF Close, Shape, TypeOK, Terminal
    <3>5. ASSUME NEW t \in Threads, Finish(t) \/ Fail(t) PROVE FALSE
      BY <3>4, <3>5 DEF Finish, Fail, Terminal
    <3>6. ASSUME NEW t \in Threads, SweepRead(t) \/ SweepEnd(t) PROVE FALSE
      BY <1>1, <3>6 DEF SweepRead, SweepEnd, Prunable, rowVars
    <3>7. ~Crash /\ ~Tick /\ vars' # vars
      BY <1>1 DEF Crash, Tick, vars, rowVars
    <3> QED
      BY <1>1, <3>1, <3>2, <3>3, <3>5, <3>6, <3>7 DEF Next, Thread
  <2>3. attempt[r] \in 1..(MaxAttempts - 1) /\ age[r] \in Nat
    BY <1>1, <2>1 DEF Orderly, Counted, Shape, TypeOK
  <2>4. Backoff(attempt[r]) \in Nat /\ Backoff(attempt[r]) <= Retention + 1
    BY <2>3, BackoffAssumption, LedgerAssumption
  <2>5. age[r] > Retention \/ age[r] + wait[r] >= Backoff(attempt[r])
    BY <1>1, <2>1 DEF Orderly, Waited
  <2> QED
    BY <2>2, <2>3, <2>4, <2>5, LedgerAssumption
<1>2. LedgerInv /\ [Next]_vars =>
        [\A r \in Row : status[r] = "retry_scheduled" /\ status'[r] = "running"
            => age[r] >= Backoff(attempt[r]) \/ misused']_vars
  BY <1>1
<1> QED
  BY <1>2, LedgerInvariant, PTL DEF Spec, BackoffKept

(* A dead row stays visible until somebody retries it: no sweep, no pruning, *)
(* no crash and no thread takes it away (prune_completed_runs, retry_run).   *)
THEOREM DeadRowsStay ==
    ASSUME OneSweeper
    PROVE  Spec => DeadStaysVisible
<1>1. ASSUME LedgerInv, [Next]_vars, ~misused, NEW r \in Row, status[r] = "dead_letter",
             ~(manual' > manual)
      PROVE  status'[r] = "dead_letter"
  <2>1. Shape /\ Orderly
    BY <1>1 DEF LedgerInv
  <2>2. ASSUME NEW t \in Threads, StartJob(t) PROVE status'[r] = status[r]
    <3>1. nRows + 1 \in Row /\ status[nRows + 1] = "none"
      BY <2>1, <2>2, LedgerAssumption DEF StartJob, Shape, TypeOK, KnownRows, Row
    <3> QED
      BY <1>1, <2>1, <2>2, <3>1 DEF StartJob, OpenRun, Shape, TypeOK
  <2>3. ASSUME NEW t \in Threads, NEW q \in Row, RetryRun(t, q) PROVE FALSE
    BY <1>1, <2>1, <2>3 DEF RetryRun, Shape, TypeOK
  <2>4. ASSUME NEW t \in Threads, SweepNext(t) PROVE status'[r] = status[r]
    <3>1. PICK p \in plan[t] : OpenRun(t, p.row, p.attempt)
      BY <2>4 DEF SweepNext
    <3>2. p.row # r
      BY <1>1, <2>1 DEF Orderly, FreshPlans, Due
    <3> QED
      BY <2>1, <3>1, <3>2 DEF OpenRun, Shape, TypeOK
  <2>5. ASSUME NEW t \in Threads, NEW s, NEW d, Close(t, s, d) PROVE status'[r] = status[r]
    <3>1. running[t] # r
      BY <1>1, <2>1, <2>5 DEF Close, Orderly, Executed
    <3> QED
      BY <2>1, <2>5, <3>1 DEF Close, Shape, TypeOK
  <2>6. ASSUME NEW t \in Threads, Finish(t) \/ Fail(t) PROVE status'[r] = status[r]
    BY <2>5, <2>6 DEF Finish, Fail
  <2>7. ASSUME NEW t \in Threads, SweepRead(t) \/ SweepEnd(t) PROVE status'[r] = status[r]
    BY <1>1, <2>7 DEF SweepRead, SweepEnd, Prunable, rowVars
  <2>8. Crash \/ Tick \/ UNCHANGED vars => status'[r] = status[r]
    BY DEF Crash, Tick, vars, rowVars
  <2> QED
    BY <1>1, <2>2, <2>3, <2>4, <2>6, <2>7, <2>8 DEF Next, Thread
<1>2. LedgerInv /\ [Next]_vars =>
        [\A r \in Row : status[r] = "dead_letter" =>
            status'[r] = "dead_letter" \/ manual' > manual \/ misused]_vars
  BY <1>1
<1> QED
  BY <1>2, LedgerInvariant, PTL DEF Spec, DeadStaysVisible

-----------------------------------------------------------------------------
(* The lease.                                                                *)

Stages == {"idle", "asking", "working", "releasing"}
Sights == {"nothing", "held", "free", "own", "other"}

LeaseTyped ==
    /\ lease \in [there : BOOLEAN, holder : Runners \cup {NoRunner},
                  left : Nat, released : BOOLEAN]
    /\ lockOf \in [Hosts -> Runners \cup {NoRunner}]
    /\ stage \in [Runners -> Stages]
    /\ saw \in [Runners -> Sights]
    /\ mine \in [Runners -> Nat]

(* The lock is held exactly between looking at the row and writing it.       *)
InLock ==
    \A r \in Runners : stage[r] \in {"asking", "releasing"} <=> lockOf[HostOf[r]] = r

(* What was read under the lock is still so.                                 *)
SightStands ==
    \A r \in Runners :
        /\ stage[r] = "asking" /\ saw[r] = "free" => ~IsHeld(lease)
        /\ stage[r] = "asking" /\ saw[r] = "nothing" => ~lease.there
        /\ stage[r] = "releasing" /\ saw[r] = "own" => lease.holder = r

InTime(r) == stage[r] = "working" /\ mine[r] > 0

(* The row is that of the run which is within its time.                      *)
RowIsTheirs ==
    \A r \in Runners : InTime(r) => /\ IsHeld(lease) /\ lease.holder = r
                                    /\ mine[r] <= lease.left

LeaseInv == LeaseTyped /\ InLock /\ SightStands /\ RowIsTheirs

(* All runs of the engine are threads of one process. *)
OneHost == \A r, q \in Runners : HostOf[r] = HostOf[q]

(* Nobody has asked for a lease at first. *)
LEMMA LeaseStart == LeaseInit => LeaseInv
<1> SUFFICES ASSUME LeaseInit PROVE LeaseInv
  OBVIOUS
<1> USE LeaseAssumption, RunnerAssumption DEF LeaseInit
<1>1. LeaseTyped
  BY DEF LeaseTyped, Stages, Sights
<1>2. InLock
  BY DEF InLock
<1>3. SightStands /\ RowIsTheirs
  BY DEF SightStands, RowIsTheirs, InTime
<1> QED
  BY <1>1, <1>2, <1>3 DEF LeaseInv

(* One run at a time is inside the lock. *)
LEMMA LockExcludes ==
    ASSUME OneHost, LeaseInv, NEW r \in Runners, NEW q \in Runners,
           stage[r] \in {"asking", "releasing"}, stage[q] \in {"asking", "releasing"}
    PROVE  r = q
  BY DEF OneHost, LeaseInv, InLock

(* Who enters the lock: nobody else is inside, and only the runner's own     *)
(* stage and sight change.                                                   *)
LEMMA EntersLock ==
    ASSUME OneHost, LeaseInv, NEW r \in Runners, EnterLock(r),
           NEW s \in {"asking", "releasing"}, NEW w \in Sights, To(r, s),
           saw' = [saw EXCEPT ![r] = w], UNCHANGED <<lease, mine>>,
           stage[r] \in {"idle", "working"},
           s = "asking" /\ w = "free" => ~IsHeld(lease),
           s = "asking" /\ w = "nothing" => ~lease.there,
           s = "releasing" /\ w = "own" => lease.holder = r
    PROVE  LeaseInv'
<1> USE LeaseAssumption, RunnerAssumption
<1>1. /\ HostOf[r] \in Hosts /\ lockOf[HostOf[r]] = NoRunner /\ lockOf'[HostOf[r]] = r
      /\ stage'[r] = s /\ saw'[r] = w
      /\ \A q \in Runners : q # r => stage'[q] = stage[q] /\ saw'[q] = saw[q]
  BY DEF EnterLock, To, LeaseInv, LeaseTyped
<1>2. LeaseTyped'
  BY DEF EnterLock, To, LeaseInv, LeaseTyped, Stages
<1>3. \A q \in Runners : stage[q] \notin {"asking", "releasing"}
  BY <1>1 DEF OneHost, LeaseInv, InLock
<1>4. InLock'
  BY <1>1, <1>3 DEF InLock, OneHost
<1>5. SightStands'
  BY <1>1, <1>3 DEF SightStands, IsHeld
<1>6. RowIsTheirs'
  BY <1>1 DEF LeaseInv, RowIsTheirs, InTime, IsHeld
<1> QED
  BY <1>2, <1>4, <1>5, <1>6 DEF LeaseInv

(* Who leaves the lock: whatever the row is now is right for the others.     *)
LEMMA LeavesLock ==
    ASSUME OneHost, LeaseInv, NEW r \in Runners, LeaveLock(r),
           NEW s \in {"idle", "working"}, To(r, s), saw' = saw,
           stage[r] \in {"asking", "releasing"},
           lease' \in [there : BOOLEAN, holder : Runners \cup {NoRunner},
                       left : Nat, released : BOOLEAN],
           mine' \in [Runners -> Nat], RowIsTheirs'
    PROVE  LeaseInv'
<1> USE LeaseAssumption, RunnerAssumption
<1>1. /\ HostOf[r] \in Hosts /\ lockOf'[HostOf[r]] = NoRunner /\ stage'[r] = s
      /\ \A q \in Runners : q # r => stage'[q] = stage[q]
  BY DEF LeaveLock, To, LeaseInv, LeaseTyped
<1>2. LeaseTyped'
  BY DEF LeaveLock, To, LeaseInv, LeaseTyped, Stages
<1>3. \A q \in Runners : stage'[q] \notin {"asking", "releasing"}
  BY <1>1, LockExcludes
<1>4. InLock'
  BY <1>1, <1>3 DEF InLock, OneHost
<1>5. SightStands'
  BY <1>3 DEF SightStands
<1> QED
  BY <1>2, <1>4, <1>5 DEF LeaseInv

(* What every step of the lease keeps. *)
LEMMA LeaseStep ==
    ASSUME OneHost
    PROVE  LeaseInv /\ [LeaseNext]_leaseVars => LeaseInv'
<1> SUFFICES ASSUME LeaseInv, [LeaseNext]_leaseVars PROVE LeaseInv'
  OBVIOUS
<1> USE LeaseAssumption, RunnerAssumption
<1>1. ASSUME NEW r \in Runners, LookUp(r) PROVE LeaseInv'
  <2> DEFINE w == IF IsHeld(lease) THEN "held" ELSE IF lease.there THEN "free" ELSE "nothing"
  <2>1. w \in Sights /\ (w = "free" => ~IsHeld(lease)) /\ (w = "nothing" => ~lease.there)
    BY DEF Sights
  <2> HIDE DEF w
  <2>2. /\ EnterLock(r) /\ To(r, "asking") /\ saw' = [saw EXCEPT ![r] = w]
        /\ UNCHANGED <<lease, mine>> /\ stage[r] = "idle"
    BY <1>1 DEF LookUp, w
  <2> QED
    BY <2>1, <2>2, EntersLock
<1>2. ASSUME NEW r \in Runners, Refused(r) PROVE LeaseInv'
  <2>1. RowIsTheirs'
    BY <1>2 DEF Refused, To, LeaseInv, LeaseTyped, RowIsTheirs, InTime, IsHeld
  <2> QED
    BY <1>2, <2>1, LeavesLock DEF Refused, LeaseInv, LeaseTyped
<1>3. ASSUME NEW r \in Runners, TakeLease(r) PROVE LeaseInv'
  <2>1. ~IsHeld(lease)
    BY <1>3 DEF TakeLease, LeaseInv, SightStands, IsHeld
  <2>2. \A q \in Runners : ~InTime(q)
    BY <2>1 DEF LeaseInv, RowIsTheirs
  <2>3. /\ lease' = [there |-> TRUE, holder |-> r, left |-> Ttl, released |-> FALSE]
        /\ mine' = [mine EXCEPT ![r] = Ttl] /\ stage' = [stage EXCEPT ![r] = "working"]
    BY <1>3 DEF TakeLease, To
  <2>4. RowIsTheirs'
    <3>1. IsHeld(lease') /\ lease'.holder = r /\ mine'[r] = lease'.left
      BY <2>3 DEF IsHeld, LeaseInv, LeaseTyped
    <3>2. \A q \in Runners : q # r => ~InTime(q)'
      BY <2>2, <2>3 DEF InTime, LeaseInv, LeaseTyped
    <3>3. lease'.left \in Nat
      BY <2>3
    <3> QED
      BY <3>1, <3>2, <3>3 DEF RowIsTheirs, IsHeld
  <2>5. lease' \in [there : BOOLEAN, holder : Runners \cup {NoRunner},
                    left : Nat, released : BOOLEAN]
    BY <2>3
  <2>6. mine' \in [Runners -> Nat]
    BY <2>3 DEF LeaseInv, LeaseTyped
  <2> QED
    BY <1>3, <2>4, <2>5, <2>6, LeavesLock DEF TakeLease
<1>4. ASSUME NEW r \in Runners, EngineEnds(r) PROVE LeaseInv'
  <2> DEFINE w == IF lease.holder = r THEN "own" ELSE "other"
  <2>1. w \in Sights /\ (w = "own" => lease.holder = r)
    BY DEF Sights
  <2> HIDE DEF w
  <2>2. /\ EnterLock(r) /\ To(r, "releasing") /\ saw' = [saw EXCEPT ![r] = w]
        /\ UNCHANGED <<lease, mine>> /\ stage[r] = "working"
    BY <1>4 DEF EngineEnds, w
  <2> QED
    BY <2>1, <2>2, EntersLock
<1>5. ASSUME NEW r \in Runners, ReleaseLease(r) PROVE LeaseInv'
  <2>1. /\ lease' \in [there : BOOLEAN, holder : Runners \cup {NoRunner},
                       left : Nat, released : BOOLEAN]
        /\ mine' \in [Runners -> Nat]
    BY <1>5 DEF ReleaseLease, LeaseInv, LeaseTyped
  <2>2. RowIsTheirs'
    <3> SUFFICES ASSUME NEW q \in Runners, InTime(q)'
                 PROVE  IsHeld(lease') /\ lease'.holder = q /\ mine'[q] <= lease'.left
      BY DEF RowIsTheirs, IsHeld
    <3>1. q # r /\ InTime(q) /\ mine'[q] = mine[q]
      BY <1>5 DEF ReleaseLease, To, InTime, LeaseInv, LeaseTyped
    <3>2. IsHeld(lease) /\ lease.holder = q /\ mine[q] <= lease.left
      BY <3>1 DEF LeaseInv, RowIsTheirs
    <3>3. ~MayRelease(r)
      BY <1>5, <3>1, <3>2 DEF ReleaseLease, MayRelease, LeaseInv, SightStands
    <3> QED
      BY <1>5, <3>1, <3>2, <3>3 DEF ReleaseLease
  <2> QED
    BY <1>5, <2>1, <2>2, LeavesLock DEF ReleaseLease
<1>6. CASE LeaseTick
  <2>1. /\ lockOf' = lockOf /\ stage' = stage /\ saw' = saw
        /\ lease'.there = lease.there /\ lease'.holder = lease.holder
        /\ lease'.released = lease.released
        /\ lease'.left = IF lease.left > 0 THEN lease.left - 1 ELSE 0
        /\ \A r \in Runners : mine'[r] = IF mine[r] > 0 THEN mine[r] - 1 ELSE 0
    BY <1>6 DEF LeaseTick, LeaseInv, LeaseTyped
  <2>2. LeaseTyped'
    BY <1>6 DEF LeaseTick, LeaseInv, LeaseTyped
  <2>3. lease.left \in Nat /\ \A r \in Runners : mine[r] \in Nat
    BY DEF LeaseInv, LeaseTyped
  <2>4. InLock'
    BY <2>1 DEF LeaseInv, InLock
  <2>5. IsHeld(lease') => IsHeld(lease)
    BY <2>1, <2>3 DEF IsHeld
  <2>6. SightStands'
    BY <2>1, <2>5 DEF LeaseInv, SightStands, IsHeld
  <2>7. RowIsTheirs'
    <3> SUFFICES ASSUME NEW q \in Runners, InTime(q)'
                 PROVE  IsHeld(lease') /\ lease'.holder = q /\ mine'[q] <= lease'.left
      BY DEF RowIsTheirs, IsHeld
    <3>1. InTime(q) /\ mine[q] > 1
      BY <2>1, <2>3 DEF InTime
    <3>2. IsHeld(lease) /\ lease.holder = q /\ mine[q] <= lease.left
      BY <3>1 DEF LeaseInv, RowIsTheirs
    <3>3. lease'.left = lease.left - 1 /\ mine'[q] = mine[q] - 1 /\ lease.left > 1
      BY <2>1, <2>3, <3>1, <3>2
    <3> QED
      BY <2>1, <2>3, <3>2, <3>3 DEF IsHeld
  <2> QED
    BY <2>2, <2>4, <2>6, <2>7 DEF LeaseInv
<1>7. ASSUME NEW h \in Hosts, HostDies(h) PROVE LeaseInv'
  <2>1. LeaseTyped'
    BY <1>7 DEF HostDies, LeaseInv, LeaseTyped, Stages
  <2>2. /\ lease' = lease /\ saw' = saw
        /\ \A r \in Runners :
              /\ HostOf[r] = h => stage'[r] = "idle" /\ lockOf'[HostOf[r]] = NoRunner
              /\ HostOf[r] # h => /\ stage'[r] = stage[r] /\ mine'[r] = mine[r]
                                  /\ lockOf'[HostOf[r]] = lockOf[HostOf[r]]
    BY <1>7 DEF HostDies, LeaseInv, LeaseTyped
  <2>3. InLock'
    BY <2>2 DEF LeaseInv, InLock
  <2>4. SightStands' /\ RowIsTheirs'
    BY <2>2 DEF LeaseInv, SightStands, RowIsTheirs, InTime, IsHeld
  <2> QED
    BY <2>1, <2>3, <2>4 DEF LeaseInv
<1>8. CASE UNCHANGED leaseVars
  BY <1>8 DEF leaseVars, LeaseInv, LeaseTyped, InLock, SightStands, RowIsTheirs, InTime, IsHeld
<1> QED
  BY <1>1, <1>2, <1>3, <1>4, <1>5, <1>6, <1>7, <1>8 DEF LeaseNext, RunnerStep

(* While the engine runs in one process, no two of its runs work within the  *)
(* time of their leases: neither a takeover after a lease ran out nor the    *)
(* late release of a slow run lets two in (acquire_lease, release_lease).    *)
THEOREM LeaseExcludes ==
    ASSUME OneHost
    PROVE  LeaseSpec => []OneWriterInTime
<1>1. LeaseInv => OneWriterInTime
  BY DEF LeaseInv, RowIsTheirs, InTime, OneWriterInTime
<1> QED
  BY <1>1, LeaseStart, LeaseStep, PTL DEF LeaseSpec

-----------------------------------------------------------------------------
(* The two together.                                                         *)

(* A step of either part is a step or a stutter of the ledger and of the     *)
(* lease: neither disturbs the other.                                        *)
LEMMA PartsStep == [JobsNext]_all => [Next]_vars /\ [LeaseNext]_leaseVars
  BY DEF JobsNext, Ledger, Leases, all

(* Ledger and lease, run beside each other, each behave as specified.        *)
THEOREM PartsBehave == JobsSpec => Spec /\ LeaseSpec
<1>1. JobsInit => Init /\ LeaseInit
  BY DEF JobsInit
<1> QED
  BY <1>1, PartsStep, PTL DEF JobsSpec, Spec, LeaseSpec

(* Of the jobs as a whole: one executor of a row, and one engine run within  *)
(* the time of its lease (run_job, retry_run, acquire_lease).                *)
THEOREM OneAtATimeHolds ==
    ASSUME OneSweeper, OneHost
    PROVE  JobsSpec => []OneAtATime
<1>1. OneExecutor /\ OneWriterInTime => OneAtATime
  BY DEF OneAtATime
<1> QED
  BY <1>1, PartsBehave, RowHasOneExecutor, LeaseExcludes, PTL

=============================================================================
