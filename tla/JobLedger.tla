----------------------------- MODULE JobLedger -----------------------------
(***************************************************************************)
(* The ledger of scheduled jobs (mktcore/jobs/runner.py): every execution  *)
(* has a row in job_runs, a failed attempt is rescheduled with a growing   *)
(* delay, a sweep runs what is due again in the same row, and a row whose  *)
(* attempts are used up stays in the dead letter queue.                    *)
(*                                                                         *)
(* A thread is one of APScheduler's or a request's.  Opening a row, and    *)
(* closing it with the job's result, are transactions of their own; the    *)
(* job itself runs between them without any lock.  A crash ends all        *)
(* threads and leaves the rows.                                            *)
(***************************************************************************)
EXTENDS Naturals, FiniteSets

CONSTANTS
    Threads,
    Sweepers,       \* the threads that may be inside sweep_due_retries
    MaxAttempts,    \* ScheduledJob.max_attempts
    Retention,      \* COMPLETED_RUN_RETENTION_DAYS
    MaxRows,        \* bound: executions started
    MaxManual,      \* bound: manual retries
    MaxCrashes      \* bound: crashes of the process

ASSUME LedgerAssumption ==
    /\ Sweepers \subseteq Threads
    /\ MaxAttempts \in Nat \ {0}
    /\ Retention \in Nat
    /\ MaxRows \in Nat
    /\ MaxManual \in Nat
    /\ MaxCrashes \in Nat

VARIABLES
    nRows,        \* rows inserted so far
    status,       \* JobRun.status
    attempt,      \* JobRun.attempt
    age,          \* time since JobRun.started_at, counted up to just past Retention
    wait,         \* time left until JobRun.next_retry_at
    running,      \* per thread: the row it executes, or Nothing
    trying,       \* per thread: the attempt it was told to make
    sweeping,     \* per thread: inside sweep_due_retries
    plan,         \* per thread: what the sweep has read and not yet run
    manual,       \* manual retries so far
    crashes,
    failures,     \* per row: attempts that failed since it was opened afresh
    misused       \* a row was retried by hand that was not dead

rowVars == <<nRows, status, attempt, age, wait, failures>>
threadVars == <<running, trying, sweeping, plan>>
vars == <<rowVars, threadVars, manual, misused, crashes>>

Row == 1..MaxRows
Nothing == 0
Terminal == {"succeeded", "skipped", "dead_letter"}

(* 60 * 2^(attempt - 1) seconds, in minutes. *)
Backoff(a) == 2 ^ (a - 1)

(* No backoff is longer than the time ages are told apart: minutes, not days. *)
ASSUME BackoffAssumption ==
    \A a \in 1..(MaxAttempts - 1) : Backoff(a) \in 1..(Retention + 1)

Idle(t) == running[t] = Nothing

-----------------------------------------------------------------------------
Init ==
    /\ nRows = 0
    /\ status = [r \in Row |-> "none"]
    /\ attempt = [r \in Row |-> 0]
    /\ age = [r \in Row |-> 0]
    /\ wait = [r \in Row |-> 0]
    /\ failures = [r \in Row |-> 0]
    /\ running = [t \in Threads |-> Nothing]
    /\ trying = [t \in Threads |-> 0]
    /\ sweeping = [t \in Threads |-> FALSE]
    /\ plan = [t \in Threads |-> {}]
    /\ manual = 0
    /\ misused = FALSE
    /\ crashes = 0

(* _open_run: attempt a of row r begins. *)
OpenRun(t, r, a) ==
    /\ status' = [status EXCEPT ![r] = "running"]
    /\ attempt' = [attempt EXCEPT ![r] = a]
    /\ age' = [age EXCEPT ![r] = 0]
    /\ wait' = [wait EXCEPT ![r] = 0]
    /\ running' = [running EXCEPT ![t] = r]
    /\ trying' = [trying EXCEPT ![t] = a]

(* run_job from the schedule or from POST /jobs/{name}/run: a new row. *)
StartJob(t) ==
    /\ Idle(t) /\ ~sweeping[t]
    /\ nRows < MaxRows
    /\ nRows' = nRows + 1
    /\ OpenRun(t, nRows + 1, 1)
    /\ UNCHANGED <<failures, sweeping, plan, manual, misused, crashes>>

(* retry_run: the row's counter starts again, whatever state the row is in. *)
RetryRun(t, r) ==
    /\ Idle(t) /\ ~sweeping[t]
    /\ manual < MaxManual
    /\ r \in 1..nRows /\ status[r] # "pruned"
    /\ manual' = manual + 1
    /\ misused' = (misused \/ status[r] # "dead_letter")
    /\ OpenRun(t, r, 1)
    /\ failures' = [failures EXCEPT ![r] = 0]
    /\ UNCHANGED <<nRows, sweeping, plan, crashes>>

(* Mistake: the sweep does not look at the time. *)
EagerMistake(r) == status[r] = "retry_scheduled"

(* Mistake: the comparison with the clock the wrong way round. *)
NotYetMistake(r) == status[r] = "retry_scheduled" /\ wait[r] > 0

Due(r) == status[r] = "retry_scheduled" /\ wait[r] = 0

(* Mistake: nothing keeps a second sweep from starting. *)
SecondSweepMistake(t) ==
    /\ Idle(t) /\ ~sweeping[t]
    /\ sweeping' = [sweeping EXCEPT ![t] = TRUE]
    /\ plan' = [plan EXCEPT ![t] =
            {[row |-> r, attempt |-> attempt[r] + 1] : r \in {s \in 1..nRows : Due(s)}}]
    /\ UNCHANGED <<rowVars, running, trying, manual, misused, crashes>>

(* sweep_due_retries reads what is due, without a lock, and runs it one by   *)
(* one (in any order here, by next_retry_at there).                          *)
SweepRead(t) ==
    /\ t \in Sweepers /\ Idle(t) /\ ~sweeping[t]
    /\ sweeping' = [sweeping EXCEPT ![t] = TRUE]
    /\ plan' = [plan EXCEPT ![t] =
            {[row |-> r, attempt |-> attempt[r] + 1] : r \in {s \in 1..nRows : Due(s)}}]
    /\ UNCHANGED <<rowVars, running, trying, manual, misused, crashes>>

SweepNext(t) ==
    /\ Idle(t)
    /\ \E p \in plan[t] :
        /\ status[p.row] # "pruned"
        /\ OpenRun(t, p.row, p.attempt)
        /\ plan' = [plan EXCEPT ![t] = @ \ {p}]
    /\ UNCHANGED <<nRows, failures, sweeping, manual, misused, crashes>>

(* Mistake: whatever is finished is pruned. *)
PruneDeadMistake(r) == status[r] \in Terminal /\ age[r] > Retention

(* prune_completed_runs: old rows that succeeded or were skipped. *)
Prunable(r) == status[r] \in {"succeeded", "skipped"} /\ age[r] > Retention

SweepEnd(t) ==
    /\ Idle(t) /\ sweeping[t] /\ plan[t] = {}
    /\ sweeping' = [sweeping EXCEPT ![t] = FALSE]
    /\ status' = [r \in Row |-> IF Prunable(r) THEN "pruned" ELSE status[r]]
    /\ UNCHANGED <<nRows, attempt, age, wait, failures,
                   running, trying, plan, manual, misused, crashes>>

Close(t, s, delay) ==
    /\ ~Idle(t)
    /\ running' = [running EXCEPT ![t] = Nothing]
    /\ status' = [status EXCEPT ![running[t]] = s]
    /\ wait' = [wait EXCEPT ![running[t]] = delay]
    /\ UNCHANGED <<nRows, attempt, age, trying, sweeping, plan, manual, misused, crashes>>

(* _finish: the job returned, or raised JobSkipped. *)
Finish(t) ==
    /\ \E s \in {"succeeded", "skipped"} : Close(t, s, 0)
    /\ UNCHANGED failures

(* Mistake: one attempt too many. *)
OneMoreMistake(t) == trying[t] > MaxAttempts

Exhausted(t) == trying[t] >= MaxAttempts

(* Mistake: a status outside the column's vocabulary. *)
FailedStatusMistake(t) ==
    /\ failures' = [failures EXCEPT ![running[t]] = @ + 1]
    /\ Close(t, "failed", 0)

(* _fail: rescheduled, or dead when the attempts are used up. *)
Fail(t) ==
    /\ ~Idle(t)
    /\ failures' = [failures EXCEPT ![running[t]] = @ + 1]
    /\ \/ Exhausted(t) /\ Close(t, "dead_letter", 0)
       \/ ~Exhausted(t) /\ Close(t, "retry_scheduled", Backoff(trying[t]))

(* The process dies; its threads are gone, and nothing on start looks at the *)
(* rows they were executing.                                                 *)
Crash ==
    /\ crashes < MaxCrashes
    /\ crashes' = crashes + 1
    /\ running' = [t \in Threads |-> Nothing]
    /\ trying' = [t \in Threads |-> 0]
    /\ sweeping' = [t \in Threads |-> FALSE]
    /\ plan' = [t \in Threads |-> {}]
    /\ UNCHANGED <<rowVars, manual, misused>>

Tick ==
    /\ age' = [r \in Row |-> IF age[r] > Retention THEN age[r] ELSE age[r] + 1]
    /\ wait' = [r \in Row |-> IF wait[r] = 0 THEN 0 ELSE wait[r] - 1]
    /\ UNCHANGED <<nRows, status, attempt, failures, threadVars, manual, misused, crashes>>

Thread(t) ==
    \/ StartJob(t)
    \/ \E r \in Row : RetryRun(t, r)
    \/ SweepRead(t)
    \/ SweepNext(t)
    \/ SweepEnd(t)
    \/ Finish(t)
    \/ Fail(t)

Next == (\E t \in Threads : Thread(t)) \/ Crash \/ Tick

Spec == Init /\ [][Next]_vars

(* Jobs end, time passes, and the scheduler sweeps every quarter of an hour. *)
Fairness ==
    /\ WF_vars(Tick)
    /\ \A t \in Threads :
        /\ WF_vars(Finish(t) \/ Fail(t))
        /\ WF_vars(SweepNext(t))
        /\ WF_vars(SweepEnd(t))
        /\ WF_vars(SweepRead(t))

FairSpec == Spec /\ Fairness

-----------------------------------------------------------------------------
(* Types of the rows and of the threads. *)
TypeOK ==
    /\ nRows \in 0..MaxRows
    /\ status \in [Row -> {"none", "running", "retry_scheduled", "pruned"} \cup Terminal]
    /\ attempt \in [Row -> Nat]
    /\ age \in [Row -> Nat]
    /\ wait \in [Row -> Nat]
    /\ failures \in [Row -> Nat]
    /\ running \in [Threads -> Row \cup {Nothing}]
    /\ trying \in [Threads -> Nat]
    /\ sweeping \in [Threads -> BOOLEAN]
    /\ plan \in [Threads -> SUBSET [row : Row, attempt : Nat]]
    /\ manual \in Nat /\ misused \in BOOLEAN /\ crashes \in Nat

(* What the row says was tried is what was tried: a row waiting for its next *)
(* attempt has failed exactly as often as its counter tells, and a dead one  *)
(* exactly max_attempts times since it was opened, across sweeps, crashes    *)
(* and manual retries of dead rows.                                          *)
AttemptsCounted ==
    ~misused => \A r \in Row :
        /\ status[r] = "retry_scheduled" => failures[r] = attempt[r] /\ attempt[r] < MaxAttempts
        /\ status[r] = "dead_letter" => failures[r] = MaxAttempts /\ attempt[r] = MaxAttempts

(* While manual retries are used on dead rows only, as retry_run is meant,   *)
(* no row is executed by two threads: the plan a sweep has read does not go  *)
(* stale, and a dead row has no executor left.                               *)
OneExecutor ==
    ~misused => \A t, u \in Threads : ~Idle(t) /\ running[t] = running[u] => t = u

(* A final failure does not vanish: a dead row stays visible until somebody  *)
(* retries it; neither pruning, a sweep nor a crash removes it.  (A second   *)
(* executor, which only a misused manual retry brings, can overwrite it.)    *)
DeadStaysVisible ==
    [][\A r \in Row : status[r] = "dead_letter" =>
          status'[r] = "dead_letter" \/ manual' > manual \/ misused]_vars

(* No attempt is made before its time: between a failure and the next attempt *)
(* the whole backoff passes.  A manual retry of a row that waits or runs      *)
(* breaks this, also for the sweep that had read the row before.              *)
BackoffKept ==
    [][\A r \in Row : status[r] = "retry_scheduled" /\ status'[r] = "running"
          => age[r] >= Backoff(attempt[r]) \/ misused']_vars

(* A crash has left the row in the middle of an attempt. *)
Orphaned(r) == status[r] = "running" /\ \A t \in Threads : running[t] # r

(* A failed attempt is not the end: a row waiting for its retry is retried   *)
(* until it succeeds, is skipped, or is seen in the dead letter queue, unless *)
(* the process dies in the middle of an attempt.                             *)
RetryConcluded ==
    \A r \in Row : status[r] = "retry_scheduled" ~> status[r] \in Terminal \/ Orphaned(r)

-----------------------------------------------------------------------------
(* "The retry survives a restart."                                           *)
RetrySurvivesRestart ==
    \A r \in Row : status[r] = "retry_scheduled" ~> status[r] \in Terminal
=============================================================================
