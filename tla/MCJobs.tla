------------------------------- MODULE MCJobs -------------------------------
(***************************************************************************)
(* The ledger of scheduled jobs and the lease of the engine, one at a time *)
(* for TLC: they share no state, so that a run of one of them with the     *)
(* other at rest shows what the whole would.                               *)
(***************************************************************************)
EXTENDS JobLedger, EngineLease

CONSTANTS
    scheduler, request,             \* model values: threads
    night, noon, manually, server   \* model values: runs of the engine, a process

OneProcess == [r \in Runners |-> server]

VARIABLE focus      \* the part that runs

all == <<vars, leaseVars, focus>>

JobsInit == Init /\ LeaseInit /\ focus \in {"ledger", "lease"}

Ledger(A) == focus = "ledger" /\ A /\ UNCHANGED <<leaseVars, focus>>
Leases(A) == focus = "lease" /\ A /\ UNCHANGED <<vars, focus>>

JobsNext == Ledger(Next) \/ Leases(LeaseNext)

(* Fairness and LeaseFairness, each for the part that runs. *)
JobsFairness ==
    /\ WF_all(Ledger(Tick))
    /\ \A t \in Threads :
        /\ WF_all(Ledger(Finish(t) \/ Fail(t)))
        /\ WF_all(Ledger(SweepNext(t)))
        /\ WF_all(Ledger(SweepEnd(t)))
        /\ WF_all(Ledger(SweepRead(t)))
    /\ WF_all(Leases(LeaseTick))

JobsSpec == JobsInit /\ [][JobsNext]_all /\ JobsFairness

(* No row of the ledger has two executors, while manual retries are used as  *)
(* meant (run_job, retry_run), and no two engine runs work within the time of *)
(* their leases (acquire_lease, release_lease).                              *)
OneAtATime == OneExecutor /\ OneWriterInTime

(* A scheduled retry comes to its end (sweep_due_retries), and the lease of  *)
(* the engine becomes free again and again (job_lease).                      *)
NothingIsStuck == RetryConcluded /\ NeverLockedOut
=============================================================================
