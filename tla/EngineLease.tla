---------------------------- MODULE EngineLease ----------------------------
(***************************************************************************)
(* The lease that keeps two runs of the opportunity engine apart           *)
(* (mktcore/db/leases.py, run_opportunity_engine): one row of job_leases   *)
(* per business and day, looked at and then written.                       *)
(*                                                                         *)
(* The row is read and written in one session, but pysqlite opens the      *)
(* transaction at the first write: between the two only write_lock stands, *)
(* which is a lock of one process.  Time is what is left of a lease.       *)
(***************************************************************************)
EXTENDS Naturals, FiniteSets

CONSTANTS
    Runners,            \* threads that run the engine
    Hosts,              \* processes
    HostOf,             \* runner -> its process
    Ttl,                \* DEFAULT_TTL_SECONDS, in ticks
    MaxDeaths           \* bound: deaths of a process

ASSUME LeaseAssumption ==
    /\ HostOf \in [Runners -> Hosts]
    /\ Ttl \in Nat \ {0}
    /\ MaxDeaths \in Nat

NoRunner == "nobody"

ASSUME RunnerAssumption == NoRunner \notin Runners

VARIABLES
    lease,      \* the row: there, its holder, time left, released
    lockOf,     \* process -> the runner inside its write_lock
    stage,      \* runner -> where it is
    saw,        \* runner -> what it read of the row
    mine,       \* runner -> time left of the lease it believes to hold
    deaths

leaseVars == <<lease, lockOf, stage, saw, mine, deaths>>

LeaseInit ==
    /\ lease = [there |-> FALSE, holder |-> NoRunner, left |-> 0, released |-> FALSE]
    /\ lockOf = [h \in Hosts |-> NoRunner]
    /\ stage = [r \in Runners |-> "idle"]
    /\ saw = [r \in Runners |-> "nothing"]
    /\ mine = [r \in Runners |-> 0]
    /\ deaths = 0

(* Mistake: what is not released is held, however long ago it ran out. *)
NeverExpiresMistake(row) == row.there /\ ~row.released

(* JobLease.is_held. *)
IsHeld(row) == row.there /\ ~row.released /\ row.left > 0

EnterLock(r) == lockOf[HostOf[r]] = NoRunner /\ lockOf' = [lockOf EXCEPT ![HostOf[r]] = r]
LeaveLock(r) == lockOf' = [lockOf EXCEPT ![HostOf[r]] = NoRunner]
To(r, s) == stage' = [stage EXCEPT ![r] = s]

(* acquire_lease: the row is read ... *)
LookUp(r) ==
    /\ stage[r] = "idle" /\ EnterLock(r)
    /\ saw' = [saw EXCEPT ![r] = IF IsHeld(lease) THEN "held"
                                 ELSE IF lease.there THEN "free" ELSE "nothing"]
    /\ To(r, "asking")
    /\ UNCHANGED <<lease, mine, deaths>>

(* ... and the run refused, as LeaseBusyError or by the unique constraint, *)
Refused(r) ==
    /\ stage[r] = "asking"
    /\ saw[r] = "held" \/ (saw[r] = "nothing" /\ lease.there)
    /\ LeaveLock(r) /\ To(r, "idle")
    /\ UNCHANGED <<lease, saw, mine, deaths>>

(* or the row inserted or overwritten, whoever holds it by now. *)
TakeLease(r) ==
    /\ stage[r] = "asking"
    /\ saw[r] = "free" \/ (saw[r] = "nothing" /\ ~lease.there)
    /\ lease' = [there |-> TRUE, holder |-> r, left |-> Ttl, released |-> FALSE]
    /\ mine' = [mine EXCEPT ![r] = Ttl]
    /\ LeaveLock(r) /\ To(r, "working")
    /\ UNCHANGED <<saw, deaths>>

(* _run_engine_locked returns or raises. *)
EngineEnds(r) ==
    /\ stage[r] = "working" /\ EnterLock(r)
    /\ saw' = [saw EXCEPT ![r] = IF lease.holder = r THEN "own" ELSE "other"]
    /\ To(r, "releasing")
    /\ UNCHANGED <<lease, mine, deaths>>

(* Mistake: the lease is given back whoever holds it by now. *)
ReleaseAnyMistake(r) == TRUE

MayRelease(r) == saw[r] = "own"

(* release_lease. *)
ReleaseLease(r) ==
    /\ stage[r] = "releasing"
    /\ lease' = IF MayRelease(r) THEN [lease EXCEPT !.released = TRUE] ELSE lease
    /\ mine' = [mine EXCEPT ![r] = 0]
    /\ LeaveLock(r) /\ To(r, "idle")
    /\ UNCHANGED <<saw, deaths>>

LeaseTick ==
    /\ lease.left > 0 \/ \E r \in Runners : mine[r] > 0
    /\ lease' = [lease EXCEPT !.left = IF @ > 0 THEN @ - 1 ELSE 0]
    /\ mine' = [r \in Runners |-> IF mine[r] > 0 THEN mine[r] - 1 ELSE 0]
    /\ UNCHANGED <<lockOf, stage, saw, deaths>>

(* A process dies: the row stays. *)
HostDies(h) ==
    /\ deaths < MaxDeaths
    /\ deaths' = deaths + 1
    /\ lockOf' = [lockOf EXCEPT ![h] = NoRunner]
    /\ stage' = [r \in Runners |-> IF HostOf[r] = h THEN "idle" ELSE stage[r]]
    /\ mine' = [r \in Runners |-> IF HostOf[r] = h THEN 0 ELSE mine[r]]
    /\ UNCHANGED <<lease, saw>>

RunnerStep(r) ==
    \/ LookUp(r) \/ Refused(r) \/ TakeLease(r) \/ EngineEnds(r) \/ ReleaseLease(r)

LeaseNext ==
    \/ \E r \in Runners : RunnerStep(r)
    \/ LeaseTick
    \/ \E h \in Hosts : HostDies(h)

LeaseSpec == LeaseInit /\ [][LeaseNext]_leaseVars

(* Time passes; that a run ever ends is not assumed. *)
LeaseFairness == WF_leaseVars(LeaseTick)

-----------------------------------------------------------------------------
(* Two runs never both work while each is within the time of the lease it    *)
(* was given: not after a takeover, and not when the run that was too slow   *)
(* gives its lease back at last.                                             *)
OneWriterInTime ==
    \A r, q \in Runners : stage[r] = "working" /\ mine[r] > 0
                       /\ stage[q] = "working" /\ mine[q] > 0 => r = q

(* The lease is free again and again: a run that died with it, or never      *)
(* ends, locks the business out for a while and not for ever.                *)
NeverLockedOut == []<>~IsHeld(lease)
=============================================================================
