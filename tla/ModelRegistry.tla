--------------------------- MODULE ModelRegistry ---------------------------
(***************************************************************************)
(* The registry of trained models (mktcore/ml/registry.py): every training *)
(* run leaves a row, a run changes what customers are scored with only     *)
(* after promotion, and a rollback re-activates an earlier run.            *)
(*                                                                         *)
(* Every operation is one transaction under the process-wide write lock    *)
(* (db/engine.py), hence one action.  A run id is the row's primary key;   *)
(* model_version grows with it inside a key, so ids order versions.        *)
(* 0 stands for NULL in the timestamp and reference columns.               *)
(***************************************************************************)
EXTENDS Naturals, FiniteSets

CONSTANTS
    Keys,       \* the model keys of MODEL_KEYS
    MaxRuns,    \* bound: training runs recorded
    MaxClock    \* bound: promotions and rollbacks performed

ASSUME RegistryAssumption == MaxRuns \in Nat /\ MaxClock \in Nat

VARIABLES
    nRuns,        \* rows recorded so far
    key,          \* model_key of a row
    passed,       \* the verdict of training (blocked_reason_code IS NULL)
    hasModel,     \* coefficients_json IS NOT NULL
    status,       \* ModelRun.STATUS_*
    promoted,     \* the promoted flag
    promotedAt,   \* promoted_at
    rolledBack,   \* rolled_back_at IS NOT NULL
    rollbackOf,   \* rollback_of_run_id
    scoredBy,     \* per key: the run stamped on the customers' scores
    clock         \* now_ts(), strictly increasing between commits

rowVars == <<key, passed, hasModel>>
vars == <<nRuns, key, passed, hasModel, status, promoted, promotedAt,
          rolledBack, rollbackOf, scoredBy, clock>>

Run == 1..MaxRuns
Recorded == 1..nRuns
None == 0

Statuses == {"insufficient_data", "validated", "validated_rejected",
             "promoted", "rolled_back", "superseded"}

SameKey(r) == {s \in Recorded : key[s] = key[r]}

(* Mistake: ordered by promoted_at ascending. *)
OldestMistake(S) == CHOOSE r \in S : \A s \in S : promotedAt[r] <= promotedAt[s]

(* The run of `S` with the largest promoted_at (order by promoted_at desc). *)
LatestPromoted(S) == CHOOSE r \in S : \A s \in S : promotedAt[s] <= promotedAt[r]

(* Mistake: any trained model counts as active. *)
TrainedMistake(k) == {r \in Recorded : key[r] = k /\ hasModel[r]}

(* promoted_run: the active model of a key, or None. *)
PromotedOf(k) == {r \in Recorded : key[r] = k /\ promoted[r]}
PromotedRun(k) ==
    IF PromotedOf(k) = {} THEN None ELSE LatestPromoted(PromotedOf(k))

-----------------------------------------------------------------------------
Init ==
    /\ nRuns = 0
    /\ key \in [Run -> Keys]     \* the key each row will be recorded for
    /\ passed = [r \in Run |-> FALSE]
    /\ hasModel = [r \in Run |-> FALSE]
    /\ status = [r \in Run |-> "insufficient_data"]
    /\ promoted = [r \in Run |-> FALSE]
    /\ promotedAt = [r \in Run |-> None]
    /\ rolledBack = [r \in Run |-> FALSE]
    /\ rollbackOf = [r \in Run |-> None]
    /\ scoredBy = [k \in Keys |-> None]
    /\ clock = 0

(* Mistake: a status outside the column's vocabulary. *)
StatusMistake(verdict) ==
    LET r == nRuns + 1 IN
    /\ nRuns < MaxRuns
    /\ nRuns' = r
    /\ status' = [status EXCEPT ![r] = IF verdict = "validated" THEN "passed" ELSE verdict]
    /\ passed' = [passed EXCEPT ![r] = (verdict = "validated")]
    /\ hasModel' = [hasModel EXCEPT ![r] = (verdict # "insufficient_data")]
    /\ UNCHANGED <<key, promoted, promotedAt, rolledBack, rollbackOf, scoredBy, clock>>

(* A trainer records its run: no model on too little data, otherwise a model *)
(* that beat its baseline or one that did not.                               *)
RecordRun(verdict) ==
    LET r == nRuns + 1 IN
    /\ nRuns < MaxRuns
    /\ nRuns' = r
    /\ status' = [status EXCEPT ![r] = verdict]
    /\ passed' = [passed EXCEPT ![r] = (verdict = "validated")]
    /\ hasModel' = [hasModel EXCEPT ![r] = (verdict # "insufficient_data")]
    /\ UNCHANGED <<key, promoted, promotedAt, rolledBack, rollbackOf, scoredBy, clock>>

(* Mistakes: only the status is asked, or only the coefficients. *)
NoModelMistake(r) == status[r] # "superseded"
AnyModelMistake(r) == hasModel[r]

(* The statuses promote_run accepts. *)
Promotable(r) == status[r] \in {"validated", "rolled_back"} /\ hasModel[r]

(* Mistake: nobody is demoted. *)
NoDemotionMistake(r) == {}

(* _demote_others: every other active run of the key is superseded. *)
Demoted(r) == {s \in SameKey(r) \ {r} : promoted[s]}

PromoteRun(r) ==
    /\ clock < MaxClock
    /\ r \in Recorded
    /\ Promotable(r)
    /\ clock' = clock + 1
    /\ promoted' = [s \in Run |-> IF s = r THEN TRUE
                                  ELSE IF s \in Demoted(r) THEN FALSE ELSE promoted[s]]
    /\ status' = [s \in Run |-> IF s = r THEN "promoted"
                                ELSE IF s \in Demoted(r) THEN "superseded" ELSE status[s]]
    /\ promotedAt' = [promotedAt EXCEPT ![r] = clock']
    /\ UNCHANGED <<nRuns, rowVars, rolledBack, rollbackOf, scoredBy>>

(* The runs rollback_run may return to. *)
Predecessors(r) ==
    {s \in SameKey(r) \ {r} : promotedAt[s] # None /\ hasModel[s]}

(* Mistake: without a predecessor the run is switched off all the same. *)
SwitchOffMistake(r) ==
    /\ clock < MaxClock
    /\ r \in Recorded
    /\ promoted[r]
    /\ clock' = clock + 1
    /\ promoted' = [promoted EXCEPT ![r] = FALSE]
    /\ status' = [status EXCEPT ![r] = "rolled_back"]
    /\ rolledBack' = [rolledBack EXCEPT ![r] = TRUE]
    /\ UNCHANGED <<nRuns, rowVars, promotedAt, rollbackOf, scoredBy>>

(* rollback_run asks nothing of the run it is given but a predecessor. *)
RollbackRun(r) ==
    LET previous == LatestPromoted(Predecessors(r)) IN
    /\ clock < MaxClock
    /\ r \in Recorded
    /\ Predecessors(r) # {}
    /\ clock' = clock + 1
    /\ promoted' = [promoted EXCEPT ![r] = FALSE, ![previous] = TRUE]
    /\ status' = [status EXCEPT ![r] = "rolled_back", ![previous] = "promoted"]
    /\ rolledBack' = [rolledBack EXCEPT ![r] = TRUE]
    /\ promotedAt' = [promotedAt EXCEPT ![previous] = clock']
    /\ rollbackOf' = [rollbackOf EXCEPT ![previous] = r]
    /\ UNCHANGED <<nRuns, rowVars, scoredBy>>

(* write_customer_scores: nothing is written without an active model. *)
WriteCustomerScores(k) ==
    /\ PromotedRun(k) # None
    /\ hasModel[PromotedRun(k)]
    /\ scoredBy' = [scoredBy EXCEPT ![k] = PromotedRun(k)]
    /\ UNCHANGED <<nRuns, rowVars, status, promoted, promotedAt, rolledBack, rollbackOf, clock>>

Next ==
    \/ \E v \in {"insufficient_data", "validated", "validated_rejected"} : RecordRun(v)
    \/ \E r \in Run : PromoteRun(r)
    \/ \E r \in Run : RollbackRun(r)
    \/ \E k \in Keys : WriteCustomerScores(k)

Spec == Init /\ [][Next]_vars

-----------------------------------------------------------------------------
(* Types of the columns. *)
TypeOK ==
    /\ nRuns \in 0..MaxRuns
    /\ key \in [Run -> Keys]
    /\ passed \in [Run -> BOOLEAN]
    /\ hasModel \in [Run -> BOOLEAN]
    /\ status \in [Run -> Statuses]
    /\ promoted \in [Run -> BOOLEAN]
    /\ promotedAt \in [Run -> Nat]
    /\ rolledBack \in [Run -> BOOLEAN]
    /\ rollbackOf \in [Run -> 0..MaxRuns]
    /\ scoredBy \in [Keys -> 0..MaxRuns]
    /\ clock \in Nat

(* Whatever the order of promotions and rollbacks, including rollbacks of    *)
(* runs that are not active, a key never has two active models, so every     *)
(* reader of promoted_run sees the same one.                                 *)
AtMostOneActive ==
    \A r, s \in Run :
        promoted[r] /\ promoted[s] /\ key[r] = key[s] => r = s

(* The active run is the key's most recently promoted one: the fact that     *)
(* lets rollback_run find the active run by promoted_at alone.               *)
ActiveIsLatest ==
    \A r, s \in Run :
        promoted[r] /\ s # r /\ key[r] = key[s] => promotedAt[s] < promotedAt[r]

(* An active row carries the status "promoted" and a model to score with.    *)
ActiveIsUsable ==
    \A r \in Run :
        /\ promoted[r] <=> status[r] = "promoted"
        /\ promoted[r] => hasModel[r] /\ r \in Recorded /\ promotedAt[r] # None

(* Champion and challenger: the scores on the customers come from a run that *)
(* was promoted at some time, never from one that was only trained.          *)
ScoresFromPromoted ==
    \A k \in Keys : scoredBy[k] # None =>
        /\ promotedAt[scoredBy[k]] # None
        /\ key[scoredBy[k]] = k
        /\ hasModel[scoredBy[k]]

(* A run that failed its validation becomes active only after a rollback     *)
(* named it: the rollback route is the one way round the validation gate.    *)
UnvalidatedOnlyViaRollback ==
    \A r \in Run : promoted[r] /\ ~passed[r] => rolledBack[r]

(* What every reader of the registry relies on: the active model of a key is *)
(* one, the latest promoted, usable; nobody is scored by a model that was     *)
(* only trained; none that failed its validation is active but by a rollback. *)
RegistrySound ==
    /\ AtMostOneActive
    /\ ActiveIsLatest
    /\ ActiveIsUsable
    /\ ScoresFromPromoted
    /\ UnvalidatedOnlyViaRollback

(* Once a key has an active model it never loses it: a rollback replaces the *)
(* model, it does not switch scoring off.                                    *)
NeverGoesDark ==
    [][\A k \in Keys : PromotedOf(k) # {} => PromotedOf(k)' # {}]_vars

(* A timestamp is never in the future.                                       *)
ClockBound == \A r \in Run : promotedAt[r] <= clock

(* A row that was ever promoted is recorded and has coefficients; a row not  *)
(* yet recorded is not promoted.                                             *)
PromotedRecorded ==
    \A r \in Run : promotedAt[r] # None => r \in Recorded /\ hasModel[r]

(* What vouches for a run that may become active: its validation, or a       *)
(* rollback that named it.                                                   *)
Vouched ==
    \A r \in Run :
        /\ status[r] = "validated" => passed[r]
        /\ status[r] = "rolled_back" => rolledBack[r]
        /\ promotedAt[r] # None /\ ~passed[r] => rolledBack[r]

(* The inductive invariant behind AtMostOneActive and ScoresFromPromoted.    *)
RegistryInv ==
    /\ TypeOK
    /\ ActiveIsLatest
    /\ ActiveIsUsable
    /\ ScoresFromPromoted
    /\ ClockBound
    /\ PromotedRecorded

=============================================================================
