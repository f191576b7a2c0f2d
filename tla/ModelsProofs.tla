---------------------------- MODULE ModelsProofs ----------------------------
(***************************************************************************)
(* What holds of the model registry for any set of keys, any number of     *)
(* runs and any sequence of promotions and rollbacks, and of the trainers  *)
(* for any ledger, windows and late lines.  RegistryInv is inductive:      *)
(* AtMostOneActive alone is not, because rollback_run finds the run to     *)
(* demote only through the order of promoted_at.                           *)
(***************************************************************************)
EXTENDS MCModels, NatFacts, FiniteSetTheorems, TLAPS

(* The maximum that "order by promoted_at desc limit 1" picks exists for     *)
(* every non-empty set of rows whose timestamps do not exceed the clock.     *)
LEMMA LatestExists ==
    ASSUME NEW S \in SUBSET Run, S # {}, TypeOK, ClockBound
    PROVE  /\ LatestPromoted(S) \in S
           /\ \A s \in S : promotedAt[s] <= promotedAt[LatestPromoted(S)]
<1> DEFINE T == {promotedAt[s] : s \in S}
<1>1. T \in SUBSET Nat /\ T # {} /\ \A t \in T : t <= clock
  BY DEF TypeOK, ClockBound
<1>2. PICK t \in T : \A u \in T : u <= t
  BY <1>1, GreatestExists DEF TypeOK
<1>3. PICK r \in S : t = promotedAt[r]
  BY <1>2
<1> QED
  BY <1>2, <1>3 DEF LatestPromoted

(* Rows are numbered within the bound.                                       *)
LEMMA RecordedRuns == TypeOK => Recorded \subseteq Run
  BY RegistryAssumption DEF TypeOK, Recorded, Run

(* The empty registry satisfies the invariant.                               *)
LEMMA InitRegistryInv == Init => RegistryInv
  BY RegistryAssumption
     DEF Init, RegistryInv, TypeOK, ActiveIsLatest, ActiveIsUsable, ClockBound,
         PromotedRecorded, ScoresFromPromoted, Run, Recorded, Statuses, None

(* Recording a run adds a blank row at the end.                              *)
LEMMA RecordRunInv ==
    ASSUME RegistryInv, NEW v \in {"insufficient_data", "validated", "validated_rejected"},
           RecordRun(v)
    PROVE  RegistryInv'
<1> USE RegistryAssumption DEF RegistryInv
<1> DEFINE r == nRuns + 1
<1>1. r \in Run /\ r \notin Recorded /\ Recorded' = Recorded \cup {r}
  BY DEF RecordRun, TypeOK, Run, Recorded
<1>2. TypeOK'
  BY <1>1 DEF RecordRun, rowVars, TypeOK, Run, Statuses
<1>3. ~promoted[r] /\ promotedAt[r] = None
  BY <1>1 DEF ActiveIsUsable, PromotedRecorded
<1>4. ActiveIsLatest' /\ ClockBound'
  BY DEF RecordRun, rowVars, ActiveIsLatest, ClockBound
<1>5. ActiveIsUsable' /\ PromotedRecorded'
  BY <1>1, <1>3 DEF RecordRun, rowVars, TypeOK, ActiveIsUsable, PromotedRecorded
<1>6. ScoresFromPromoted'
  BY <1>1, <1>3 DEF RecordRun, rowVars, TypeOK, ScoresFromPromoted, PromotedRecorded, Run, None
<1> QED
  BY <1>2, <1>4, <1>5, <1>6

(* Promotion demotes every other active run of the key and takes the newest  *)
(* timestamp.                                                                *)
LEMMA PromoteRunInv ==
    ASSUME RegistryInv, NEW r \in Run, PromoteRun(r)
    PROVE  RegistryInv'
<1> USE RegistryAssumption DEF RegistryInv
<1>1. TypeOK'
  <2>1. promotedAt' \in [Run -> Nat] /\ clock' \in Nat
    BY DEF PromoteRun, TypeOK
  <2>2. promoted' \in [Run -> BOOLEAN]
    BY DEF PromoteRun, TypeOK
  <2>3. status' \in [Run -> Statuses]
    BY DEF PromoteRun, TypeOK, Statuses
  <2> QED
    BY <2>1, <2>2, <2>3 DEF PromoteRun, rowVars, TypeOK
<1>2. ClockBound' /\ promotedAt'[r] = clock + 1 /\ \A s \in Run \ {r} : promotedAt'[s] <= clock
  BY DEF PromoteRun, TypeOK, ClockBound
<1>3. Recorded' = Recorded /\ hasModel' = hasModel /\ key' = key /\ hasModel[r] /\ r \in Recorded
  BY DEF PromoteRun, rowVars, Recorded, Promotable
<1>4. \A s \in Run \ {r} :
        promoted'[s] => promoted[s] /\ key[s] # key[r] /\ promotedAt'[s] = promotedAt[s]
  BY DEF PromoteRun, TypeOK, ActiveIsUsable, Demoted, SameKey
<1>5. ActiveIsLatest'
  BY <1>1, <1>2, <1>3, <1>4 DEF PromoteRun, TypeOK, ActiveIsLatest
<1>6. ActiveIsUsable'
  BY <1>2, <1>3 DEF PromoteRun, TypeOK, ActiveIsUsable, Demoted, None
<1>7. PromotedRecorded' /\ ScoresFromPromoted'
  BY <1>2, <1>3 DEF PromoteRun, TypeOK, PromotedRecorded, ScoresFromPromoted, None, Run
<1> QED
  BY <1>1, <1>2, <1>5, <1>6, <1>7

(* Rollback: the given run is demoted and its latest predecessor activated.  *)
(* When the given run is not active, the active one is that predecessor.     *)
LEMMA RollbackRunInv ==
    ASSUME RegistryInv, NEW r \in Run, RollbackRun(r)
    PROVE  RegistryInv'
<1> USE RegistryAssumption DEF RegistryInv
<1> DEFINE p == LatestPromoted(Predecessors(r))
<1>1. /\ p \in Predecessors(r)
      /\ \A s \in Predecessors(r) : promotedAt[s] <= promotedAt[p]
  <2>1. Predecessors(r) \in SUBSET Run /\ Predecessors(r) # {}
    BY RecordedRuns DEF Predecessors, SameKey, RollbackRun
  <2> QED
    BY <2>1, LatestExists
<1>2. /\ p \in Run /\ p # r /\ key[p] = key[r] /\ p \in Recorded
      /\ hasModel[p] /\ promotedAt[p] # None
  BY <1>1 DEF Predecessors, SameKey, Recorded, Run, TypeOK
<1>3. /\ promoted' = [promoted EXCEPT ![r] = FALSE, ![p] = TRUE]
      /\ status' = [status EXCEPT ![r] = "rolled_back", ![p] = "promoted"]
      /\ promotedAt' = [promotedAt EXCEPT ![p] = clock + 1]
      /\ rolledBack' = [rolledBack EXCEPT ![r] = TRUE]
      /\ rollbackOf' = [rollbackOf EXCEPT ![p] = r]
      /\ clock' = clock + 1
      /\ UNCHANGED <<nRuns, key, passed, hasModel, scoredBy>>
  BY DEF RollbackRun, rowVars
<1> HIDE DEF p
<1>4. TypeOK'
  <2>0. clock + 1 \in Nat /\ r \in 0..MaxRuns
    BY DEF TypeOK, Run
  <2>1. promotedAt' \in [Run -> Nat] /\ clock' \in Nat
    BY <1>3, <2>0 DEF TypeOK
  <2>2. promoted' \in [Run -> BOOLEAN] /\ rolledBack' \in [Run -> BOOLEAN]
    BY <1>3 DEF TypeOK
  <2>3. status' \in [Run -> Statuses]
    BY <1>3 DEF TypeOK, Statuses
  <2>4. rollbackOf' \in [Run -> 0..MaxRuns]
    BY <1>3, <2>0 DEF TypeOK
  <2> QED
    BY <1>3, <2>1, <2>2, <2>3, <2>4 DEF TypeOK
<1>5. \A s \in Run : key[s] = key[r] /\ promoted[s] => s = r \/ s = p
  <2> SUFFICES ASSUME NEW s \in Run, key[s] = key[r], promoted[s], s # r, s # p
               PROVE  FALSE
    OBVIOUS
  <2>1. s \in Predecessors(r)
    BY DEF ActiveIsUsable, Predecessors, SameKey
  <2>2. promotedAt[s] <= promotedAt[p] /\ promotedAt[p] < promotedAt[s]
    BY <1>1, <1>2, <2>1 DEF ActiveIsLatest
  <2> QED
    BY <1>2, <2>2 DEF TypeOK
<1>6. ClockBound'
  BY <1>3 DEF TypeOK, ClockBound
<1>7. \A s \in Run : promoted'[s] => s = p \/ (s # r /\ promoted[s] /\ key[s] # key[r])
  BY <1>3, <1>5 DEF TypeOK
<1>8. ActiveIsLatest'
  BY <1>2, <1>3, <1>7 DEF TypeOK, ActiveIsLatest, ClockBound
<1>9. ActiveIsUsable'
  BY <1>2, <1>3 DEF TypeOK, ActiveIsUsable, Recorded, None
<1>10. PromotedRecorded' /\ ScoresFromPromoted'
  BY <1>2, <1>3 DEF TypeOK, PromotedRecorded, ScoresFromPromoted, Recorded, Run, None
<1> QED
  BY <1>4, <1>6, <1>8, <1>9, <1>10

(* Scoring stamps the active run of the key.                                 *)
LEMMA WriteCustomerScoresInv ==
    ASSUME RegistryInv, NEW k \in Keys, WriteCustomerScores(k)
    PROVE  RegistryInv'
<1> USE RegistryAssumption DEF RegistryInv
<1>1. PromotedRun(k) \in PromotedOf(k)
  <2>1. PromotedOf(k) # {} /\ PromotedOf(k) \in SUBSET Run
    BY RecordedRuns DEF WriteCustomerScores, PromotedRun, PromotedOf
  <2> QED
    BY <2>1, LatestExists DEF PromotedRun
<1>2. /\ PromotedRun(k) \in Run /\ key[PromotedRun(k)] = k
      /\ promotedAt[PromotedRun(k)] # None /\ hasModel[PromotedRun(k)]
  BY <1>1 DEF PromotedOf, ActiveIsUsable, Recorded, Run, TypeOK
<1>3. TypeOK' /\ ScoresFromPromoted'
  BY <1>2 DEF WriteCustomerScores, rowVars, TypeOK, ScoresFromPromoted, Run
<1>4. ActiveIsLatest' /\ ActiveIsUsable' /\ ClockBound' /\ PromotedRecorded'
  BY DEF WriteCustomerScores, rowVars, ActiveIsLatest, ActiveIsUsable, ClockBound,
         PromotedRecorded, Recorded
<1> QED
  BY <1>3, <1>4

(* Each operation of the registry preserves the invariant.                   *)
LEMMA RegistryInvStep == RegistryInv /\ [Next]_vars => RegistryInv'
<1> SUFFICES ASSUME RegistryInv, [Next]_vars PROVE RegistryInv'
  OBVIOUS
<1>1. CASE UNCHANGED vars
  BY <1>1 DEF vars, RegistryInv, TypeOK, ActiveIsLatest, ActiveIsUsable, ScoresFromPromoted,
              ClockBound, PromotedRecorded, Recorded
<1> QED
  BY <1>1, RecordRunInv, PromoteRunInv, RollbackRunInv, WriteCustomerScoresInv DEF Next

(* The inductive invariant holds of every reachable registry: the active     *)
(* row of a key is usable, the newest by promoted_at, and scores follow it.   *)
THEOREM RegistryInvariant == Spec => []RegistryInv
  BY InitRegistryInv, RegistryInvStep, PTL DEF Spec

(* The registry's rows keep their types for every number of runs.            *)
THEOREM TypeCorrect == Spec => []TypeOK
<1>1. RegistryInv => TypeOK
  BY DEF RegistryInv
<1> QED
  BY <1>1, RegistryInvariant, PTL

(* However promotions and rollbacks interleave, a key has at most one active *)
(* model: rollback_run never leaves two rows with promoted = True.           *)
THEOREM SingleActiveModel == Spec => []AtMostOneActive
<1>1. RegistryInv => AtMostOneActive
  <2> SUFFICES ASSUME RegistryInv, NEW r \in Run, NEW s \in Run,
                      promoted[r], promoted[s], key[r] = key[s], r # s
               PROVE  FALSE
    BY DEF AtMostOneActive
  <2>1. promotedAt[s] < promotedAt[r] /\ promotedAt[r] < promotedAt[s]
    BY DEF RegistryInv, ActiveIsLatest
  <2> QED
    BY <2>1 DEF RegistryInv, TypeOK
<1> QED
  BY <1>1, RegistryInvariant, PTL

(* Champion and challenger: customers are scored only by runs that were      *)
(* promoted.                                                                 *)
THEOREM OnlyPromotedRunsScore == Spec => []ScoresFromPromoted
<1>1. RegistryInv => ScoresFromPromoted
  BY DEF RegistryInv
<1> QED
  BY <1>1, RegistryInvariant, PTL

-----------------------------------------------------------------------------
(* Every promotion is vouched for.                                           *)
LEMMA VouchedStep == RegistryInv /\ Vouched /\ [Next]_vars => Vouched'
<1> SUFFICES ASSUME RegistryInv, Vouched, [Next]_vars PROVE Vouched'
  OBVIOUS
<1> USE DEF RegistryInv
<1>1. ASSUME NEW v \in {"insufficient_data", "validated", "validated_rejected"}, RecordRun(v)
      PROVE  Vouched'
  <2>1. nRuns + 1 \in Run /\ nRuns + 1 \notin Recorded
    BY <1>1, RegistryAssumption DEF RecordRun, TypeOK, Run, Recorded
  <2>2. promotedAt[nRuns + 1] = None
    BY <2>1 DEF PromotedRecorded
  <2> QED
    BY <1>1, <2>1, <2>2 DEF RecordRun, TypeOK, Vouched
<1>2. ASSUME NEW r \in Run, PromoteRun(r) PROVE Vouched'
  <2>1. passed[r] \/ rolledBack[r]
    BY <1>2 DEF PromoteRun, Promotable, Vouched
  <2> QED
    BY <1>2, <2>1 DEF PromoteRun, rowVars, TypeOK, Vouched
<1>3. ASSUME NEW r \in Run, RollbackRun(r) PROVE Vouched'
  <2> DEFINE p == LatestPromoted(Predecessors(r))
  <2>1. p \in Predecessors(r)
    <3>1. Predecessors(r) \in SUBSET Run /\ Predecessors(r) # {}
      BY <1>3, RecordedRuns DEF Predecessors, SameKey, RollbackRun
    <3> QED
      BY <3>1, LatestExists
  <2>2. p \in Run /\ p # r /\ promotedAt[p] # None
    BY <2>1, RecordedRuns DEF Predecessors, SameKey
  <2>3. /\ status' = [status EXCEPT ![r] = "rolled_back", ![p] = "promoted"]
        /\ promotedAt' = [promotedAt EXCEPT ![p] = clock + 1]
        /\ rolledBack' = [rolledBack EXCEPT ![r] = TRUE]
        /\ UNCHANGED passed
    BY <1>3 DEF RollbackRun, rowVars
  <2> HIDE DEF p
  <2> QED
    BY <2>2, <2>3 DEF TypeOK, Vouched
<1>4. ASSUME NEW k \in Keys, WriteCustomerScores(k) PROVE Vouched'
  BY <1>4 DEF WriteCustomerScores, rowVars, Vouched
<1>5. CASE UNCHANGED vars
  BY <1>5 DEF vars, Vouched
<1> QED
  BY <1>1, <1>2, <1>3, <1>4, <1>5 DEF Next

(* A run its validation rejected becomes active only after a rollback named  *)
(* it: promote_run has no other way round its check.                         *)
THEOREM GateOrRollback == Spec => []UnvalidatedOnlyViaRollback
<1>1. Init => Vouched
  BY DEF Init, Vouched
<1>2. RegistryInv /\ Vouched => UnvalidatedOnlyViaRollback
  BY DEF RegistryInv, ActiveIsUsable, Vouched, UnvalidatedOnlyViaRollback
<1> QED
  BY <1>1, <1>2, VouchedStep, RegistryInvariant, PTL DEF Spec

(* The whole of what readers of the registry rely on, for any keys, any       *)
(* number of runs and any sequence of promotions and rollbacks.              *)
THEOREM RegistryIsSound == Spec => []RegistrySound
<1>1. RegistryInv => ActiveIsLatest /\ ActiveIsUsable
  BY DEF RegistryInv
<1> QED
  BY <1>1, RegistryInvariant, SingleActiveModel, OnlyPromotedRunsScore, GateOrRollback,
     PTL DEF RegistrySound

(* A key with an active model keeps one: promotion and rollback put another  *)
(* in its place.                                                             *)
THEOREM ScoringStaysOn == Spec => NeverGoesDark
<1>1. ASSUME RegistryInv, [Next]_vars, NEW k \in Keys, PromotedOf(k) # {}
      PROVE  PromotedOf(k)' # {}
  <2> USE <1>1 DEF RegistryInv
  <2>0. PICK a \in Run : a \in Recorded /\ key[a] = k /\ promoted[a]
    BY RecordedRuns DEF PromotedOf
  <2>1. ASSUME NEW v \in {"insufficient_data", "validated", "validated_rejected"}, RecordRun(v)
        PROVE  a \in Recorded' /\ key'[a] = k /\ promoted'[a]
    BY <2>0, <2>1 DEF RecordRun, Recorded, TypeOK
  <2>2. ASSUME NEW r \in Run, PromoteRun(r)
        PROVE  \E b \in Run : b \in Recorded' /\ key'[b] = k /\ promoted'[b]
    <3>1. Recorded' = Recorded /\ key' = key /\ r \in Recorded
      BY <2>2 DEF PromoteRun, rowVars, Recorded
    <3>2. CASE key[r] = k
      BY <2>2, <3>1, <3>2 DEF PromoteRun
    <3>3. CASE key[r] # k
      BY <2>0, <2>2, <3>1, <3>3 DEF PromoteRun, Demoted, SameKey
    <3> QED
      BY <3>2, <3>3
  <2>3. ASSUME NEW r \in Run, RollbackRun(r)
        PROVE  \E b \in Run : b \in Recorded' /\ key'[b] = k /\ promoted'[b]
    <3> DEFINE p == LatestPromoted(Predecessors(r))
    <3>1. p \in Predecessors(r)
      <4>1. Predecessors(r) \in SUBSET Run /\ Predecessors(r) # {}
        BY <2>3, RecordedRuns DEF Predecessors, SameKey, RollbackRun
      <4> QED
        BY <4>1, LatestExists
    <3>2. p \in Run /\ p # r /\ p \in Recorded /\ key[p] = key[r]
      BY <3>1, RecordedRuns DEF Predecessors, SameKey
    <3>3. /\ promoted' = [promoted EXCEPT ![r] = FALSE, ![p] = TRUE]
          /\ Recorded' = Recorded /\ key' = key
      BY <2>3 DEF RollbackRun, rowVars, Recorded
    <3> HIDE DEF p
    <3>4. CASE key[r] = k
      BY <3>2, <3>3, <3>4 DEF TypeOK
    <3>5. CASE key[r] # k
      BY <2>0, <3>2, <3>3, <3>5 DEF TypeOK
    <3> QED
      BY <3>4, <3>5
  <2>4. ASSUME (\E j \in Keys : WriteCustomerScores(j)) \/ UNCHANGED vars
        PROVE  a \in Recorded' /\ key'[a] = k /\ promoted'[a]
    BY <2>0, <2>4 DEF WriteCustomerScores, rowVars, vars, Recorded
  <2>5. \E b \in Run : b \in Recorded' /\ key'[b] = k /\ promoted'[b]
    BY <2>1, <2>2, <2>3, <2>4 DEF Next
  <2> QED
    BY <2>5 DEF PromotedOf
<1>2. RegistryInv /\ [Next]_vars
        => [\A k \in Keys : PromotedOf(k) # {} => PromotedOf(k)' # {}]_vars
  BY <1>1
<1> QED
  BY <1>2, RegistryInvariant, PTL DEF Spec, NeverGoesDark

-----------------------------------------------------------------------------
(* The trainers.                                                             *)

(* Rows a trainer works on: finitely many, each with a day of its own.       *)
TrainingRows(R) ==
    /\ IsFiniteSet(R)
    /\ \A r \in R : r.at \in Nat
    /\ \E b \in Nat : \A r \in R : r.at <= b

(* chronological_cut cuts at the day of a row: by position in the order of   *)
(* days, so that there is always a row on the later side.                    *)
LEMMA CutAtARow ==
    ASSUME NEW R, TrainingRows(R), R # {}
    PROVE  Split(R) \in {r.at : r \in R}
<1> DEFINE n == Cardinality(R)
           D == {r.at : r \in R}
           Before(d) == {r \in R : r.at < d}
           UpTo(d) == {r \in R : r.at <= d}
<1>1. n \in Nat \ {0}
  BY FS_CardinalityType, FS_EmptySet DEF TrainingRows
<1>2. PICK b \in Nat : \A d \in D : d <= b
  BY DEF TrainingRows
<1>3. /\ D \in SUBSET Nat /\ D # {}
      /\ \A r \in R : r.at \in D /\ r.at \in Nat
      /\ \A d \in D : \E r \in R : d = r.at
  BY DEF TrainingRows
<1>4. ASSUME NEW d \in Nat
      PROVE  /\ IsFiniteSet(Before(d)) /\ IsFiniteSet(UpTo(d))
             /\ Cardinality(Before(d)) \in Nat /\ Cardinality(UpTo(d)) \in Nat
  BY FS_Subset, FS_CardinalityType DEF TrainingRows
<1>5. ASSUME NEW i \in 0..(n - 1)
      PROVE  \E d \in D : Cardinality(Before(d)) <= i /\ i < Cardinality(UpTo(d))
  <2> HIDE DEF D
  <2> DEFINE B == {d \in D : Cardinality(Before(d)) <= i}
  <2>1. B # {}
    <3>1. PICK d \in D : \A e \in D : d <= e
      BY <1>3, LeastExists
    <3>2. Before(d) = {}
      BY <1>3, <3>1
    <3>3. Cardinality(Before(d)) = 0
      BY <3>2, FS_EmptySet
    <3> QED
      BY <3>1, <3>3
  <2>2. B \in SUBSET Nat /\ \A d \in B : d <= b
    BY <1>2, <1>3
  <2>3. PICK d \in B : \A e \in B : e <= d
    BY <2>1, <2>2, GreatestExists
  <2>4. ASSUME Cardinality(UpTo(d)) <= i PROVE FALSE
    <3> DEFINE U == {e \in D : d < e}
    <3>1. UpTo(d) # R
      BY <1>1, <2>4
    <3>2. U # {}
      <4>1. PICK r \in R : ~(r.at <= d)
        BY <3>1
      <4> QED
        BY <1>3, <2>2, <4>1
    <3>3. PICK e \in U : \A f \in U : e <= f
      BY <1>3, <3>2, LeastExists
    <3>4. ASSUME NEW r \in R PROVE r.at < e <=> r.at <= d
      <4>1. e \in Nat /\ d \in Nat /\ d < e /\ r.at \in Nat /\ r.at \in D
        BY <1>3, <2>2, <2>3, <3>3
      <4>2. r.at > d => e <= r.at
        BY <3>3, <4>1
      <4> QED
        BY <4>1, <4>2
    <3>5. Before(e) = UpTo(d)
      BY <3>4
    <3>6. e \in D
      BY <3>3
    <3>7. e \in B
      BY <2>4, <3>5, <3>6
    <3> QED
      BY <1>3, <2>2, <2>3, <3>3, <3>7
  <2>5. d \in Nat /\ Cardinality(UpTo(d)) \in Nat
    BY <1>4, <2>2
  <2>6. d \in D /\ Cardinality(Before(d)) <= i
    BY <2>3
  <2>7. i \in Int
    BY <1>1
  <2> HIDE DEF Before, UpTo
  <2>8. i < Cardinality(UpTo(d))
    BY <2>4, <2>5, <2>7
  <2> QED
    BY <2>6, <2>8
<1>6. (n * TrainPercent) \div 100 \in Nat
  BY <1>1, TrainingAssumption
<1> DEFINE index == (n * TrainPercent) \div 100
           i == IF index < n THEN index ELSE n - 1
<1>7. i \in 0..(n - 1)
  BY <1>1, <1>6
<1>8. Split(R) = CHOOSE d \in D : Cardinality(Before(d)) <= i /\ i < Cardinality(UpTo(d))
  BY DEF Split, ChronologicalCut, AtIndex
<1> HIDE DEF i, Before, UpTo
<1>9. \E d \in D : Cardinality(Before(d)) <= i /\ i < Cardinality(UpTo(d))
  BY <1>5, <1>7
<1> QED
  BY <1>8, <1>9

(* The first day of a buyer is one of the days its lines carry.              *)
LEMMA FirstDay ==
    ASSUME NEW H \in SUBSET Line, NEW c \in Buyers(H)
    PROVE  /\ FirstDate(H, c) \in 0..LastDay
           /\ \E l \in Of(H, c) : l.day = FirstDate(H, c)
           /\ \A l \in Of(H, c) : FirstDate(H, c) <= l.day
<1> DEFINE D == Days(Of(H, c))
<1>1. D \in SUBSET Nat /\ D # {} /\ D \subseteq 0..LastDay
  BY TrainingAssumption DEF Days, Of, Buyers, Line
<1>2. \E d \in D : \A e \in D : d <= e
  BY <1>1, LeastExists
<1>3. FirstDate(H, c) \in D /\ \A e \in D : FirstDate(H, c) <= e
  BY <1>2 DEF FirstDate, Min
<1> QED
  BY <1>1, <1>3 DEF Days

(* Customers with a moment each, in any number of the model's days.          *)
LEMMA PairsFinite ==
    ASSUME NEW A \in SUBSET (0..LastDay), NEW P \in SUBSET (Customers \X A)
    PROVE  IsFiniteSet(P) /\ \A p \in P : p[1] \in Customers /\ p[2] \in 0..LastDay
<1>1. IsFiniteSet(0..LastDay) /\ IsFiniteSet(Customers)
  BY FS_Interval, TrainingAssumption
<1>2. IsFiniteSet(A)
  BY <1>1, FS_Subset
<1>3. IsFiniteSet(Customers \X A)
  BY <1>1, <1>2, FS_Product, Zenon
<1>4. IsFiniteSet(P)
  BY <1>3, FS_Subset, Zenon
<1>5. \A p \in Customers \X A : p[1] \in Customers /\ p[2] \in A
  OBVIOUS
<1> QED
  BY <1>4, <1>5

(* The rows of the three trainers are finitely many and carry days. *)
LEMMA RowsOfWhale == ASSUME NEW H \in SUBSET Line PROVE TrainingRows(WhaleRows(H))
<1> DEFINE S == {c \in Mature(H) : OutcomeProfit(H, c, Anchor(H, c)) # Unknown}
           R == WhaleRows(H)
<1>1. IsFiniteSet(S)
  <2>1. S \in SUBSET Customers
    BY DEF Mature, Buyers, Line
  <2> QED
    BY <2>1, FS_Subset, TrainingAssumption
<1>2. PICK label : R = {[customer |-> c, at |-> Anchor(H, c), label |-> label[c]] : c \in S}
  <2> DEFINE profit(c) == OutcomeProfit(H, c, Anchor(H, c))
             profits(G) == [i \in 1..Cardinality(G) |-> profit(SetToSeq(G)[i])]
             f == [c \in S |-> Above(profit(c), profits(Peers(H, S, c)))]
  <2>1. R = {[customer |-> c, at |-> Anchor(H, c), label |-> f[c]] : c \in S}
    BY Zenon DEF WhaleRows
  <2> QED
    BY <2>1
<1> HIDE DEF S
<1> DEFINE f == [c \in S |-> [customer |-> c, at |-> Anchor(H, c), label |-> label[c]]]
<1>3. f \in Surjection(S, R)
  BY <1>2 DEF Surjection
<1>4. IsFiniteSet(R)
  BY <1>1, <1>3, FS_Surjection
<1>5. ASSUME NEW r \in R PROVE r.at \in 0..(LastDay + Observation)
  <2>1. PICK c \in Buyers(H) : r.at = Anchor(H, c)
    BY <1>2 DEF S, Mature
  <2> QED
    BY <2>1, FirstDay, TrainingAssumption DEF Anchor
<1> QED
  BY <1>4, <1>5, TrainingAssumption DEF TrainingRows

(* The snapshots are days of the model. *)
LEMMA RowsOfChurn == ASSUME NEW H \in SUBSET Line PROVE TrainingRows(ChurnRows(H))
<1> DEFINE P == {q \in Customers \X ChurnSnapshots(H) :
                    q[1] \in Featured(KnownBefore(H, q[2]), q[2], FALSE)}
           R == ChurnRows(H)
           f == [p \in P |-> [customer |-> p[1], at |-> p[2], label |-> Churned(H, p[1], p[2])]]
<1>1. ChurnSnapshots(H) \subseteq 0..LastDay
  BY DEF ChurnSnapshots, Snapshots
<1>2. P \in SUBSET (Customers \X ChurnSnapshots(H))
  OBVIOUS
<1>3. IsFiniteSet(P) /\ \A p \in P : p[2] \in 0..LastDay
  BY <1>1, <1>2, PairsFinite
<1>4. R = {[customer |-> p[1], at |-> p[2], label |-> Churned(H, p[1], p[2])] : p \in P}
  BY DEF ChurnRows
<1> HIDE DEF P, R
<1>5. f \in Surjection(P, R)
  BY <1>4 DEF Surjection
<1>6. IsFiniteSet(R)
  BY <1>3, <1>5, FS_Surjection
<1>7. \A r \in R : r.at \in 0..LastDay
  BY <1>3, <1>4
<1>8. TrainingRows(R)
  BY <1>6, <1>7, TrainingAssumption DEF TrainingRows
<1> QED
  BY <1>8 DEF R

(* So are the snapshots of the replenishment claims. *)
LEMMA RowsOfReplenish == ASSUME NEW H \in SUBSET Line PROVE TrainingRows(ReplenishRows(H))
<1> DEFINE P == {q \in Customers \X Snapshots(H, TailDays) : q[1] \in Cadenced(H, q[2])}
           R == PairPeriod(H)
           f == [p \in P |-> ReplenishRow(H, p[1], p[2])]
<1>1. P \in SUBSET (Customers \X Snapshots(H, TailDays)) /\ Snapshots(H, TailDays) \subseteq 0..LastDay
  BY DEF Snapshots
<1>2. IsFiniteSet(P) /\ \A p \in P : p[2] \in 0..LastDay
  BY <1>1, PairsFinite
<1>3. R = {ReplenishRow(H, p[1], p[2]) : p \in P}
  BY DEF PairPeriod
<1> HIDE DEF P, R
<1>4. f \in Surjection(P, R)
  BY <1>3 DEF Surjection
<1>5. IsFiniteSet(R)
  BY <1>2, <1>4, FS_Surjection
<1>6. \A c, a : ReplenishRow(H, c, a).at = a
  BY DEF ReplenishRow
<1>7. \A r \in R : r.at \in 0..LastDay
  BY <1>2, <1>3, <1>6
<1>8. ReplenishRows(H) \subseteq R
  BY DEF ReplenishRows, R
<1>9. IsFiniteSet(ReplenishRows(H))
  BY <1>5, <1>8, FS_Subset
<1> QED
  BY <1>7, <1>8, <1>9, TrainingAssumption DEF TrainingRows

(* The cut is at the day of a row, so somebody is always left to judge by.   *)
LEMMA FittedIsFilled ==
    ASSUME NEW R, TrainingRows(R), NEW k, NEW verdict, TrainArm(R) # {}, Fitted(k, R, verdict)
    PROVE  BothArms'
<1>1. Split(R) \in {r.at : r \in R} /\ Split(R) \in Nat
  BY CutAtARow DEF TrainingRows, TrainArm
<1>2. ValidateArm(R) # {}
  BY <1>1 DEF ValidateArm
<1>3. lastRun'.train = TrainArm(R) /\ lastRun'.validate = ValidateArm(R)
  BY DEF Fitted
<1> QED
  BY <1>2, <1>3 DEF BothArms

(* A training that records no model says nothing of its arms. *)
LEMMA NothingFitted == ASSUME NEW k, Blocked(k) \/ Raised(k) PROVE BothArms'
<1>1. lastRun'.status \in {"none", "insufficient_data"}
  BY DEF Blocked, Raised, NoRun
<1> QED
  BY <1>1 DEF BothArms

(* Every step of a training history fits with both arms or not at all. *)
LEMMA FilledStep ==
    ASSUME lines \in SUBSET Line, BothArms, [TrainingNext]_trainingVars
    PROVE  lines' \in SUBSET Line /\ BothArms'
<1>1. ASSUME NEW l \in Line, NewLine(l) PROVE lines' \in SUBSET Line /\ BothArms'
  BY <1>1 DEF NewLine, BothArms
<1>2. ASSUME NEW m \in Metrics, TrainWhale(m) PROVE BothArms' /\ lines' = lines
  <2> DEFINE R == WhaleRows(lines)
  <2>1. /\ lines' = lines
        /\ \/ Blocked("whale") \/ Raised("whale")
           \/ ~FitRaises(TrainArm(R)) /\ Fitted("whale", R, WhalePassed(m))
    BY <1>2, Zenon DEF TrainWhale
  <2>2. ~FitRaises(TrainArm(R)) => TrainArm(R) # {}
    BY DEF FitRaises
  <2> HIDE DEF R
  <2>3. TrainingRows(R)
    BY RowsOfWhale DEF R
  <2> QED
    BY <2>1, <2>2, <2>3, FittedIsFilled, NothingFitted
<1>3. ASSUME NEW m \in Metrics, TrainChurn(m) PROVE BothArms' /\ lines' = lines
  <2> DEFINE R == ChurnRows(lines)
  <2>1. /\ lines' = lines
        /\ \/ Blocked("churn") \/ Raised("churn")
           \/ TrainArm(R) # {} /\ Fitted("churn", R, ChurnPassed(m))
    BY <1>3, Zenon DEF TrainChurn
  <2> HIDE DEF R
  <2>2. TrainingRows(R)
    BY RowsOfChurn DEF R
  <2> QED
    BY <2>1, <2>2, FittedIsFilled, NothingFitted
<1>4. ASSUME NEW m \in Metrics, TrainReplenish(m) PROVE BothArms' /\ lines' = lines
  <2> DEFINE R == ReplenishRows(lines)
  <2>1. /\ lines' = lines
        /\ \/ Blocked("replenish")
           \/ ReplenishObstacle(lines, R) = "none" /\ Fitted("replenish", R, ReplenishPassed(m))
    BY <1>4, Zenon DEF TrainReplenish
  <2>2. ReplenishObstacle(lines, R) = "none" => TrainArm(R) # {}
    BY DEF ReplenishObstacle
  <2> HIDE DEF R
  <2>3. TrainingRows(R)
    BY RowsOfReplenish DEF R
  <2> QED
    BY <2>1, <2>2, <2>3, FittedIsFilled, NothingFitted
<1>5. CASE UNCHANGED trainingVars
  BY <1>5 DEF trainingVars, BothArms
<1> QED
  BY <1>1, <1>2, <1>3, <1>4, <1>5 DEF TrainingNext

(* Whatever the ledger, the windows, the sizes asked for and the late lines: *)
(* no model is recorded that was fitted on nobody or judged on nobody        *)
(* (train_whale, train_churn, train_replenish, chronological_split).         *)
THEOREM ArmsAreFilled == ModelsSpec => []BothArms
<1> DEFINE Inv == lines \in SUBSET Line /\ BothArms
<1>1. Start => Inv
  BY TrainingAssumption DEF Start, TrainingInit, NoRun, BothArms
<1>2. Inv /\ [Step]_<<vars, trainingVars, focus>> => Inv'
  BY FilledStep DEF Step
<1>3. Inv => BothArms
  OBVIOUS
<1> QED
  BY <1>1, <1>2, <1>3, PTL DEF ModelsSpec

(* The registry is the same beside the trainers: what is proved of it alone  *)
(* holds in the composition.                                                 *)
THEOREM RegistryUndisturbed == ModelsSpec => Spec
<1>1. Start => Init
  BY DEF Start
<1>2. [Step]_<<vars, trainingVars, focus>> => [Next]_vars
  BY DEF Step
<1> QED
  BY <1>1, <1>2, PTL DEF ModelsSpec, Spec

-----------------------------------------------------------------------------
(* What a later line cannot change.                                          *)

(* The last day of a ledger that holds a line. *)
LEMMA LastDayOfData ==
    ASSUME NEW H \in SUBSET Line, H # {}
    PROVE  DataMax(H) \in 0..LastDay /\ \A l \in H : l.day <= DataMax(H)
<1> DEFINE D == Days(H)
<1>1. D \in SUBSET Nat /\ D # {} /\ D \subseteq 0..LastDay /\ LastDay \in Nat
  BY TrainingAssumption DEF Days, Line
<1>2. \E d \in D : \A e \in D : d >= e
  <2> HIDE DEF D
  <2>0. \A d \in D : d <= LastDay
    BY <1>1
  <2>1. PICK d \in D : \A e \in D : e <= d
    BY <1>1, <2>0, GreatestExists
  <2>2. \A e \in D : d >= e
    BY <2>1
  <2> QED
    BY <2>2
<1>3. DataMax(H) \in D /\ \A e \in D : DataMax(H) >= e
  BY <1>2 DEF DataMax, Max
<1> QED
  BY <1>1, <1>3 DEF Days

(* A line of another customer, or of a later day, is not a first one.        *)
LEMMA FirstDayStands ==
    ASSUME NEW H \in SUBSET Line, NEW l \in Line, NEW c \in Buyers(H),
           l.customer # c \/ l.day >= FirstDate(H, c)
    PROVE  Anchor(H \cup {l}, c) = Anchor(H, c)
<1> DEFINE M == H \cup {l}
<1>1. M \in SUBSET Line /\ c \in Buyers(M)
  BY DEF Buyers
<1>2. CASE l.customer # c
  <2>1. Of(M, c) = Of(H, c)
    BY <1>2 DEF Of
  <2> QED
    BY <2>1 DEF Anchor, FirstDate
<1>3. CASE l.day >= FirstDate(H, c)
  <2>1. PICK k \in Of(H, c) : k.day = FirstDate(H, c)
    BY FirstDay
  <2>2. k \in Of(M, c)
    BY DEF Of
  <2>3. PICK j \in Of(M, c) : j.day = FirstDate(M, c)
    BY <1>1, FirstDay
  <2>4. FirstDate(M, c) <= k.day /\ FirstDate(M, c) \in Nat /\ FirstDate(H, c) \in Nat
    BY <1>1, <2>2, FirstDay, TrainingAssumption
  <2>5. FirstDate(H, c) <= j.day
    <3>1. CASE j = l
      BY <1>3, <2>3, <2>4, <3>1
    <3>2. CASE j \in H
      BY <2>3, <3>2, FirstDay DEF Of
    <3> QED
      BY <3>1, <3>2 DEF Of
  <2>6. FirstDate(M, c) = FirstDate(H, c)
    BY <2>1, <2>3, <2>4, <2>5
  <2> QED
    BY <2>6 DEF Anchor
<1> QED
  BY <1>2, <1>3

(* The windows of a customer whose outcome has been seen to its end.         *)
LEMMA MatureDays ==
    ASSUME NEW H \in SUBSET Line, NEW c \in Mature(H)
    PROVE  /\ c \in Buyers(H) /\ H # {}
           /\ FirstDate(H, c) \in Nat /\ Anchor(H, c) \in Nat /\ DataMax(H) \in Nat
           /\ FirstDate(H, c) <= Anchor(H, c) /\ Anchor(H, c) + Outcome <= DataMax(H)
<1>1. c \in Buyers(H) /\ H # {} /\ Anchor(H, c) + Outcome <= DataMax(H)
  BY DEF Mature, Buyers
<1> QED
  BY <1>1, FirstDay, LastDayOfData, TrainingAssumption DEF Anchor

(* Only a line of the customer's own outcome window, or before it, tells     *)
(* something new of the outcome.                                             *)
LEMMA OutcomeStands ==
    ASSUME NEW H \in SUBSET Line, NEW l \in Line, NEW c \in Mature(H),
           l.customer # c \/ l.day >= Anchor(H, c) + Outcome
    PROVE  OutcomeProfit(H, c, Anchor(H, c)) = OutcomeProfit(H \cup {l}, c, Anchor(H \cup {l}, c))
<1> DEFINE M == H \cup {l}
           a == Anchor(H, c)
<1>1. a \in Nat /\ Outcome \in Nat /\ l.day \in Nat
  BY MatureDays, TrainingAssumption DEF Line
<1>2. Anchor(M, c) = a
  <2>1. l.customer # c \/ l.day >= FirstDate(H, c)
    BY <1>1, MatureDays
  <2> QED
    BY <2>1, FirstDayStands, MatureDays
<1> HIDE DEF a
<1>3. l.customer # c \/ ~(l.day < a + Outcome)
  BY <1>1 DEF a
<1>4. {k \in Of(H, c) : k.day >= a /\ k.day < a + Outcome}
        = {k \in Of(M, c) : k.day >= a /\ k.day < a + Outcome}
  BY <1>3 DEF Of
<1>5. OutcomeProfit(H, c, a) = OutcomeProfit(M, c, a)
  BY <1>4 DEF OutcomeProfit
<1> QED
  BY <1>2, <1>5 DEF a

(* The last day of the data never moves back.                                *)
LEMMA DataGrows ==
    ASSUME NEW H \in SUBSET Line, NEW l \in Line, H # {}
    PROVE  DataMax(H) <= DataMax(H \cup {l}) /\ DataMax(H \cup {l}) \in Nat
<1> DEFINE M == H \cup {l}
<1>1. M \in SUBSET Line /\ M # {} /\ LastDay \in Nat
  BY TrainingAssumption
<1>2. DataMax(H) \in Days(H)
  <2>1. Days(H) \in SUBSET Nat /\ Days(H) # {} /\ \A d \in Days(H) : d <= LastDay
    BY TrainingAssumption DEF Days, Line
  <2>2. PICK d \in Days(H) : \A e \in Days(H) : e <= d
    BY <1>1, <2>1, GreatestExists
  <2>3. \A e \in Days(H) : d >= e
    BY <2>2
  <2> QED
    BY <2>3 DEF DataMax, Max
<1>3. PICK k \in H : k.day = DataMax(H)
  BY <1>2 DEF Days
<1>4. DataMax(M) \in Nat /\ k.day <= DataMax(M)
  BY <1>1, LastDayOfData
<1> QED
  BY <1>3, <1>4

(* The features of an observation window are of its own lines, but for the   *)
(* median they are compared with.                                            *)
LEMMA WindowStands ==
    ASSUME NEW H \in SUBSET Line, NEW l \in Line, NEW c \in Mature(H),
           l.customer # c \/ l.day >= Anchor(H, c)
    PROVE  OwnWindow(H, c) = OwnWindow(H \cup {l}, c)
<1> DEFINE M == H \cup {l}
           a == Anchor(H, c)
           own(G) == Of(Frame(G, DataMax(G) + 1, TRUE), c)
<1>1. a \in Nat /\ l.day \in Nat /\ Outcome \in Nat /\ DataMax(H) \in Nat /\ a + Outcome <= DataMax(H)
  BY MatureDays, TrainingAssumption DEF Line
<1>2. Anchor(M, c) = a
  <2>1. l.customer # c \/ l.day >= FirstDate(H, c)
    BY <1>1, MatureDays
  <2> QED
    BY <2>1, FirstDayStands, MatureDays
<1>3. DataMax(M) \in Nat /\ a <= DataMax(M) + 1 /\ a <= DataMax(H) + 1
  <2>1. DataMax(H) <= DataMax(M) /\ DataMax(M) \in Nat
    BY DataGrows, MatureDays
  <2> HIDE DEF a, M
  <2> QED
    BY <1>1, <2>1
<1>4. own(H) = {k \in Of(H, c) : k.day < a}
  BY <1>3 DEF Frame, Of
<1>5. own(M) = {k \in Of(M, c) : k.day < a}
  BY <1>2, <1>3 DEF Frame, Of
<1> HIDE DEF a
<1>6. l.customer # c \/ ~(l.day < a)
  BY <1>1 DEF a
<1>7. {k \in Of(H, c) : k.day < a} = {k \in Of(M, c) : k.day < a}
  BY <1>6 DEF Of
<1>8. own(H) = own(M)
  BY <1>4, <1>5, <1>7
<1>9. OwnWindow(H, c) = OwnFeatures(own(H), a)
  BY DEF OwnWindow, Features, a
<1>10. OwnWindow(M, c) = OwnFeatures(own(M), a)
  BY <1>2 DEF OwnWindow, Features
<1> QED
  BY <1>8, <1>9, <1>10

(* A line that is not in the horizon tells nothing of a customer's silence.  *)
LEMMA SilenceStands ==
    ASSUME NEW H, NEW l, NEW c, NEW a, ~(l.customer = c /\ a <= l.day /\ l.day < a + Horizon),
           l.day \in Nat, a \in Nat
    PROVE  Churned(H \cup {l}, c, a) = Churned(H, c, a)
  BY DEF Churned, Of

(* The horizons of the churn trainer have been seen to their ends.           *)
LEMMA HorizonsSeen ==
    ASSUME NEW H \in SUBSET Line, H # {}, NEW a \in ChurnSnapshots(H)
    PROVE  a \in Nat /\ a + Horizon <= DataMax(H)
<1>1. PICK k \in 0..(MaxSnapshots - 1) : a = DataMax(H) - Horizon - k * Period
  BY DEF ChurnSnapshots, Snapshots
<1>2. DataMax(H) \in Nat /\ Horizon \in Nat /\ a \in Nat /\ k \in Nat /\ Period \in Nat
  BY LastDayOfData, TrainingAssumption DEF ChurnSnapshots, Snapshots
<1>3. k * Period \in Nat
  BY <1>2
<1> QED
  BY <1>1, <1>2, <1>3

(* What the prover cannot find out about recursive sums: the pace of enough  *)
(* gaps is a fraction.                                                       *)
MediansAreNumbers ==
    \A G \in SUBSET Line : Len(Gaps(G)) >= MinGaps => Pace(G) \in [n : Nat, d : Nat \ {0}]

(* What a claim of the replenishment trainer rests on.                       *)
LEMMA ClaimsTyped ==
    ASSUME MediansAreNumbers,
           NEW H \in SUBSET Line, H # {}, NEW a \in Snapshots(H, TailDays), NEW c \in Cadenced(H, a)
    PROVE  /\ Past(H, c, a) \in SUBSET Line /\ DataMax(Past(H, c, a)) \in Nat
           /\ Pace(Past(H, c, a)).n \in Nat /\ Pace(Past(H, c, a)).d \in Nat \ {0}
           /\ a \in Nat /\ a <= DataMax(H) /\ DataMax(H) \in Nat
<1> DEFINE past == Past(H, c, a)
<1>1. past \in SUBSET Line /\ past # {} /\ Len(Gaps(past)) >= MinGaps
  BY DEF Past, Cadenced, Buyers, Of, Purchases, KnownBefore
<1>2. Pace(past) \in [n : Nat, d : Nat \ {0}]
  BY <1>1 DEF MediansAreNumbers
<1>3. DataMax(past) \in Nat
  BY <1>1, LastDayOfData, TrainingAssumption
<1>4. PICK k \in 0..(MaxSnapshots - 1) : a = DataMax(H) - TailDays - k * Period
  BY DEF Snapshots
<1>5. DataMax(H) \in Nat /\ TailDays \in Nat /\ a \in Nat /\ k \in Nat /\ Period \in Nat
  BY LastDayOfData, TrainingAssumption DEF Snapshots
<1>6. k * Period \in Nat
  BY <1>5
<1>7. a <= DataMax(H)
  BY <1>4, <1>5, <1>6
<1> HIDE DEF past
<1> QED
  BY <1>1, <1>2, <1>3, <1>5, <1>7 DEF past

(* A later day is later on the scale of any pace.                            *)
LEMMA ScaleKeepsOrder ==
    ASSUME NEW p, p.d \in Nat \ {0}, NEW x \in Nat, NEW y \in Nat, x < y
    PROVE  OnScale(p, x) < OnScale(p, y) /\ OnScale(p, x) \in Nat /\ OnScale(p, y) \in Nat
<1> DEFINE d == 4 * p.d
<1>1. d \in Nat /\ d > 0
  OBVIOUS
<1>2. OnScale(p, x) = d * x /\ OnScale(p, y) = d * y
  BY DEF OnScale
<1> HIDE DEF d
<1>3. d * x < d * y /\ d * x \in Nat /\ d * y \in Nat
  <2>1. PICK e \in Nat : y = x + e /\ e > 0
    <3>1. y = x + (y - x) /\ y - x \in Nat /\ y - x > 0
      OBVIOUS
    <3> QED
      BY <3>1
  <2>2. d * y = d * x + d * e /\ d * e > 0 /\ d * x \in Nat /\ d * e \in Nat
    BY <1>1, <2>1
  <2> QED
    BY <2>2
<1> QED
  BY <1>2, <1>3

(* Only a line of the customer's own past or of the claimed window tells     *)
(* something new of a claim.                                                 *)
LEMMA VerdictStands ==
    ASSUME MediansAreNumbers,
           NEW H \in SUBSET Line, NEW l \in Line, H # {},
           NEW a \in Snapshots(H, TailDays), NEW c \in Cadenced(H, a),
           l.customer # c \/ (l.day >= a /\ OnScale(Pace(Past(H, c, a)), l.day)
                                > ClaimEnd(DataMax(Past(H, c, a)), Pace(Past(H, c, a))))
    PROVE  ReplenishRow(H \cup {l}, c, a).label = ReplenishRow(H, c, a).label
<1> DEFINE M == H \cup {l}
           past == Past(H, c, a)
           p == Pace(past)
           last == DataMax(past)
<1>1. /\ last \in Nat /\ p.n \in Nat /\ p.d \in Nat \ {0} /\ a \in Nat /\ l.day \in Nat
  BY ClaimsTyped, TrainingAssumption DEF Line
<1>2. Past(M, c, a) = past
  BY <1>1 DEF Past, Of, Purchases, KnownBefore
<1> HIDE DEF past
<1>3. /\ ReplenishRow(H, c, a).label = Hit(H, c, a, last, p)
      /\ ReplenishRow(M, c, a).label = Hit(M, c, a, last, p)
  BY <1>2 DEF ReplenishRow, past
<1> HIDE DEF p, last
<1>4. l.customer # c \/ ~(OnScale(p, l.day) <= ClaimEnd(last, p))
  <2>1. OnScale(p, l.day) \in Nat /\ ClaimEnd(last, p) \in Nat
    BY <1>1 DEF OnScale, ClaimEnd
  <2>2. l.customer # c \/ OnScale(p, l.day) > ClaimEnd(last, p)
    BY DEF p, last, past
  <2> QED
    BY <2>1, <2>2
<1>5. Hit(M, c, a, last, p) = Hit(H, c, a, last, p)
  BY <1>4 DEF Hit, Of, Purchases
<1> QED
  BY <1>3, <1>5

(* The claimed window of a row lies within the data.                         *)
LEMMA ClaimsSeen ==
    ASSUME MediansAreNumbers,
           NEW H \in SUBSET Line, NEW l \in Line, H # {}, l.day > DataMax(H),
           NEW a \in Snapshots(H, TailDays), NEW c \in Cadenced(H, a), ReplenishRow(H, c, a).covered
    PROVE  l.day >= a /\ OnScale(Pace(Past(H, c, a)), l.day)
                            > ClaimEnd(DataMax(Past(H, c, a)), Pace(Past(H, c, a)))
<1> DEFINE past == Past(H, c, a)
           p == Pace(past)
           last == DataMax(past)
<1>1. /\ last \in Nat /\ p.n \in Nat /\ p.d \in Nat \ {0} /\ a \in Nat /\ l.day \in Nat
      /\ DataMax(H) \in Nat /\ a <= DataMax(H)
  BY ClaimsTyped, TrainingAssumption DEF Line
<1>2. ClaimEnd(last, p) <= OnScale(p, DataMax(H))
  BY DEF ReplenishRow, Judged
<1> HIDE DEF p, last, past
<1>3. OnScale(p, DataMax(H)) < OnScale(p, l.day) /\ OnScale(p, DataMax(H)) \in Nat
      /\ OnScale(p, l.day) \in Nat
  BY <1>1, ScaleKeepsOrder
<1>4. ClaimEnd(last, p) \in Nat
  BY <1>1 DEF ClaimEnd, OnScale
<1>5. l.day >= a /\ OnScale(p, l.day) > ClaimEnd(last, p)
  BY <1>1, <1>2, <1>3, <1>4
<1> QED
  BY <1>5 DEF p, last, past

(* A training history only ever adds one line, of the model's days, to a     *)
(* ledger of such lines.                                                     *)
LEMMA OneLineMore ==
    ASSUME lines \in SUBSET Line, [Step]_<<vars, trainingVars, focus>>, NEW l \in lines' \ lines
    PROVE  l \in Line /\ lines' = lines \cup {l}
<1>1. PICK k \in Line : NewLine(k)
  BY DEF Step, TrainingNext, TrainWhale, TrainChurn, TrainReplenish, trainingVars
<1> QED
  BY <1>1 DEF NewLine

(* What a row of the churn trainer says. *)
LEMMA ChurnRowsSaid ==
    ASSUME NEW H, NEW r \in ChurnRows(H)
    PROVE  r.at \in ChurnSnapshots(H) /\ r.label = Churned(H, r.customer, r.at)
<1>1. PICK p \in Customers \X ChurnSnapshots(H) :
          r = [customer |-> p[1], at |-> p[2], label |-> Churned(H, p[1], p[2])]
  BY DEF ChurnRows
<1>2. p[2] \in ChurnSnapshots(H)
  OBVIOUS
<1>3. r.customer = p[1] /\ r.at = p[2] /\ r.label = Churned(H, p[1], p[2])
  BY <1>1
<1> QED
  BY <1>2, <1>3

(* The lines of the ledger are lines of the model. *)
LinesTyped == lines \in SUBSET Line

LEMMA LinesAreLines == ModelsSpec => []LinesTyped
<1> USE DEF LinesTyped
<1>1. Start => LinesTyped
  BY TrainingAssumption DEF Start, TrainingInit
<1>2. LinesTyped /\ [Step]_<<vars, trainingVars, focus>> => LinesTyped'
  BY DEF Step, TrainingNext, NewLine, TrainWhale, TrainChurn, TrainReplenish, trainingVars
<1> QED
  BY <1>1, <1>2, PTL DEF ModelsSpec

(* What a row of the replenishment trainer is about. *)
LEMMA ReplenishRowsSaid ==
    ASSUME NEW H, NEW r \in ReplenishRows(H)
    PROVE  /\ r = ReplenishRow(H, r.customer, r.at) /\ r.covered
           /\ r.at \in Snapshots(H, TailDays) /\ r.customer \in Cadenced(H, r.at)
<1>1. PICK p \in Customers \X Snapshots(H, TailDays) :
          r = ReplenishRow(H, p[1], p[2]) /\ p[1] \in Cadenced(H, p[2]) /\ r.covered
  BY DEF ReplenishRows, PairPeriod
<1>2. p[2] \in Snapshots(H, TailDays) /\ r.customer = p[1] /\ r.at = p[2]
  BY <1>1 DEF ReplenishRow
<1> QED
  BY <1>1, <1>2

(* A line of any day, and what it leaves as it is.                           *)
LEMMA LateStands ==
    ASSUME MediansAreNumbers, NEW H \in SUBSET Line, NEW l \in Line, H # {}
    PROVE  LateLineStands(H, H \cup {l}, l)
<1> DEFINE M == H \cup {l}
<1>1. ASSUME NEW r \in ChurnRows(H),
             ~(l.customer = r.customer /\ r.at <= l.day /\ l.day < r.at + Horizon)
      PROVE  Churned(M, r.customer, r.at) = r.label
  <2>1. r.at \in ChurnSnapshots(H) /\ r.label = Churned(H, r.customer, r.at)
    BY ChurnRowsSaid
  <2>2. r.at \in Nat /\ l.day \in Nat
    BY <2>1, HorizonsSeen, TrainingAssumption DEF Line
  <2> QED
    BY <1>1, <2>1, <2>2, SilenceStands
<1>2. ASSUME NEW r \in ReplenishRows(H),
             LET past == Past(H, r.customer, r.at) p == Pace(past) IN
             l.customer # r.customer \/ (l.day >= r.at /\ OnScale(p, l.day) > ClaimEnd(DataMax(past), p))
      PROVE  ReplenishRow(M, r.customer, r.at).label = r.label
  <2> DEFINE c == r.customer
             a == r.at
  <2>1. /\ r = ReplenishRow(H, c, a)
        /\ a \in Snapshots(H, TailDays) /\ c \in Cadenced(H, a)
    BY ReplenishRowsSaid
  <2>2. l.customer # c \/ (l.day >= a /\ OnScale(Pace(Past(H, c, a)), l.day)
                             > ClaimEnd(DataMax(Past(H, c, a)), Pace(Past(H, c, a))))
    BY <1>2
  <2> HIDE DEF c, a
  <2>3. ReplenishRow(M, c, a).label = ReplenishRow(H, c, a).label
    BY <2>1, <2>2, VerdictStands
  <2> QED
    BY <2>1, <2>3 DEF c, a
<1>3. ASSUME NEW c \in Mature(H)
      PROVE  /\ l.customer # c \/ l.day >= Anchor(H, c) + Outcome =>
                   OutcomeProfit(H, c, Anchor(H, c)) = OutcomeProfit(M, c, Anchor(M, c))
             /\ l.customer # c \/ l.day >= Anchor(H, c) => OwnWindow(H, c) = OwnWindow(M, c)
  BY OutcomeStands, WindowStands
<1> HIDE DEF M
<1>4. LateLineStands(H, M, l)
  BY <1>1, <1>2, <1>3 DEF LateLineStands
<1> QED
  BY <1>4 DEF M

(* A line of a later day leaves everything as it is.                         *)
LEMMA LaterStands ==
    ASSUME MediansAreNumbers, NEW H \in SUBSET Line, NEW l \in Line, H # {}, l.day > DataMax(H)
    PROVE  LaterLineStands(H, H \cup {l})
<1> DEFINE M == H \cup {l}
<1>0. l.day \in Nat /\ DataMax(H) \in Nat /\ Outcome \in Nat /\ Horizon \in Nat
  BY LastDayOfData, TrainingAssumption DEF Line
<1>1. ASSUME NEW r \in ChurnRows(H) PROVE Churned(M, r.customer, r.at) = r.label
  <2>1. r.at \in ChurnSnapshots(H) /\ r.label = Churned(H, r.customer, r.at)
    BY ChurnRowsSaid
  <2>2. r.at \in Nat /\ r.at + Horizon <= DataMax(H)
    BY <2>1, HorizonsSeen
  <2>3. ~(l.day < r.at + Horizon)
    BY <1>0, <2>2
  <2> QED
    BY <1>0, <2>1, <2>2, <2>3, SilenceStands
<1>2. ASSUME NEW r \in ReplenishRows(H)
      PROVE  ReplenishRow(M, r.customer, r.at).label = r.label
  <2> DEFINE c == r.customer
             a == r.at
  <2>1. /\ r = ReplenishRow(H, c, a) /\ r.covered
        /\ a \in Snapshots(H, TailDays) /\ c \in Cadenced(H, a)
    BY ReplenishRowsSaid
  <2> HIDE DEF c, a
  <2>2. l.day >= a /\ OnScale(Pace(Past(H, c, a)), l.day)
                        > ClaimEnd(DataMax(Past(H, c, a)), Pace(Past(H, c, a)))
    BY <2>1, ClaimsSeen
  <2>3. ReplenishRow(M, c, a).label = ReplenishRow(H, c, a).label
    BY <2>1, <2>2, VerdictStands
  <2> QED
    BY <2>1, <2>3 DEF c, a
<1>3. ASSUME NEW c \in Mature(H)
      PROVE  /\ OutcomeProfit(H, c, Anchor(H, c)) = OutcomeProfit(M, c, Anchor(M, c))
             /\ OwnWindow(H, c) = OwnWindow(M, c)
  <2>1. Anchor(H, c) \in Nat /\ Anchor(H, c) + Outcome <= DataMax(H)
    BY MatureDays
  <2>2. l.day >= Anchor(H, c) + Outcome /\ l.day >= Anchor(H, c)
    BY <1>0, <2>1
  <2> QED
    BY <2>2, OutcomeStands, WindowStands
<1> HIDE DEF M
<1>4. LaterLineStands(H, M)
  BY <1>1, <1>2, <1>3 DEF LaterLineStands
<1> QED
  BY <1>4 DEF M

(* For every ledger, every windows and every late line: what a trainer said  *)
(* of a customer is changed by a line of that customer's own window alone,   *)
(* and by no line of a later day, its label had been seen to its end         *)
(* (load_line_frame, mature_anchors, build_pair_period, the snapshots); the  *)
(* features compared with the median of all are left out of the claim.       *)
THEOREM FutureIsUnknown == MediansAreNumbers => (ModelsSpec => NothingFromTheFuture)
<1> SUFFICES ASSUME MediansAreNumbers PROVE ModelsSpec => NothingFromTheFuture
  OBVIOUS
<1>1. ASSUME LinesTyped, [Step]_<<vars, trainingVars, focus>>,
             NEW l \in lines' \ lines, lines # {}
      PROVE  /\ LateLineStands(lines, lines', l)
             /\ l.day > DataMax(lines) => LaterLineStands(lines, lines')
  <2>1. l \in Line /\ lines' = lines \cup {l} /\ lines \in SUBSET Line
    BY <1>1, OneLineMore DEF LinesTyped
  <2> DEFINE H == lines
             M == lines'
  <2>2. H \in SUBSET Line /\ H # {} /\ M = H \cup {l}
    BY <1>1, <2>1
  <2> HIDE DEF H, M
  <2>3. LateLineStands(H, M, l) /\ (l.day > DataMax(H) => LaterLineStands(H, M))
    BY <2>1, <2>2, LateStands, LaterStands
  <2> QED
    BY <2>3 DEF H, M
<1>2. LinesTyped /\ [Step]_<<vars, trainingVars, focus>>
        => [\A l \in lines' \ lines : lines # {} =>
               /\ LateLineStands(lines, lines', l)
               /\ l.day > DataMax(lines) => LaterLineStands(lines, lines')]_lines
  BY <1>1
<1> QED
  BY <1>2, LinesAreLines, PTL DEF ModelsSpec, NothingFromTheFuture

=============================================================================
