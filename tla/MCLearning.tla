------------------------------ MODULE MCLearning -----------------------------
(* Instances of CampaignLearning for TLC.                                    *)
EXTENDS CampaignLearning, ArmAssignment

CONSTANTS ann, bob, cyd, k1, k2, k3, k4, k5, spring, autumn, w1, w2

MCOwner == (k1 :> ann) @@ (k2 :> ann) @@ (k3 :> bob) @@ (k4 :> cyd)

Sale(i, k, d, m) == [id |-> i, key |-> k, day |-> d, money |-> m, costed |-> i # 12, full |-> IF i % 3 = 0 THEN None ELSE i % 2 = 0,
                     ret |-> m < 0]

(* Before the first day the customers have bought on days 1 to 3; k5 belongs to
   nobody.                                                                   *)
Old == {Sale(1, k1, 1, 10), Sale(2, k1, 2, 10), Sale(3, k2, 3, 5), Sale(4, k3, 1, 20), Sale(5, k3, 2, 20),
        Sale(6, k1, 3, 10), Sale(7, k5, 2, 20), Sale(8, k4, 2, 40)}
LifeSales == {Sale(11, k2, 5, 90), Sale(12, k3, 5, 20), Sale(15, k3, 12, 1)}
LearnSales == {Sale(14, k1, 5, 10)}

(* An order entered again with another day, and a return.                    *)
Corrections == {Sale(14, k1, 5, 10), Sale(14, k1, 4, 10), Sale(16, k3, 5, -5)}
MCSales == Old \cup LifeSales \cup LearnSales \cup Corrections

ASSUME InstanceAssumption == LifeSales \subseteq Sales

MCClv(file, k) == IF Cadence(file, k) > 0 THEN Money(file, k) ELSE 0

MCScopes == {Keys, {k3, k4}}

(* The autumn campaign holds nobody back.                                    *)
MCSplit == (spring :> ((ann :> "treatment") @@ (bob :> "control"))) @@ (autumn :> (cyd :> "treatment"))
Offer(c, kind, value) == [customer |-> c, kind |-> kind, value |-> value]
MCOffering == (spring :> <<Offer(ann, "rescue", 5), Offer(ann, "cycle", 7), Offer(bob, "cycle", 3)>>)
           @@ (autumn :> <<Offer(cyd, "cycle", 2), Offer(cyd, "rescue", 2)>>)
MCDiscount == [k \in {spring, autumn} |-> [c \in {ann, bob, cyd} |-> IF c = bob THEN 0 ELSE 500]]

CountsUpTo(n) == {k \in [nt : 0..n, nc : 0..n, ct : 0..n, cc : 0..n] : k.ct <= k.nt /\ k.cc <= k.nc}
Percents == {-5, 0, 1, 5, 8, 9, 10, 15, 20, 25, 33, 34, 49, 50, 51, 66, 75, 90, 91, 92, 99, 100, 101, 250}

(* One instance follows the snapshots, one the learning of two campaigns, one
   the outcomes of a campaign whose orders are corrected and brought back; one
   walks through every group of up to five in an arm, one through every stratum
   of up to twelve.                                                          *)
VARIABLES focus, counts, stratum
mcVars == <<allVars, focus, counts, stratum>>

MCInit ==
    /\ LearningInit
    /\ \/ focus \in {"life", "learn", "correct"} /\ counts = NoCounts /\ stratum = <<0, 0>>
       \/ focus = "readers" /\ counts \in CountsUpTo(5) /\ stratum = <<0, 0>>
       \/ focus = "arms" /\ counts = NoCounts /\ stratum \in (0..12) \X Percents
Life ==
    /\ focus = "life"
    /\ \/ \E s \in LifeSales : Sell(s) /\ UNCHANGED learningVars
       \/ NextDay /\ UNCHANGED learningVars
       \/ \E file \in Exports : file # {} /\ AsOf(file) > 3 /\ Features(file) /\ UNCHANGED learningVars
Learn ==
    /\ focus \in {"learn", "correct"}
    /\ LearningNext
    /\ day' <= 5 /\ \A w \in Workers : day = 4 => worker'[w] = Idle
    /\ \/ /\ focus = "learn" /\ sales' \subseteq Old \cup LearnSales
          /\ \A w \in Workers : worker'[w].file \in {NoFile, sales}
       \/ /\ focus = "correct" /\ sales' \subseteq Old \cup Corrections /\ member'[autumn] = << >>
          /\ \A w \in Workers : worker'[w].file \in {NoFile, worker[w].file} \cup Books /\ worker'[w].at # "save"
MCNext == (Life \/ Learn) /\ UNCHANGED <<focus, counts, stratum>>
MCSpec == MCInit /\ [][MCNext]_mcVars

(* Every reader of the numbers of a group agrees with the others.            *)
ReadersAgreeHere == ReadersAgree(counts)

(* The control arm of a stratum is the smallest that reaches the asked share, and
   if that is everybody, all but one; two or more members and any holdout give
   both arms a member, no holdout gives no control; and one more member adds at
   most one to the control arm.                                              *)
ArmShares ==
    LET n == stratum[1] pct == stratum[2]
        enough == {m \in 0..n : m * 100 >= n * Clamp(pct)} IN
    /\ n > 0 => NControl(n, pct) \in
          {m \in 0..(n - 1) : m \in enough /\ \A l \in enough : m <= l}
          \cup {m \in {n - 1} : \A l \in enough : m < l}
    /\ n >= 2 /\ pct > 0 => NControl(n, pct) \in 1..(n - 1)
    /\ pct <= 0 => NControl(n, pct) = 0
    /\ NControl(n + 1, pct) - NControl(n, pct) \in {0, 1}

(* A campaign of the size the planner asks for, split with the share it was      *)
(* planned with, has members in both arms.                                   *)
PlannedIsSplit ==
    LET n == RequiredTotal(Baseline(counts, counts)) IN NControl(n, Holdout) \in 1..(n - 1)

(* Every reader of a group's counts agrees with the others, and the shares of   *)
(* the arms that produce them are the ones asked for (compute_uplift_table,   *)
(* _verdict, build_plan, assign_arms).                                       *)
CountingSound == ReadersAgreeHere /\ PlannedIsSplit /\ ArmShares

(* What the table answers rests on evidence, and what is saved of it for a day  *)
(* is one table (lookup, save_snapshot).                                     *)
TableSound == EvidenceBehindLookup /\ SavedIsOneTable
=============================================================================
