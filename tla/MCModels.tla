------------------------------ MODULE MCModels ------------------------------
(* The trainers on small ledgers, and the registry with any verdicts they may *)
(* record; a behaviour is about the one or the other.                        *)
EXTENDS ModelRegistry, ModelTraining
CONSTANTS ann, bob, cyn
L(c, d, g) == [customer |-> c, day |-> d, good |-> g]
Good(p) == [profit |-> p, price |-> 1, qty |-> 1, ret |-> FALSE]
Bulk == [Good(2) EXCEPT !.price = 5, !.qty = 2]
SomeGoods == {Good(1), Bulk,
  [Good(Unknown) EXCEPT !.qty = Unknown], [Good(1) EXCEPT !.ret = TRUE]}
SomeMetrics == {[brier |-> 1, baselineBrier |-> 2, lower |-> 1, top |-> 3, baselineTop |-> 2, calibrated |-> TRUE, discriminates |-> TRUE],
 [brier |-> 2, baselineBrier |-> 2, lower |-> 1, top |-> 3, baselineTop |-> 2, calibrated |-> TRUE, discriminates |-> TRUE]}
SomeLedgers == {{},
  {L(ann, 0, Good(1)), L(ann, 1, Bulk), L(bob, 0, Good(1)), L(cyn, 2, Good(1)), L(cyn, 4, Good(1))},
  {L(ann, 0, Good(1)), L(ann, 2, Good(1)), L(ann, 4, Good(1)), L(ann, 6, Good(1)), L(bob, 8, [Good(Unknown) EXCEPT !.qty = Unknown])}}

VARIABLE focus

Start ==
    /\ focus \in {"training", "registry"}
    /\ Init
    /\ IF focus = "training" THEN TrainingInit ELSE lines = {} /\ nNew = 0 /\ lastRun = NoRun
    /\ focus = "training" => key = [r \in Run |-> CHOOSE k \in Keys : TRUE]
Step ==
    \/ focus = "training" /\ TrainingNext /\ UNCHANGED <<vars, focus>>
    \/ focus = "registry" /\ Next /\ UNCHANGED <<trainingVars, focus>>
ModelsSpec == Start /\ [][Step]_<<vars, trainingVars, focus>>
=============================================================================
