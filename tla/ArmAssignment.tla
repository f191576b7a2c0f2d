--------------------------- MODULE ArmAssignment ---------------------------
(***************************************************************************)
(* assign_arms (mktcore/campaigns/assign.py): the split of a       *)
(* campaign's members into a treatment and a control arm, stratum by       *)
(* stratum.  Who falls into the control arm is the order of a hash of      *)
(* campaign and customer; the model leaves that choice open and keeps how  *)
(* many do.                                                                *)
(***************************************************************************)
EXTENDS Integers, FiniteSets

(* max(0, min(100, holdout_pct)) *)
Clamp(pct) == IF pct < 0 THEN 0 ELSE IF pct > 100 THEN 100 ELSE pct

(* -(-a // b): the division rounded up. *)
CeilDiv(a, b) == (a + b - 1) \div b

(* Mistake: rounding up may take the whole stratum. *)
UncappedMistake(n, pct) == CeilDiv(n * Clamp(pct), 100)

(* Mistake: the holdout is rounded down. *)
RoundedDownMistake(n, pct) == (n * Clamp(pct)) \div 100

(* Mistake: a small stratum is thought too small to be split. *)
SmallStratumMistake(n, pct) ==
    LET wanted == CeilDiv(n * Clamp(pct), 100) IN
    IF n < 5 THEN 0 ELSE IF wanted < n THEN wanted ELSE n - 1

(* n_control: a stratum of n members keeps at least one to be treated, and  *)
(* a non-zero holdout leaves at least one of two or more untreated.         *)
NControl(n, pct) ==
    LET wanted == CeilDiv(n * Clamp(pct), 100) IN
    IF n = 0 THEN 0 ELSE IF wanted < n THEN wanted ELSE n - 1

(* The members of one stratum. *)
InStratum(M, stratum, s) == {c \in M : stratum[c] = s}

(* The control arms assign_arms may choose among the members M. *)
ControlArms(M, stratum, pct) ==
    {C \in SUBSET M :
        \A s \in {stratum[c] : c \in M} :
            Cardinality(InStratum(C, stratum, s))
                = NControl(Cardinality(InStratum(M, stratum, s)), pct)}
=============================================================================
