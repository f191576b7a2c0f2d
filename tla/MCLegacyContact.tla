-------------------------- MODULE MCLegacyContact --------------------------
(* Instances of LegacyContact for TLC. *)
EXTENDS LegacyContact, TLC

CONSTANTS ali, sara, daily, catchup, bulk     \* model values

OneStratum == [c \in Customers |-> "active"]
Symmetry == Permutations(Customers)
=============================================================================
