------------------------- MODULE MCCampaignContact -------------------------
(* Instances of CampaignContact for TLC. *)
EXTENDS CampaignContact, TLC

CONSTANTS ali, sara     \* model values

OneStratum == [c \in Customers |-> "active"]

(* The customers of one stratum are alike. *)
Symmetry == Permutations(Customers)
=============================================================================
