------------------------------ MODULE Consent ------------------------------
(***************************************************************************)
(* What the opt-out register promises about a person, whatever rows it     *)
(* keeps: who is barred stays barred until contact with him is allowed     *)
(* again by name, and nobody else is freed by that.                        *)
(***************************************************************************)
EXTENDS Naturals

CONSTANT People

VARIABLES
    barred,     \* whom no path may contact
    allowed     \* whose refusal has been taken back since he was last barred

ConsentInit == barred = {} /\ allowed = {}

(* Some are barred: they refused, or turned out to own a phone that did. *)
Bar(S) == S # {} /\ barred' = barred \cup S /\ allowed' = allowed \ S

(* A refusal of these people is taken back; another may still stand. *)
Allow(S) ==
    /\ allowed' = allowed \cup S
    /\ \E freed \in SUBSET S : barred' = barred \ freed

ConsentNext == \E S \in SUBSET People : Bar(S) \/ Allow(S)

ConsentSpec == ConsentInit /\ [][ConsentNext]_<<barred, allowed>>
=============================================================================
