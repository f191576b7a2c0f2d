---------------------------- MODULE MCJobLedger ----------------------------
(* Instances of JobLedger for TLC. *)
EXTENDS JobLedger

CONSTANTS scheduler, request     \* model values
=============================================================================
