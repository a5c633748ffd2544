---------------------------- MODULE MCPlanStore ----------------------------
(***************************************************************************)
(* PlanStore for two sources of one series, with candidates of two runs.   *)
(***************************************************************************)
EXTENDS PlanStore, TLC

CONSTANTS c1, r1, r2, none

RunOfCandidate == (c1 :> r1 @@ Manual :> none)

(* The identity a document claims is one no accepted candidate gives.      *)
OneSoundOneLegacy ==
  {[source |-> 1, as |-> Manual, edits |-> {}, content |-> "sound", names |-> TRUE],
   [source |-> 2, as |-> Manual, edits |-> {}, content |-> "legacy", names |-> FALSE]}
=============================================================================
