--------------------------- MODULE MCApplyEngine ---------------------------
(***************************************************************************)
(* ApplyEngine on small plans, and what the repository's documentation     *)
(* says of it that the code does not do.  Each claim below is refuted by a *)
(* run of its own.                                                         *)
(***************************************************************************)
EXTENDS ApplyRefinement

(* README, Apply guarantees: a move removes the incoming source only after *)
(* the destination is committed and durable.  So some copy of the work is  *)
(* left after any crash, for an item nobody else touched.                  *)
SomeCopyLeft ==
  \A i \in Items : i \notin meddled =>
    fs[i]["source"] = "planned" \/ fs[i]["dest"] = "output"

(* _proposed_recovery: a STAGED item is retried if the source and          *)
(* destination preconditions still hold, without manual intervention.      *)
StagedNeverManual ==
  [][\A i \in Items :
       item[i] = "staged" /\ SourceOK(i) /\ ~Exists(i, "dest")
         => item'[i] # "recovery_required"]_vars

(* README, Recovery: abandonment is refused for states whose filesystem    *)
(* outcome is uncertain.  So an abandoned run has published no item that   *)
(* its journal does not call complete.                                     *)
AbandonRefusesUncertain ==
  [][op = "none" /\ op' = "abandon" =>
       \A i \in Items : item[i] = "complete" \/ fs[i]["dest"] # "output"]_vars
=============================================================================
