--------------------------- MODULE ApplyRefinement ---------------------------
(***************************************************************************)
(* The apply engine implements Publication: what its journal and its files *)
(* show of the contract.                                                   *)
(***************************************************************************)
EXTENDS ApplyEngine

Good == [source |-> "planned", library |-> "output", archive |-> "planned"]

Held(i, where) == fs[i][IF where = "library" THEN "dest" ELSE where] = Good[where]

Copies(i) ==
  IF i \in meddled THEN {} ELSE {w \in {"source", "library", "archive"} : Held(i, w)}

Told(i) ==
  IF item[i] \in {"complete", "stale"} THEN item[i]
  ELSE IF item[i] = "recovery_required" THEN "manual" ELSE "open"

Verdict == IF run \in {"complete", "failed"} THEN run ELSE "open"

Contract ==
  INSTANCE Publication WITH
    lifecycle <- policy,
    copies    <- [i \in Items |-> Copies(i)],
    told      <- [i \in Items |-> Told(i)],
    verdict   <- Verdict,
    tampered  <- meddled

(* README, Apply guarantees, as one contract: each item is published,      *)
(* archived and retired in this order, the journal says only what is so,   *)
(* a settled item is never touched again and a closed run never reopened,  *)
(* through any deaths, failures and recoveries.                            *)
ImplementsPublication == Contract!Spec
=============================================================================
