---------------------------- MODULE MCReviewFlow ----------------------------
(***************************************************************************)
(* ReviewFlow for two issues of one series, with candidates of two runs,   *)
(* one of them without its run start year; the first issue is found in     *)
(* both runs, the second in one.                                           *)
(***************************************************************************)
EXTENDS ReviewFlow, TLC

CONSTANTS c1, c2, r1, r2, none

RunOfCandidate == (c1 :> r1 @@ c2 :> r2 @@ Manual :> none)

OffersTwo == (1 :> <<c1, c2>> @@ 2 :> <<c1>>)
=============================================================================
