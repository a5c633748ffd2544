------------------------------ MODULE Decisions ------------------------------
(***************************************************************************)
(* What the append-only decision history of one source means: operators of *)
(* kavita_ingest.decisions, resolution and canonical over a history.       *)
(*                                                                         *)
(* A history is the sequence of the rows of table decisions for one source *)
(* fingerprint, in the order of their ids; the position of a row stands    *)
(* for its id, which the code only compares within one source.             *)
(***************************************************************************)
EXTENDS Naturals, Sequences

CONSTANTS
  Candidates,   \* provider records that can be accepted as an identity
  Runs,         \* comic runs a user can select for a series group
  RunOf,        \* the run a candidate says it belongs to, or NoRun
  NoRun,
  Yearless      \* subjects without the run start year a comic issue needs

Manual == "manual"   \* the subject of an identity the user typed
Nobody == "nobody"   \* the subject of a decision about no identity

ASSUME DecisionsAssumption ==
  /\ Candidates \cap {Manual, Nobody} = {}
  /\ NoRun \notin Runs
  /\ RunOf \in [Candidates \cup {Manual} -> Runs \cup {NoRun}]
  /\ RunOf[Manual] = NoRun
  /\ Yearless \subseteq Candidates \cup {Manual}

Subjects == Candidates \cup {Manual}

(* The canonical fields a user may override: one that may be missing and   *)
(* then blocks planning stands for all.                                    *)
Fields == {"run_start_year"}

Authorizing == {"accepted", "work_accepted", "manual_identity"}
Excluding   == {"rejected", "unresolved", "skipped"}
DecisionTypes == Authorizing \cup Excluding \cup {"manual_override"}

(* REVIEW_COMPLETE_DECISION_TYPES: an override alone completes no review.  *)
ReviewComplete == Authorizing \cup Excluding

Reasons == {"explicit", "review_reopened", "run_group_changed"}

Decision(Evidence) ==
  [type : DecisionTypes, subject : Subjects \cup {Nobody}, evidence : Evidence,
   reason : Reasons, sets : SUBSET Fields, clears : SUBSET Fields]

Decide(type, subject, evidence) ==
  [type |-> type, subject |-> subject, evidence |-> evidence,
   reason |-> "explicit", sets |-> {}, clears |-> {}]

Override(evidence, sets, clears) ==
  [Decide("manual_override", Nobody, evidence) EXCEPT !.sets = sets, !.clears = clears]

Reopened(evidence, reason) ==
  [Decide("unresolved", Nobody, evidence) EXCEPT !.reason = reason]

Latest(h) == h[Len(h)]

(* manual_overrides: the fields the last override that mentions them set.  *)
Edits(h) ==
  {f \in Fields :
     \E i \in 1..Len(h) :
        /\ f \in h[i].sets
        /\ \A j \in (i + 1)..Len(h) : f \notin h[j].clears}

Authorizations(h) == {i \in 1..Len(h) : h[i].type \in Authorizing}

(* The newest authorizing decision, whatever came between it and the end.  *)
Authorization(h) ==
  CHOOSE i \in Authorizations(h) : \A j \in Authorizations(h) : j <= i

Identity(h) == [as |-> h[Authorization(h)].subject, edits |-> Edits(h)]

(* CanonicalIdentity.planning_blocks. *)
Unblocked(id) == id.as \in Yearless => "run_start_year" \in id.edits

(* There is a decision and the latest one does not exclude the source. *)
InForce(h) == h # <<>> /\ Latest(h).type \notin Excluding

(* resolve_explicit_identity returns an eligible identity. *)
Resolves(h) ==
  /\ InForce(h)
  /\ Authorizations(h) # {}
  /\ Unblocked(Identity(h))

(* decision_needs_review; baseline is the id a newer decision must follow, *)
(* or 0 when none is required.                                             *)
NeedsReview(h, evidence, baseline) ==
  \/ h = <<>>
  \/ Latest(h).evidence # evidence
  \/ Latest(h).type \notin ReviewComplete
  \/ Latest(h).type = "unresolved" /\ Latest(h).reason # "explicit"
  \/ baseline # 0 /\ Len(h) = baseline

(* rejection_suppresses: the newest decision about this candidate rejects  *)
(* it on the same evidence.                                                *)
Suppressed(h, c, evidence) ==
  \E i \in 1..Len(h) :
     /\ h[i].type = "rejected" /\ h[i].subject = c /\ h[i].evidence = evidence
     /\ \A j \in (i + 1)..Len(h) : h[j].subject # c

(* A selected run and an accepted identity of another run exclude each     *)
(* other; an identity without a run, or no active selection, does not.     *)
RunAgrees(chosen, id) ==
  chosen = NoRun \/ RunOf[id.as] = NoRun \/ RunOf[id.as] = chosen
=============================================================================
