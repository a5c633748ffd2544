------------------------------ MODULE Matching ------------------------------
(***************************************************************************)
(* The scorer of matching.py: what a provider's candidate is worth for a   *)
(* local item, and which candidate is eligible for acceptance unseen.      *)
(*                                                                         *)
(* A candidate is the record as it compares with the item: instead of two  *)
(* titles, the band their similarity falls in; numbers and years are       *)
(* compared by value, zero standing for None.                              *)
(***************************************************************************)
EXTENDS Integers

CONSTANTS
  EligibleScore,   \* MatchingSettings.eligible_score
  EligibleMargin   \* MatchingSettings.eligible_margin; at zero the order of the
                   \* keys would choose between equal scores, which is left out

ASSUME MatchingAssumption == EligibleScore \in 0..100 /\ EligibleMargin \in 1..100

Kinds == {"issue", "one-shot", "collection", "book"}

(* A comic that is no collected edition.  "issue" stands for the subtypes  *)
(* issue, annual and special, which planning wants a dated run of; a       *)
(* one-shot goes without.                                                  *)
Uncollected(l) == l.kind \in {"issue", "one-shot"}

(* LocalIdentity: "sure" is a classification confidence at its threshold.  *)
LocalIdentity(l) ==
  /\ l.kind \in Kinds /\ l.number \in Nat /\ l.year \in Nat /\ l.sure \in BOOLEAN

Agreements == {"same", "close", "other", "missing"}

(* The bands of the title similarity: equal once normalised, at least .96, *)
(* .82, .65, below, and at most .18.                                       *)
TitleBands == {"exact", "same", "close", "partial", "other", "unlike"}

(* "single" is a book catalogue's record of one comic issue.  "qualifiers" *)
(* counts the item's edition qualifiers by how well the record states them.*)
Candidates(Ids, Shops, Runs) ==
  [id : Ids, shop : Shops,
   record : {"issue", "run", "collection", "edition", "work", "single"},
   title : TitleBands, issueTitle : {"same", "close", "other", "none"},
   creators : {"overlap", "disagree", "none"},
   publisher : {"same", "unsure", "other", "none"},
   qualifiers : [Agreements -> Nat], isbn : {"same", "other", "none"},
   number : Nat, source : {"provider", "provider_title", "none"},
   year : Nat, run : Runs, dated : BOOLEAN]

Number(p) == IF p THEN 1 ELSE 0

(* Each conflict of media kind and record type costs 100.                  *)
TypeClashes(l, c) ==
  LET comic == c.record \in {"issue", "run", "collection"}
  IN Number((l.kind # "book") # comic)
     + Number(l.kind # "book" /\ c.record = "run")
     + Number(l.kind = "collection" /\ c.record = "issue")
     + Number(Uncollected(l) /\ c.record = "collection")

IdentifierWeight(c) ==
  IF c.isbn = "same" THEN 55 ELSE IF c.isbn = "other" THEN -100 ELSE 0

TitleWeight(c) ==
  IF c.title \in {"exact", "same"} THEN 32
  ELSE IF c.title = "close" THEN 22
  ELSE IF c.title = "partial" THEN 8 ELSE -18

IssueTitleWeight(l, c) ==
  IF ~Uncollected(l) \/ c.issueTitle = "none" THEN 0
  ELSE IF c.issueTitle = "same" THEN 12
  ELSE IF c.issueTitle = "close" THEN 6 ELSE -8

CreatorWeight(c) ==
  IF c.creators = "overlap" THEN 18 ELSE IF c.creators = "disagree" THEN -12 ELSE 0

PublisherWeight(l, c) ==
  IF l.kind # "collection" \/ c.publisher \in {"unsure", "none"} THEN 0
  ELSE IF c.publisher = "same" THEN 8 ELSE -20

QualifierWeight(l, c) ==
  IF l.kind # "collection" THEN 0
  ELSE 18 * c.qualifiers["same"] + 10 * c.qualifiers["close"]
       - 30 * c.qualifiers["other"] - 20 * c.qualifiers["missing"]

BothNumbered(l, c) == l.number # 0 /\ c.number # 0

(* A number the adapter copied from the record's title earns nothing.      *)
NumberWeight(l, c) ==
  IF ~BothNumbered(l, c) THEN 0
  ELSE IF l.number # c.number THEN -100
  ELSE IF l.kind = "collection" /\ c.source = "provider_title" THEN 0 ELSE 30

BothDated(l, c) == l.year # 0 /\ c.year # 0

YearWeight(l, c) ==
  LET collected == l.kind = "collection"
  IN IF ~BothDated(l, c) THEN 0
     ELSE IF l.year = c.year THEN (IF collected THEN 20 ELSE 8)
     ELSE IF l.year - c.year \in {-1, 1} THEN (IF collected THEN 2 ELSE 3)
     ELSE (IF collected THEN -35 ELSE -7)

Clamped(x) == IF x < 0 THEN 0 ELSE IF x > 100 THEN 100 ELSE x

RawScore(l, c) ==
  Clamped(40 - 100 * TypeClashes(l, c) + IdentifierWeight(c) + TitleWeight(c)
          + IssueTitleWeight(l, c) + CreatorWeight(c) + PublisherWeight(l, c)
          + QualifierWeight(l, c) + NumberWeight(l, c) + YearWeight(l, c))

HardContradiction(l, c) ==
  \/ TypeClashes(l, c) > 0
  \/ c.isbn = "other"
  \/ BothNumbered(l, c) /\ l.number # c.number

(* title_high asks for a confidence of .82, and the confidence of a title  *)
(* that disagrees is one minus the similarity.                             *)
TitleHigh(c) == c.title \in {"exact", "same", "close", "unlike"}

IdentityFieldsHigh(l, c) ==
  /\ TitleHigh(c)
  /\ l.kind = "book" \/ l.number = 0 \/ l.number = c.number
  /\ l.kind = "collection" =>
       /\ c.publisher # "other"
       /\ c.qualifiers["other"] = 0 /\ c.qualifiers["missing"] = 0
       /\ BothDated(l, c) => l.year = c.year

(* Runs of the item's own series name that hold an issue of its number.    *)
RunsHolding(l, found) ==
  {c.run : c \in {d \in found : /\ d.run # "none" /\ d.number = l.number
                                /\ d.title = "exact"}}

(* Mutant: an item with a year of its own is never ambiguous.              *)
RunAmbiguousUndated(l, found) ==
  /\ l.kind = "issue" /\ l.number # 0 /\ l.year = 0
  /\ \E r, s \in RunsHolding(l, found) : r # s

(* local.run_start_year is None for every item local_identity makes; a     *)
(* one-shot is in no run to be ambiguous about.                            *)
RunAmbiguous(l, found) ==
  /\ l.kind = "issue" /\ l.number # 0
  /\ \E r, s \in RunsHolding(l, found) : r # s

Score(l, c, found) ==
  IF RunAmbiguous(l, found) THEN Clamped(RawScore(l, c) - 15) ELSE RawScore(l, c)

(* candidate_planning_context_ready: a one-shot needs no start year.       *)
ContextReady(l, c) == l.kind = "issue" => c.dated

(* The candidate leads every other one by the margin (and zero, when it is *)
(* alone), nothing contradicts it, and no standing rejection suppresses it.*)
Eligible(l, c, found, rejected) ==
  /\ Score(l, c, found) >= EligibleScore
  /\ Score(l, c, found) >= EligibleMargin
  /\ \A d \in found \ {c} : Score(l, c, found) - Score(l, d, found) >= EligibleMargin
  /\ l.sure
  /\ ~HardContradiction(l, c)
  /\ IdentityFieldsHigh(l, c)
  /\ ~RunAmbiguous(l, found)
  /\ ContextReady(l, c)
  /\ c.id \notin rejected
=============================================================================
