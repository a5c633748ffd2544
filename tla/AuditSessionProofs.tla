------------------------- MODULE AuditSessionProofs -------------------------
(***************************************************************************)
(* What holds of an audit over any batch of items, any catalogue of Comic  *)
(* Vine and of the shops, any selections, and whatever the providers       *)
(* answer: the variables keep their types; a candidate that may be         *)
(* accepted unseen is right, at any threshold above 90; a series keeps the *)
(* run it was resolved to, which bears its name or was chosen for it; a    *)
(* user's choice decides; and an item stays without candidates only after  *)
(* every provider was asked to the last query or is noted as failing.      *)
(***************************************************************************)
EXTENDS AuditSession, FiniteSetTheorems, TLAPS

(* The fields of a candidate have their bands. *)
LEMMA RecordFields ==
  ASSUME NEW c \in Records
  PROVE  /\ c.title \in TitleBands
         /\ c.record \in {"issue", "run", "collection", "edition", "work", "single"}
         /\ c.issueTitle \in {"same", "close", "other", "none"}
         /\ c.creators \in {"overlap", "disagree", "none"}
         /\ c.publisher \in {"same", "unsure", "other", "none"}
         /\ c.isbn \in {"same", "other", "none"}
         /\ c.source \in {"provider", "provider_title", "none"}
         /\ c.number \in Nat /\ c.year \in Nat /\ c.dated \in BOOLEAN
         /\ c.qualifiers["same"] \in Nat /\ c.qualifiers["close"] \in Nat
         /\ c.qualifiers["other"] \in Nat /\ c.qualifiers["missing"] \in Nat
BY DEF Records, Candidates, Agreements

(* What an eligible candidate has besides its score. *)
LEMMA EligibleMeans ==
  ASSUME NEW i \in Items, NEW c \in Records, NEW cands, NEW rejected,
         Eligible(i, c, cands, rejected)
  PROVE  /\ RawScore(i, c) >= EligibleScore
         /\ ~HardContradiction(i, c) /\ IdentityFieldsHigh(i, c)
         /\ ~RunAmbiguous(i, cands) /\ ContextReady(i, c)
BY DEF Eligible, Score

(* Without a contradiction the record is of the item's own kind. *)
LEMMA OfItsKind ==
  ASSUME NEW i \in Items, NEW c \in Records, ~HardContradiction(i, c)
  PROVE  /\ TypeClashes(i, c) = 0 /\ c.isbn # "other"
         /\ Uncollected(i) => c.record = "issue"
         /\ BothNumbered(i, c) => i.number = c.number
BY RecordFields
DEF HardContradiction, TypeClashes, Number, Items, Kinds, Uncollected

(* The score is the clamped sum, so one at a threshold above zero is       *)
(* reached by the sum itself.                                              *)
Sum(l, c) ==
  40 - 100 * TypeClashes(l, c) + IdentifierWeight(c) + TitleWeight(c)
     + IssueTitleWeight(l, c) + CreatorWeight(c) + PublisherWeight(l, c)
     + QualifierWeight(l, c) + NumberWeight(l, c) + YearWeight(l, c)

LEMMA Weights ==
  ASSUME NEW i \in Items, NEW c \in Records, TypeClashes(i, c) = 0
  PROVE  /\ IdentifierWeight(c) \in Int /\ (c.isbn = "none" => IdentifierWeight(c) = 0)
         /\ TitleWeight(c) \in Int /\ (c.title = "unlike" => TitleWeight(c) = -18)
         /\ IssueTitleWeight(i, c) \in Int /\ IssueTitleWeight(i, c) <= 12
         /\ ~Uncollected(i) => IssueTitleWeight(i, c) = 0
         /\ CreatorWeight(c) \in Int /\ CreatorWeight(c) <= 18
         /\ PublisherWeight(i, c) \in Int /\ PublisherWeight(i, c) <= 8
         /\ i.kind # "collection" => PublisherWeight(i, c) = 0
         /\ NumberWeight(i, c) \in Int /\ NumberWeight(i, c) <= 30
         /\ YearWeight(i, c) \in Int /\ YearWeight(i, c) <= 20
         /\ i.kind # "collection" => YearWeight(i, c) <= 8
<1>1. /\ IdentifierWeight(c) \in Int /\ (c.isbn = "none" => IdentifierWeight(c) = 0)
      /\ TitleWeight(c) \in Int /\ (c.title = "unlike" => TitleWeight(c) = -18)
      /\ CreatorWeight(c) \in Int /\ CreatorWeight(c) <= 18
  BY RecordFields DEF IdentifierWeight, TitleWeight, CreatorWeight
<1>2. /\ IssueTitleWeight(i, c) \in Int /\ IssueTitleWeight(i, c) <= 12
      /\ ~Uncollected(i) => IssueTitleWeight(i, c) = 0
      /\ PublisherWeight(i, c) \in Int /\ PublisherWeight(i, c) <= 8
      /\ i.kind # "collection" => PublisherWeight(i, c) = 0
  BY RecordFields DEF IssueTitleWeight, PublisherWeight
<1>3. NumberWeight(i, c) \in Int /\ NumberWeight(i, c) <= 30
  BY DEF NumberWeight
<1>4. /\ YearWeight(i, c) \in Int /\ YearWeight(i, c) <= 20
      /\ i.kind # "collection" => YearWeight(i, c) <= 8
  BY DEF YearWeight
<1> QED  BY <1>1, <1>2, <1>3, <1>4

LEMMA QualifierSum ==
  ASSUME NEW i \in Items, NEW c \in Records
  PROVE  /\ QualifierWeight(i, c) \in Int
         /\ i.kind # "collection" => QualifierWeight(i, c) = 0
         /\ c.qualifiers["same"] + c.qualifiers["close"] <= 1 => QualifierWeight(i, c) <= 18
BY RecordFields DEF QualifierWeight

(* A score above 90 is not reached by a title that is nothing like the     *)
(* item's, although title_high counts it as high, unless an ISBN agrees, a *)
(* collection's record states its number or two edition qualifiers agree.  *)
LEMMA TitleIsNeeded ==
  ASSUME NEW i \in Items, NEW c \in Records, RawScore(i, c) >= 91,
         TypeClashes(i, c) = 0, c.isbn # "other", TitleHigh(c), ~Named(c)
  PROVE  /\ i.kind = "collection"
         /\ \/ c.number # 0 /\ c.source # "provider_title"
            \/ c.qualifiers["same"] + c.qualifiers["close"] > 1
<1>1. c.title = "unlike" /\ c.isbn = "none"
  BY RecordFields DEF TitleHigh, Named
<1> DEFINE s == Sum(i, c)
<1>2. s \in Int
  BY Weights, QualifierSum DEF Sum
<1>3. s >= 91
  BY <1>2 DEF RawScore, Clamped, Sum
<1>4. s = 22 + IssueTitleWeight(i, c) + CreatorWeight(c) + PublisherWeight(i, c)
          + QualifierWeight(i, c) + NumberWeight(i, c) + YearWeight(i, c)
  BY <1>1, Weights, QualifierSum DEF Sum
<1>5. i.kind = "collection"
  BY <1>3, <1>4, Weights, QualifierSum
<1>6. CASE c.number # 0 /\ c.source # "provider_title"
  BY <1>5, <1>6
<1>7. CASE ~(c.number # 0 /\ c.source # "provider_title")
  <2>1. NumberWeight(i, c) <= 0
    BY <1>5, <1>7, RecordFields DEF NumberWeight, BothNumbered, Items
  <2>2. ~(c.qualifiers["same"] + c.qualifiers["close"] <= 1)
    BY <1>3, <1>4, <1>5, <2>1, Weights, QualifierSum DEF Uncollected
  <2> QED  BY <1>5, <2>2, RecordFields
<1> QED  BY <1>6, <1>7

(* What EligibleIsRight says of one candidate, for any candidates beside   *)
(* it.                                                                     *)
LEMMA EligibleRecord ==
  ASSUME EligibleScore >= 91, NEW i \in Items, NEW c \in Records, c \in found, NEW rejected,
         Eligible(i, c, found, rejected)
  PROVE  /\ Uncollected(i) => RightIssue(i, c)
         /\ i.kind = "book" => Named(c)
         /\ i.kind = "collection" => RightCollection(i, c)
<1>1. /\ RawScore(i, c) >= EligibleScore
      /\ ~HardContradiction(i, c) /\ IdentityFieldsHigh(i, c)
      /\ ~RunAmbiguous(i, found) /\ ContextReady(i, c)
  BY EligibleMeans
<1>2. TypeClashes(i, c) = 0 /\ c.isbn # "other" /\ (Uncollected(i) => c.record = "issue")
  BY <1>1, OfItsKind
<1>3. RawScore(i, c) >= 91
  <2>1. RawScore(i, c) \in Int
    <3>1. Sum(i, c) \in Int
      BY <1>2, Weights, QualifierSum DEF Sum
    <3> QED  BY <3>1 DEF RawScore, Clamped, Sum
  <2>2. EligibleScore \in Int
    BY MatchingAssumption
  <2> QED  BY <1>1, <2>1, <2>2
<1>4. TitleHigh(c)
  BY <1>1 DEF IdentityFieldsHigh
<1>5. ASSUME Uncollected(i) PROVE RightIssue(i, c)
  <2>1. Named(c)
    BY <1>2, <1>3, <1>4, <1>5, TitleIsNeeded DEF Uncollected
  <2>2. c.record = "issue" /\ (i.kind = "issue" => c.dated)
    BY <1>1, <1>2, <1>5 DEF ContextReady
  <2>3. ASSUME i.number # 0 PROVE c.number = i.number
    BY <1>1, <1>5, <2>3 DEF IdentityFieldsHigh, Uncollected
  <2>4. ASSUME i.kind = "issue", i.number # 0, c.title = "exact", NEW d \in found,
               d.title = "exact", d.number = i.number,
               {c.run, d.run} \subseteq Runs, c.run # d.run
        PROVE  FALSE
    <3>1. c.run # "none" /\ d.run # "none"
      BY <2>4, AuditAssumption DEF AuditAssumption
    <3>2. {c.run, d.run} \subseteq RunsHolding(i, found)
      BY <2>3, <2>4, <3>1 DEF RunsHolding
    <3> QED  BY <1>1, <1>5, <2>4, <3>2 DEF RunAmbiguous
  <2> QED  BY <2>1, <2>2, <2>3, <2>4 DEF RightIssue
<1>6. ASSUME i.kind = "book" PROVE Named(c)
  BY <1>2, <1>3, <1>4, <1>6, TitleIsNeeded
<1>7. ASSUME i.kind = "collection" PROVE RightCollection(i, c)
  <2>1. \/ Named(c)
        \/ c.number # 0 /\ c.source # "provider_title"
        \/ c.qualifiers["same"] + c.qualifiers["close"] > 1
    BY <1>2, <1>3, <1>4, <1>7, TitleIsNeeded
  <2> QED  BY <1>1, <1>7, <2>1 DEF IdentityFieldsHigh, RightCollection
<1> QED  BY <1>5, <1>6, <1>7
-----------------------------------------------------------------------------
(* The item at hand, when there is one. *)
LEMMA ItemType ==
  ASSUME TypeOK, at <= Len(batch)
  PROVE  item \in Items
<1>1. batch \in Seq(Items) /\ at \in 1..Len(batch)
  BY AuditAssumption DEF AuditAssumption, TypeOK
<1> QED  BY <1>1 DEF item

(* An issue of Comic Vine is a record of its run. *)
LEMMA IssueType ==
  ASSUME NEW i \in Items, NEW r \in Runs, NEW n \in Numbers, NEW S
  PROVE  Issue(i, r, n, r \in S) \in Records /\ Issue(i, r, n, r \in S).run = r
<1>1. /\ IssueOf[r][n].id \in Ids /\ IssueOf[r][n].year \in Nat
      /\ Likeness[i.key][NameOf[r]] \in TitleBands
      /\ n \in Nat
  <2>1. IssueOf[r] \in [Numbers -> [id : Ids, year : Nat]]
    BY AuditAssumption DEF AuditAssumption
  <2>2. IssueOf[r][n] \in [id : Ids, year : Nat]
    BY <2>1
  <2>3. i.key \in Keys
    BY DEF Items
  <2>4. Likeness[i.key] \in [{NameOf[q] : q \in Runs} -> TitleBands]
    BY <2>3, AuditAssumption DEF AuditAssumption
  <2>5. n \in Nat
    BY AuditAssumption DEF AuditAssumption
  <2> QED  BY <2>2, <2>4, <2>5
<1>2. NoQualifiers \in [Agreements -> Nat]
  BY DEF NoQualifiers
<1>3. "comic_vine" \in Providers
  BY DEF Providers
<1> QED  BY <1>1, <1>2, <1>3 DEF Issue, Records, Candidates

(* A volume is a record too, though of nothing an item could be. *)
LEMMA VolumeType ==
  ASSUME NEW i \in Items, NEW r \in Runs
  PROVE  Volume(i, r) \in Records /\ Volume(i, r).run = r
<1>1. Likeness[i.key][NameOf[r]] \in TitleBands
  <2>1. i.key \in Keys
    BY DEF Items
  <2>2. Likeness[i.key] \in [{NameOf[q] : q \in Runs} -> TitleBands]
    BY <2>1, AuditAssumption DEF AuditAssumption
  <2> QED  BY <2>2
<1>2. NoQualifiers \in [Agreements -> Nat] /\ r \in Ids /\ (r \in DatedRuns) \in BOOLEAN
  BY DEF NoQualifiers, Ids
<1>3. "comic_vine" \in Providers
  BY DEF Providers
<1> QED  BY <1>1, <1>2, <1>3 DEF Volume, Records, Candidates

(* What Comic Vine answers, of a run or to a search. *)
LEMMA AnswerType ==
  ASSUME catalogue \in Catalogues, NEW i \in Items
  PROVE  /\ \A S : \A c \in IssuesIn(i, S) : c \in Records /\ c.run \in Runs
         /\ \A A \in SearchAnswers(i) : \A c \in A : c \in Records /\ c.run \in Runs
<1>1. catalogue \subseteq Runs \X Numbers
  BY AuditAssumption DEF AuditAssumption
<1>2. ASSUME NEW S, NEW c \in IssuesIn(i, S) PROVE c \in Records /\ c.run \in Runs
  <2>1. PICK r \in S : <<r, i.number>> \in catalogue /\ c = Issue(i, r, i.number, r \in DatedRuns)
    BY <1>2 DEF IssuesIn
  <2>2. r \in Runs /\ i.number \in Numbers
    BY <1>1, <2>1
  <2> QED  BY <2>1, <2>2, IssueType
<1>3. ASSUME NEW A \in SearchAnswers(i), NEW c \in A PROVE c \in Records /\ c.run \in Runs
  <2>1. PICK issues \in {s \in SUBSET catalogue : Cardinality(s) <= MaxHits},
             dated \in {{}, DatedRuns},
             listed \in {s \in SUBSET Runs : Cardinality(s) <= 1} :
          A = {Issue(i, p[1], p[2], p[1] \in dated) : p \in issues}
                \cup {Volume(i, q) : q \in listed}
    BY <1>3, SMT DEF SearchAnswers
  <2>2. CASE c \in {Volume(i, q) : q \in listed}
    BY <2>1, <2>2, VolumeType
  <2>3. CASE c \in {Issue(i, p[1], p[2], p[1] \in dated) : p \in issues}
    <3>1. PICK p \in issues : c = Issue(i, p[1], p[2], p[1] \in dated)
      BY <2>3
    <3>2. p[1] \in Runs /\ p[2] \in Numbers
      BY <1>1, <2>1, <3>1
    <3> QED  BY <3>1, <3>2, IssueType
  <2> QED  BY <1>3, <2>1, <2>2, <2>3
<1> QED  BY <1>2, <1>3

(* Only issues of a run are answered, so nothing is filtered away. *)
LEMMA AllIssues ==
  ASSUME NEW i, NEW S
  PROVE  Identities(IssuesIn(i, S)) = IssuesIn(i, S)
<1>1. ASSUME NEW c \in IssuesIn(i, S) PROVE c.record = "issue"
  <2>1. PICK r \in S : c = Issue(i, r, i.number, r \in DatedRuns)
    BY <1>1 DEF IssuesIn
  <2> QED  BY <2>1 DEF Issue
<1> QED  BY <1>1 DEF Identities

Resolutions == [Keys -> Runs \cup {"unasked", "ambiguous"}]

(* The session's memory maps keys to runs, whatever is stored in it. *)
LEMMA MemoryType ==
  ASSUME NEW map \in Resolutions, NEW key
  PROVE  /\ \A r \in Runs : Stored(map, key, r) \in Resolutions
         /\ StoredNone(map, key) \in Resolutions
BY DEF Resolutions, Stored, StoredNone

LEMMA RememberedType ==
  ASSUME NEW map \in Resolutions, NEW cands, \A c \in cands : c.run \in Runs
  PROVE  Remembered(map, cands) \in Resolutions
<1> DEFINE named(k) == {c.run : c \in {d \in cands : d.dated /\ NameOf[d.run] = k}}
<1>1. ASSUME NEW k \in Keys, Cardinality(named(k)) = 1
      PROVE  (CHOOSE r \in named(k) : TRUE) \in Runs
  <2>1. named(k) # {}
    <3>1. \A S : Cardinality(S) = 1 => S # {}
      BY FS_EmptySet
    <3> QED  BY <1>1, <3>1
  <2> QED  BY <2>1
<1> QED  BY <1>1 DEF Remembered, Resolutions

(* What a shop offers, adapted or not, is a record. *)
LEMMA OfferType ==
  ASSUME TypeOK, NEW i \in Items
  PROVE  /\ Seller \in Providers
         /\ \A cands \in Offered(i) : cands \subseteq Records
<1>1. Seller \in Providers
  <2>1. Shops \in Seq(Range(Shops))
    BY AuditAssumption DEF AuditAssumption
  <2> QED  BY <2>1 DEF TypeOK, Seller, Providers, Range
<1>2. Shelf[i.id] \subseteq Records
  BY AuditAssumption DEF AuditAssumption, Items
<1>3. ASSUME NEW c \in Records PROVE Adapted(i, c) \in Records
  BY <1>3 DEF Adapted, Records, Candidates
<1>4. ASSUME NEW cands \in Offered(i) PROVE cands \subseteq Records
  BY <1>2, <1>3, <1>4 DEF Offered
<1> QED  BY <1>1, <1>4
-----------------------------------------------------------------------------
(* TypeOK in parts, as the steps disturb them. *)
WorldType == batch \in Batches /\ catalogue \in Catalogues /\ selection \in Selections

Phases == Asking \cup Shopping \cup {"seed", "open", "scored", "done"}

PlaceType ==
  /\ at \in 1..(Len(batch) + 1) /\ (phase # "seed" => at <= Len(batch))
  /\ phase \in Phases

LadderType == shop \in 1..Len(Shops) /\ variant \in 1..(Variants + 1)

ProbeType ==
  /\ probes \in 0..MaxProbes
  /\ todo \subseteq Runs /\ hits \subseteq Runs /\ longest \subseteq Runs

AnswersType ==
  /\ found \subseteq Records /\ heard \subseteq Providers /\ refused \subseteq Providers
  /\ attempts \subseteq Providers \X Strategies \X Outcomes

LEMMA TypeParts ==
  TypeOK <=> /\ WorldType /\ resolved \in Resolutions /\ PlaceType
             /\ LadderType /\ ProbeType /\ AnswersType
BY DEF TypeOK, WorldType, Resolutions, PlaceType, Phases, LadderType, ProbeType, AnswersType

LEMMA TypePartsAfter ==
  ASSUME WorldType', resolved' \in Resolutions, PlaceType', LadderType', ProbeType', AnswersType'
  PROVE  TypeOK'
BY DEF TypeOK, WorldType, Resolutions, PlaceType, Phases, LadderType, ProbeType, AnswersType

(* Batches and ladders are not empty. *)
LEMMA Lengths ==
  /\ WorldType => Len(batch) \in Nat /\ 1 <= Len(batch)
  /\ Len(Shops) \in Nat /\ 1 <= Len(Shops)
  /\ MaxProbes \in Nat /\ Variants \in Nat
<1>1. ASSUME WorldType PROVE batch \in Seq(Items) /\ batch # <<>>
  BY <1>1, AuditAssumption DEF WorldType, AuditAssumption
<1>2. Shops \in Seq(Range(Shops)) /\ Shops # <<>> /\ MaxProbes \in Nat /\ Variants \in Nat
  BY AuditAssumption DEF AuditAssumption
<1> QED  BY <1>1, <1>2

(* The audit starts well typed. *)
LEMMA InitType == Init => TypeOK
<1> SUFFICES ASSUME Init PROVE TypeOK
  OBVIOUS
<1>1. WorldType /\ PlaceType
  <2>1. WorldType
    BY DEF Init, WorldType
  <2> QED  BY <2>1, Lengths DEF Init, PlaceType, Phases
<1>2. resolved \in Resolutions
  BY DEF Init, Resolutions
<1>3. LadderType /\ ProbeType /\ AnswersType
  BY Lengths DEF Init, LadderType, ProbeType, AnswersType
<1> QED  BY <1>1, <1>2, <1>3, TypeParts

(* Leaving a rung for the next provider, or for the scores. *)
LEMMA NextShopType ==
  ASSUME LadderType, NextShop
  PROVE  LadderType' /\ phase' \in Phases /\ phase' # "seed"
BY Lengths DEF LadderType, NextShop, FirstRung, Phases, Asking, Shopping

LEMMA StayType ==
  ASSUME LadderType, NEW next \in Asking \cup Shopping, Stay(next)
  PROVE  LadderType' /\ phase' \in Phases /\ phase' # "seed"
BY DEF LadderType, Stay, ladder, Phases, Asking, Shopping

(* Noting an attempt. *)
LEMMA HereType ==
  ASSUME AnswersType, NEW p \in Providers, NEW s \in Strategies, NEW o \in Outcomes,
         Here(p, s, o)
  PROVE  attempts' \subseteq Providers \X Strategies \X Outcomes
BY DEF AnswersType, Here

LEMMA AnsweredType ==
  ASSUME AnswersType, NEW values, values \subseteq Records, Answered(values)
  PROVE  AnswersType' /\ phase' \in Phases /\ phase' # "seed"
<1>1. "comic_vine" \in Providers
  BY DEF Providers
<1>2. Here("comic_vine", "comic-issue", Outcome(values))
  BY DEF Answered
<1>3. "comic-issue" \in Strategies /\ Outcome(values) \in Outcomes
  BY DEF Strategies, Outcomes, Outcome
<1>4. attempts' \subseteq Providers \X Strategies \X Outcomes
  BY <1>1, <1>2, <1>3, HereType
<1>5. Identities(values) \subseteq Records
  BY DEF Identities
<1> QED  BY <1>1, <1>4, <1>5 DEF Answered, AnswersType, Phases, Asking

(* Settling for a run, and giving a series up as ambiguous. *)
LEMMA SettleType ==
  ASSUME TypeOK, at <= Len(batch), NEW r \in Runs, Settle(r)
  PROVE  resolved' \in Resolutions /\ AnswersType' /\ phase' \in Phases /\ phase' # "seed"
<1> DEFINE issues == IssuesIn(item, {r})
<1>1. resolved \in Resolutions /\ AnswersType /\ catalogue \in Catalogues
  BY TypeParts DEF WorldType
<1>2. item \in Items
  BY ItemType
<1>3. \A c \in issues : c \in Records /\ c.run \in Runs
  BY <1>1, <1>2, AnswerType
<1>4. Remembered(Stored(resolved, item.key, r), issues) \in Resolutions
  <2>1. Stored(resolved, item.key, r) \in Resolutions
    BY <1>1, MemoryType
  <2> QED  BY <1>3, <2>1, RememberedType
<1>5. issues \subseteq Records
  BY <1>3
<1>6. Answered(issues) /\ resolved' = Remembered(Stored(resolved, item.key, r), issues)
  BY DEF Settle
<1> QED  BY <1>1, <1>4, <1>5, <1>6, AnsweredType

LEMMA AmbiguousType ==
  ASSUME TypeOK, at <= Len(batch), NEW S, Ambiguous(S)
  PROVE  resolved' \in Resolutions /\ AnswersType' /\ phase' \in Phases /\ phase' # "seed"
<1> DEFINE issues == IssuesIn(item, S)
           none == StoredNone(resolved, item.key)
<1>1. resolved \in Resolutions /\ AnswersType /\ catalogue \in Catalogues
  BY TypeParts DEF WorldType
<1>2. item \in Items
  BY ItemType
<1>3. \A c \in issues : c \in Records /\ c.run \in Runs
  BY <1>1, <1>2, AnswerType
<1>4. none \in Resolutions
  BY <1>1, MemoryType
<1>5. Remembered(none, issues) \in Resolutions
  BY <1>3, <1>4, RememberedType
<1>6. issues \subseteq Records
  BY <1>3
<1>7. CASE issues = {}
  <2>1. resolved' = none /\ phase' = "fallback" /\ UNCHANGED answers
    BY <1>7 DEF Ambiguous
  <2> QED  BY <1>1, <1>4, <2>1 DEF answers, AnswersType, Phases, Asking
<1>8. CASE issues # {}
  <2>1. resolved' = Remembered(none, issues) /\ Answered(issues)
    BY <1>8 DEF Ambiguous
  <2> QED  BY <1>1, <1>5, <1>6, <2>1, AnsweredType
<1> QED  BY <1>7, <1>8
-----------------------------------------------------------------------------
(* Each step keeps the types *)

(* A step on an opened item leaves the batch and the item alone. *)
LEMMA SamePlace ==
  ASSUME TypeOK, at <= Len(batch), UNCHANGED <<world, at>>, phase' \in Phases
  PROVE  WorldType' /\ PlaceType'
BY TypeParts DEF WorldType, PlaceType, world

LEMMA SeedType == ASSUME TypeOK, Seed PROVE TypeOK'
<1>1. WorldType /\ PlaceType /\ resolved \in Resolutions /\ Len(batch) \in Nat /\ 1 <= Len(batch)
  BY TypeParts, Lengths
<1>2. WorldType' /\ LadderType' /\ ProbeType' /\ AnswersType'
  BY TypeParts DEF Seed, world, ladder, probing, answers, WorldType, LadderType, ProbeType, AnswersType
<1>3. PlaceType'
  BY <1>1 DEF Seed, PlaceType, Phases, world
<1>4. resolved' \in Resolutions
  <2>1. CASE at > Len(batch)
    BY <1>1, <2>1 DEF Seed
  <2>2. CASE ~(at > Len(batch))
    <3>1. item \in Items
      BY <1>1, <2>2, ItemType DEF PlaceType
    <3>2. selection[item.key] \in Runs \cup {"none"}
      <4>1. selection \in [Keys -> Runs \cup {"none"}]
        BY <1>1, AuditAssumption DEF WorldType, AuditAssumption
      <4> QED  BY <3>1, <4>1 DEF Items
    <3>3. CASE item.kind = "book" \/ selection[item.key] = "none"
      BY <1>1, <2>2, <3>3 DEF Seed
    <3>4. CASE ~(item.kind = "book" \/ selection[item.key] = "none")
      <4>1. resolved' = Stored(resolved, item.key, selection[item.key])
        BY <1>1, <2>2, <3>4 DEF Seed
      <4> QED  BY <1>1, <3>2, <3>4, <4>1, MemoryType
    <3> QED  BY <3>3, <3>4
  <2> QED  BY <2>1, <2>2
<1> QED  BY <1>2, <1>3, <1>4, TypePartsAfter

LEMMA OpenIssueType == ASSUME TypeOK, OpenIssue PROVE TypeOK'
<1>1. at <= Len(batch) /\ resolved \in Resolutions
  BY TypeParts DEF OpenIssue, PlaceType
<1>2. LadderType' /\ ProbeType' /\ AnswersType'
  BY TypeParts DEF OpenIssue, ladder, probing, answers, LadderType, ProbeType, AnswersType
<1>3. phase' \in Phases
  BY DEF OpenIssue, Phases, Asking
<1>4. WorldType' /\ PlaceType'
  BY <1>1, <1>3, SamePlace DEF OpenIssue
<1>5. resolved' \in Resolutions
  <2> DEFINE known == resolved[ResolvedKey(item)]
  <2>1. CASE item.number # 0 /\ known \in Runs
    BY <1>1, <2>1, MemoryType DEF OpenIssue
  <2>2. CASE ~(item.number # 0 /\ known \in Runs)
    BY <1>1, <2>2 DEF OpenIssue
  <2> QED  BY <2>1, <2>2
<1> QED  BY <1>2, <1>4, <1>5, TypePartsAfter

LEMMA OpenShopsType == ASSUME TypeOK, OpenShops PROVE TypeOK'
<1>1. at <= Len(batch) /\ resolved \in Resolutions
  BY TypeParts DEF OpenShops, PlaceType
<1>2. phase' \in Phases
  BY DEF OpenShops, FirstRung, Phases, Shopping
<1>3. WorldType' /\ PlaceType'
  BY <1>1, <1>2, SamePlace DEF OpenShops
<1>4. LadderType'
  BY Lengths DEF OpenShops, LadderType
<1>5. ProbeType' /\ AnswersType' /\ resolved' \in Resolutions
  BY <1>1, TypeParts DEF OpenShops, session, probing, answers, ProbeType, AnswersType
<1> QED  BY <1>3, <1>4, <1>5, TypePartsAfter

LEMMA AskRunsType == ASSUME TypeOK, AskRuns PROVE TypeOK'
<1>1. at <= Len(batch) /\ resolved \in Resolutions /\ ProbeType
  BY TypeParts DEF AskRuns, PlaceType
<1>2. LadderType' /\ AnswersType'
  BY TypeParts DEF AskRuns, ladder, answers, LadderType, AnswersType
<1>3. PICK listed \in SUBSET MatchingRuns(item) :
        IF Cardinality(listed) > 1
        THEN todo' = FirstOf(listed) /\ phase' = "probe" /\ UNCHANGED resolved
        ELSE /\ UNCHANGED todo
             /\ IF listed = {}
                THEN resolved' = StoredNone(resolved, item.key) /\ phase' = "fallback"
                ELSE /\ resolved' = Stored(resolved, item.key, CHOOSE r \in listed : TRUE)
                     /\ phase' = "in_run"
  BY DEF AskRuns
<1>4. listed \subseteq Runs
  BY DEF MatchingRuns
<1>5. phase' \in Phases
  BY <1>3 DEF Phases, Asking
<1>6. WorldType' /\ PlaceType'
  BY <1>1, <1>5, SamePlace DEF AskRuns
<1>7. ProbeType'
  <2>1. todo' \subseteq Runs
    BY <1>1, <1>3, <1>4 DEF FirstOf, ProbeType
  <2> QED  BY <1>1, <2>1 DEF AskRuns, ProbeType
<1>8. resolved' \in Resolutions
  <2>1. CASE listed = {} \/ Cardinality(listed) > 1
    BY <1>1, <1>3, <2>1, MemoryType
  <2>2. CASE listed # {} /\ ~(Cardinality(listed) > 1)
    <3>1. (CHOOSE r \in listed : TRUE) \in Runs
      BY <1>4, <2>2
    <3> QED  BY <1>1, <1>3, <2>2, <3>1, MemoryType
  <2> QED  BY <2>1, <2>2
<1> QED  BY <1>2, <1>6, <1>7, <1>8, TypePartsAfter

LEMMA ProbeStepType == ASSUME TypeOK, Probe PROVE TypeOK'
<1>1. at <= Len(batch) /\ resolved \in Resolutions /\ ProbeType /\ phase \in Phases
  BY TypeParts DEF Probe, PlaceType
<1>2. LadderType' /\ AnswersType' /\ resolved' \in Resolutions /\ phase' \in Phases
  BY <1>1, TypeParts DEF Probe, ladder, answers, LadderType, AnswersType
<1>3. WorldType' /\ PlaceType'
  BY <1>1, <1>2, SamePlace DEF Probe
<1>4. ProbeType'
  <2>1. todo' \subseteq Runs /\ hits' \subseteq Runs /\ longest' \subseteq Runs
    BY <1>1 DEF Probe, ProbeType
  <2>2. probes' \in 0..MaxProbes
    BY <1>1, Lengths DEF Probe, ProbeType
  <2> QED  BY <2>1, <2>2 DEF ProbeType
<1> QED  BY <1>2, <1>3, <1>4, TypePartsAfter

LEMMA DecideType == ASSUME TypeOK, Decide PROVE TypeOK'
<1>1. at <= Len(batch) /\ resolved \in Resolutions /\ ProbeType
  BY TypeParts DEF Decide, PlaceType
<1>2. LadderType'
  BY TypeParts DEF Decide, ladder, LadderType
<1>3. Unique(item) \subseteq Runs
  BY <1>1 DEF Unique, ByYear, ProbeType
<1>4. /\ resolved' \in Resolutions /\ AnswersType' /\ phase' \in Phases
      /\ todo' \subseteq Runs /\ hits' \subseteq Runs /\ longest' \subseteq Runs
  <2>1. CASE Unique(item) # {}
    <3>1. (CHOOSE r \in Unique(item) : TRUE) \in Runs
      BY <1>3, <2>1
    <3>2. Settle(CHOOSE r \in Unique(item) : TRUE) /\ ProbingOver
      BY <2>1 DEF Decide
    <3> QED  BY <1>1, <3>1, <3>2, SettleType DEF ProbingOver
  <2>2. CASE Unique(item) = {} /\ (hits = {} \/ LastNumber(item) = item.number)
    <3>1. Ambiguous(hits) /\ ProbingOver
      BY <2>2 DEF Decide
    <3> QED  BY <1>1, <3>1, AmbiguousType DEF ProbingOver
  <2>3. CASE Unique(item) = {} /\ ~(hits = {} \/ LastNumber(item) = item.number)
    <3>1. /\ todo' = hits /\ phase' = "longest"
          /\ UNCHANGED <<resolved, hits, longest, answers>>
      BY <2>3 DEF Decide
    <3> QED  BY <1>1, <3>1, TypeParts DEF ProbeType, AnswersType, answers, Phases, Asking
  <2> QED  BY <2>1, <2>2, <2>3
<1>5. WorldType' /\ PlaceType'
  BY <1>1, <1>4, SamePlace DEF Decide
<1>6. ProbeType'
  BY <1>1, <1>4 DEF Decide, ProbeType
<1> QED  BY <1>2, <1>4, <1>5, <1>6, TypePartsAfter

LEMMA DecideLongestType == ASSUME TypeOK, DecideLongest PROVE TypeOK'
<1>1. at <= Len(batch) /\ resolved \in Resolutions /\ ProbeType
  BY TypeParts DEF DecideLongest, PlaceType
<1>2. LadderType' /\ ProbeType'
  BY <1>1, TypeParts DEF DecideLongest, ladder, LadderType, ProbeType, ProbingOver
<1>3. resolved' \in Resolutions /\ AnswersType' /\ phase' \in Phases
  <2>1. CASE Cardinality(longest) = 1
    <3>1. \A S : Cardinality(S) = 1 => S # {}
      BY FS_EmptySet
    <3>2. (CHOOSE r \in longest : TRUE) \in Runs
      BY <1>1, <2>1, <3>1 DEF ProbeType
    <3> QED  BY <1>1, <2>1, <3>2, SettleType DEF DecideLongest
  <2>2. CASE Cardinality(longest) # 1
    BY <1>1, <2>2, AmbiguousType DEF DecideLongest
  <2> QED  BY <2>1, <2>2
<1>4. WorldType' /\ PlaceType'
  BY <1>1, <1>3, SamePlace DEF DecideLongest
<1> QED  BY <1>2, <1>3, <1>4, TypePartsAfter

LEMMA ExhaustedType == ASSUME TypeOK, Exhausted PROVE TypeOK'
<1>1. at <= Len(batch) /\ ProbeType
  BY TypeParts DEF Exhausted, PlaceType
<1>2. LadderType' /\ ProbeType'
  BY <1>1, TypeParts DEF Exhausted, ladder, LadderType, ProbeType, ProbingOver
<1>3. resolved' \in Resolutions /\ AnswersType' /\ phase' \in Phases
  BY <1>1, AmbiguousType DEF Exhausted
<1>4. WorldType' /\ PlaceType'
  BY <1>1, <1>3, SamePlace DEF Exhausted
<1> QED  BY <1>2, <1>3, <1>4, TypePartsAfter

LEMMA InRunType == ASSUME TypeOK, InRun PROVE TypeOK'
<1> DEFINE issues == IssuesIn(item, {resolved[ResolvedKey(item)]})
<1>1. at <= Len(batch) /\ resolved \in Resolutions /\ AnswersType /\ catalogue \in Catalogues
  BY TypeParts DEF InRun, PlaceType, WorldType
<1>2. LadderType' /\ ProbeType'
  BY TypeParts DEF InRun, ladder, probing, LadderType, ProbeType
<1>3. \A c \in issues : c \in Records /\ c.run \in Runs
  BY <1>1, ItemType, AnswerType
<1>4. resolved' = Remembered(resolved, issues) /\ Answered(issues)
  BY DEF InRun
<1>5. resolved' \in Resolutions
  BY <1>1, <1>3, <1>4, RememberedType
<1>6. issues \subseteq Records
  BY <1>3
<1>7. AnswersType' /\ phase' \in Phases
  BY <1>1, <1>4, <1>6, AnsweredType
<1>8. WorldType' /\ PlaceType'
  BY <1>1, <1>7, SamePlace DEF InRun
<1> QED  BY <1>2, <1>5, <1>7, <1>8, TypePartsAfter

LEMMA SearchType == ASSUME TypeOK, Search PROVE TypeOK'
<1>1. at <= Len(batch) /\ resolved \in Resolutions /\ AnswersType /\ catalogue \in Catalogues
  BY TypeParts DEF Search, PlaceType, WorldType
<1>2. LadderType' /\ ProbeType'
  BY TypeParts DEF Search, ladder, probing, LadderType, ProbeType
<1>3. PICK values \in SearchAnswers(item) :
        \/ UNCHANGED resolved /\ Answered(values)
        \/ /\ resolved' = Remembered(resolved, Identities(values))
           /\ Answered(Identities(values))
  BY DEF Search
<1>4. /\ \A c \in values : c \in Records /\ c.run \in Runs
      /\ Identities(values) \subseteq values
  BY <1>1, ItemType, AnswerType DEF Identities
<1>5. resolved' \in Resolutions
  BY <1>1, <1>3, <1>4, RememberedType
<1>6. values \subseteq Records /\ Identities(values) \subseteq Records
  BY <1>4
<1>7. AnswersType' /\ phase' \in Phases
  BY <1>1, <1>3, <1>6, AnsweredType
<1>8. WorldType' /\ PlaceType'
  BY <1>1, <1>7, SamePlace DEF Search
<1> QED  BY <1>2, <1>5, <1>7, <1>8, TypePartsAfter

LEMMA RelaxedType == ASSUME TypeOK, Relaxed PROVE TypeOK'
<1>1. at <= Len(batch) /\ resolved \in Resolutions /\ AnswersType /\ catalogue \in Catalogues
  BY TypeParts DEF Relaxed, PlaceType, WorldType
<1>2. LadderType' /\ ProbeType' /\ resolved' \in Resolutions /\ phase' \in Phases
  BY <1>1, TypeParts DEF Relaxed, ladder, session, probing, LadderType, ProbeType, Phases
<1>3. AnswersType'
  <2>1. PICK values \in SearchAnswers(item) :
          found' = Identities(values) /\ Here("comic_vine", "relaxed", Outcome(values))
    BY DEF Relaxed
  <2>4. found' \subseteq Records
    BY <1>1, <2>1, ItemType, AnswerType DEF Identities
  <2>2. "comic_vine" \in Providers /\ "relaxed" \in Strategies /\ Outcome(values) \in Outcomes
    BY DEF Providers, Strategies, Outcome, Outcomes
  <2>3. attempts' \subseteq Providers \X Strategies \X Outcomes
    BY <1>1, <2>1, <2>2, HereType
  <2> QED  BY <1>1, <2>4, <2>3 DEF Relaxed, AnswersType
<1>4. WorldType' /\ PlaceType'
  BY <1>1, <1>2, SamePlace DEF Relaxed
<1> QED  BY <1>2, <1>3, <1>4, TypePartsAfter

LEMMA FailType == ASSUME TypeOK, Fail PROVE TypeOK'
<1>1. at <= Len(batch) /\ resolved \in Resolutions /\ AnswersType /\ ProbeType
  BY TypeParts DEF Fail, PlaceType, Asking
<1>2. LadderType' /\ resolved' \in Resolutions /\ phase' \in Phases
  BY <1>1, TypeParts DEF Fail, ladder, LadderType, Phases
<1>3. ProbeType'
  <2>1. probes' \in 0..MaxProbes
    BY <1>1, Lengths DEF Fail, ProbeType
  <2> QED  BY <2>1 DEF Fail, ProbingOver, ProbeType
<1>4. AnswersType'
  <2>1. "comic_vine" \in Providers /\ "provider-request" \in Strategies
    BY DEF Providers, Strategies
  <2>2. attempts' \subseteq Providers \X Strategies \X Outcomes
    BY <1>1, <2>1, HereType DEF Fail, Outcomes
  <2> QED  BY <1>1, <2>1, <2>2 DEF Fail, AnswersType
<1>5. WorldType' /\ PlaceType'
  BY <1>1, <1>2, SamePlace DEF Fail
<1> QED  BY <1>2, <1>3, <1>4, <1>5, TypePartsAfter
LEMMA IdentifyType == ASSUME TypeOK, Identify PROVE TypeOK'
<1>1. at <= Len(batch) /\ LadderType /\ AnswersType
  BY TypeParts DEF Identify, PlaceType
<1>2. PICK cands \in Offered(item) :
        /\ found' = found \cup cands
        /\ Here(Seller, "identifier", "ok")
        /\ IF cands = {} THEN UNCHANGED heard ELSE Heard
        /\ IF cands # {} THEN NextShop
           ELSE Stay(IF item.kind = "book" THEN "structured" ELSE "variants")
  BY DEF Identify
<1>3. Seller \in Providers /\ cands \subseteq Records
  BY <1>1, ItemType, OfferType
<1>4. LadderType' /\ phase' \in Phases
  <2>1. CASE cands # {}
    BY <1>1, <1>2, <2>1, NextShopType
  <2>2. CASE cands = {}
    <3>1. (IF item.kind = "book" THEN "structured" ELSE "variants") \in Asking \cup Shopping
      BY DEF Shopping
    <3> QED  BY <1>1, <1>2, <2>2, <3>1, StayType
  <2> QED  BY <2>1, <2>2
<1>5. AnswersType'
  <2>1. attempts' \subseteq Providers \X Strategies \X Outcomes
    BY <1>1, <1>2, <1>3, HereType DEF Strategies, Outcomes
  <2> QED  BY <1>1, <1>2, <1>3, <2>1 DEF Identify, Heard, AnswersType
<1>6. resolved' \in Resolutions /\ ProbeType'
  BY TypeParts DEF Identify, session, probing, ProbeType
<1>7. WorldType' /\ PlaceType'
  BY <1>1, <1>4, SamePlace DEF Identify
<1> QED  BY <1>4, <1>5, <1>6, <1>7, TypePartsAfter

LEMMA StructuredType == ASSUME TypeOK, Structured PROVE TypeOK'
<1>1. at <= Len(batch) /\ LadderType /\ AnswersType
  BY TypeParts DEF Structured, PlaceType
<1>2. PICK cands \in Offered(item) :
        /\ found' = found \cup cands
        /\ Here(Seller, "structured", "ok")
        /\ IF cands = {} /\ (item.writes # {} \/ item.series) THEN Stay("loose") ELSE NextShop
  BY DEF Structured
<1>3. Seller \in Providers /\ cands \subseteq Records
  BY <1>1, ItemType, OfferType
<1>4. LadderType' /\ phase' \in Phases
  <2>1. Stay("loose") \/ NextShop
    BY <1>2
  <2>2. "loose" \in Asking \cup Shopping
    BY DEF Shopping
  <2> QED  BY <1>1, <2>1, <2>2, StayType, NextShopType
<1>5. AnswersType'
  <2>1. attempts' \subseteq Providers \X Strategies \X Outcomes
    BY <1>1, <1>2, <1>3, HereType DEF Strategies, Outcomes
  <2> QED  BY <1>1, <1>2, <1>3, <2>1 DEF Structured, Heard, AnswersType
<1>6. resolved' \in Resolutions /\ ProbeType'
  BY TypeParts DEF Structured, session, probing, ProbeType
<1>7. WorldType' /\ PlaceType'
  BY <1>1, <1>4, SamePlace DEF Structured
<1> QED  BY <1>4, <1>5, <1>6, <1>7, TypePartsAfter

LEMMA LooseType == ASSUME TypeOK, Loose PROVE TypeOK'
<1>1. at <= Len(batch) /\ LadderType /\ AnswersType
  BY TypeParts DEF Loose, PlaceType
<1>2. LadderType' /\ phase' \in Phases
  BY <1>1, NextShopType DEF Loose
<1>3. PICK cands \in Offered(item) : found' = found \cup cands
  BY DEF Loose
<1>4. Seller \in Providers /\ cands \subseteq Records
  BY <1>1, ItemType, OfferType
<1>5. AnswersType'
  <2>1. attempts' \subseteq Providers \X Strategies \X Outcomes
    BY <1>1, <1>4, HereType DEF Loose, Strategies, Outcomes
  <2> QED  BY <1>1, <1>3, <1>4, <2>1 DEF Loose, AnswersType
<1>6. resolved' \in Resolutions /\ ProbeType'
  BY TypeParts DEF Loose, session, probing, ProbeType
<1>7. WorldType' /\ PlaceType'
  BY <1>1, <1>2, SamePlace DEF Loose
<1> QED  BY <1>2, <1>5, <1>6, <1>7, TypePartsAfter

LEMMA ShopFailsType == ASSUME TypeOK, ShopFails PROVE TypeOK'
<1>1. at <= Len(batch) /\ LadderType /\ AnswersType
  BY TypeParts DEF ShopFails, PlaceType
<1>2. LadderType' /\ phase' \in Phases
  BY <1>1, NextShopType DEF ShopFails
<1>3. Seller \in Providers
  BY <1>1, ItemType, OfferType
<1>4. AnswersType'
  <2>1. attempts' \subseteq Providers \X Strategies \X Outcomes
    BY <1>1, <1>3, HereType DEF ShopFails, Strategies, Outcomes
  <2> QED  BY <1>1, <1>3, <2>1 DEF ShopFails, AnswersType
<1>5. resolved' \in Resolutions /\ ProbeType'
  BY TypeParts DEF ShopFails, session, probing, ProbeType
<1>6. WorldType' /\ PlaceType'
  BY <1>1, <1>2, SamePlace DEF ShopFails
<1> QED  BY <1>2, <1>4, <1>5, <1>6, TypePartsAfter

LEMMA AskVariantType == ASSUME TypeOK, AskVariant PROVE TypeOK'
<1>1. at <= Len(batch) /\ LadderType /\ AnswersType /\ phase \in Phases
  BY TypeParts DEF AskVariant, PlaceType
<1>2. LadderType' /\ phase' \in Phases
  BY <1>1, Lengths DEF AskVariant, LadderType
<1>3. Seller \in Providers /\ (found' \subseteq Records)
  <2>1. Seller \in Providers /\ \A cands \in Offered(item) : cands \subseteq Records
    BY <1>1, ItemType, OfferType
  <2> QED  BY <1>1, <2>1 DEF AskVariant, AnswersType
<1>4. AnswersType'
  <2>1. attempts' \subseteq Providers \X Strategies \X Outcomes
    BY <1>1, <1>3, HereType DEF AskVariant, Strategies, Outcomes
  <2> QED  BY <1>1, <1>3, <2>1 DEF AskVariant, AnswersType
<1>5. resolved' \in Resolutions /\ ProbeType'
  BY TypeParts DEF AskVariant, session, probing, ProbeType
<1>6. WorldType' /\ PlaceType'
  BY <1>1, <1>2, SamePlace DEF AskVariant
<1> QED  BY <1>2, <1>4, <1>5, <1>6, TypePartsAfter

(* A provider's conclusion only names it. *)
LEMMA ConcludedType ==
  ASSUME AnswersType, LadderType, Seller \in Providers, NEW cands, NEW responded, NEW failed,
         Concluded(cands, responded, failed)
  PROVE  /\ heard' \subseteq Providers /\ refused' \subseteq Providers
         /\ LadderType' /\ phase' \in Phases
<1>1. LadderType' /\ phase' \in Phases
  BY NextShopType DEF Concluded
<1> QED  BY <1>1 DEF Concluded, AnswersType

LEMMA VariantsFoundType == ASSUME TypeOK, VariantsFound PROVE TypeOK'
<1>1. at <= Len(batch) /\ LadderType /\ AnswersType
  BY TypeParts DEF VariantsFound, PlaceType
<1>2. Seller \in Providers
  BY <1>1, ItemType, OfferType
<1>3. LadderType' /\ phase' \in Phases /\ heard' \subseteq Providers /\ refused' \subseteq Providers
  <2>1. CASE FoundHere = {}
    <3>1. "wide" \in Asking \cup Shopping
      BY DEF Shopping
    <3> QED  BY <1>1, <2>1, <3>1, StayType DEF VariantsFound, AnswersType
  <2>2. CASE FoundHere # {}
    <3>1. Concluded(FoundHere, Responded, Failed)
      BY <2>2 DEF VariantsFound
    <3> QED  BY <1>1, <1>2, <3>1, ConcludedType
  <2> QED  BY <2>1, <2>2
<1>4. AnswersType'
  BY <1>1, <1>3 DEF VariantsFound, AnswersType
<1>5. resolved' \in Resolutions /\ ProbeType'
  BY TypeParts DEF VariantsFound, session, probing, ProbeType
<1>6. WorldType' /\ PlaceType'
  BY <1>1, <1>3, SamePlace DEF VariantsFound
<1> QED  BY <1>3, <1>4, <1>5, <1>6, TypePartsAfter

LEMMA AskWideType == ASSUME TypeOK, AskWide PROVE TypeOK'
<1>1. at <= Len(batch) /\ LadderType /\ AnswersType
  BY TypeParts DEF AskWide, PlaceType
<1>2. Seller \in Providers /\ \A cands \in Offered(item) : cands \subseteq Records
  BY <1>1, ItemType, OfferType
<1>3. \E cands, responded, failed : Concluded(cands, responded, failed)
  BY DEF AskWide
<1>4. LadderType' /\ phase' \in Phases /\ heard' \subseteq Providers /\ refused' \subseteq Providers
  BY <1>1, <1>2, <1>3, ConcludedType
<1>5. AnswersType'
  <2>1. attempts' \subseteq Providers \X Strategies \X Outcomes
    BY <1>1, <1>2, HereType DEF AskWide, Strategies, Outcomes
  <2>2. found' \subseteq Records
    BY <1>1, <1>2 DEF AskWide, AnswersType
  <2> QED  BY <1>4, <2>1, <2>2 DEF AnswersType
<1>6. resolved' \in Resolutions /\ ProbeType'
  BY TypeParts DEF AskWide, session, probing, ProbeType
<1>7. WorldType' /\ PlaceType'
  BY <1>1, <1>4, SamePlace DEF AskWide
<1> QED  BY <1>4, <1>5, <1>6, <1>7, TypePartsAfter

LEMMA NextItemType == ASSUME TypeOK, NextItem PROVE TypeOK'
<1>1. WorldType /\ PlaceType /\ Len(batch) \in Nat
  BY TypeParts, Lengths
<1>2. WorldType' /\ LadderType' /\ ProbeType' /\ resolved' \in Resolutions
  BY TypeParts DEF NextItem, world, session, ladder, probing, WorldType, LadderType, ProbeType
<1>3. PlaceType' /\ AnswersType'
  BY <1>1 DEF NextItem, PlaceType, AnswersType, Phases, world
<1> QED  BY <1>2, <1>3, TypePartsAfter

LEMMA StutterType == ASSUME TypeOK, UNCHANGED vars PROVE TypeOK'
BY DEF TypeOK, vars, world, session, ladder, probing, answers

(* Every variable keeps its type, in any audit. *)
THEOREM TypeCorrect == Spec => []TypeOK
<1>1. ASSUME TypeOK, [Next]_vars PROVE TypeOK'
  BY <1>1, SeedType, OpenIssueType, OpenShopsType, AskRunsType, ProbeStepType, DecideType,
     DecideLongestType, ExhaustedType, InRunType, SearchType, RelaxedType, FailType,
     IdentifyType, StructuredType, LooseType, ShopFailsType, AskVariantType,
     VariantsFoundType, AskWideType, NextItemType, StutterType
  DEF Next, Finished
<1> QED  BY <1>1, InitType, PTL DEF Spec

(* A candidate that may be accepted unseen is right, whatever the          *)
(* providers answered before, at any threshold above 90: the default is    *)
(* 92.  Only types are needed: the rest is the scorer's arithmetic, which  *)
(* holds for any set of candidates.                                        *)
THEOREM EligibleRight == EligibleScore >= 91 => (Spec => []EligibleIsRight)
<1> SUFFICES ASSUME EligibleScore >= 91 PROVE Spec => []EligibleIsRight
  OBVIOUS
<1>1. ASSUME TypeOK PROVE EligibleIsRight
  <2> SUFFICES ASSUME phase = "scored", NEW c \in found,
                      Eligible(item, c, found, Rejected[item.id])
               PROVE  /\ Uncollected(item) => RightIssue(item, c)
                      /\ item.kind = "book" => Named(c)
                      /\ item.kind = "collection" => RightCollection(item, c)
    BY DEF EligibleIsRight
  <2>1. item \in Items /\ c \in Records
    BY <1>1, ItemType, TypeParts DEF PlaceType, AnswersType
  <2> QED  BY <2>1, EligibleRecord
<1> QED  BY <1>1, TypeCorrect, PTL

-----------------------------------------------------------------------------
(* What the session remembers *)

(* A run answers for its own name too, unless selections clash over it.    *)
RunsAnswerToTheirNames ==
  \A k \in Keys : resolved[k] \in Runs =>
    \/ resolved[NameOf[resolved[k]]] = resolved[k]
    \/ Clash(NameOf[resolved[k]])

(* While selections are read, nothing else is remembered.                  *)
OnlyClaimed ==
  phase = "seed" => \A k \in Keys : resolved[k] \in Runs => resolved[k] \in Claims(k)

(* A series whose runs are asked for, or told apart, has none yet, and the *)
(* runs told apart bear its name.                                          *)
Undecided == phase \in {"runs", "probe", "longest"} => resolved[item.key] \notin Runs

ProbesMatch ==
  IF phase \in {"probe", "longest"}
  THEN todo \cup hits \cup longest \subseteq MatchingRuns(item)
  ELSE todo = {} /\ hits = {} /\ longest = {}

Memory == RunsAnswerToTheirNames /\ OnlyClaimed /\ Undecided /\ ProbesMatch

(* The answers of an issue may only name runs nobody asked for before.     *)
Fills(map, new) ==
  \A k \in Keys : \/ new[k] = map[k]
                  \/ map[k] = "unasked" /\ new[k] \in Runs /\ NameOf[new[k]] = k

(* A run that is stored for an item: the one known for its series already, *)
(* or else the one of the name without the credit, or one of its name.     *)
Learnable(r) ==
  /\ r \in Runs
  /\ resolved[item.key] \in Runs => r = resolved[item.key]
  /\ r \in {resolved[item.key], resolved[item.base]} \cup MatchingRuns(item)

Learns(map) ==
  \/ map = resolved
  \/ map = StoredNone(resolved, item.key) /\ resolved[item.key] \notin Runs
  \/ \E r \in Runs : Learnable(r) /\ map = Stored(resolved, item.key, r)

(* A user's choice for a series, when no other choice contradicts it.      *)
Chosen(i) == Uncollected(i) /\ selection[i.key] \in Runs /\ ~Clash(i.key)

Seeded ==
  \A n \in 1..Len(batch) :
    (phase = "seed" => n < at) /\ Chosen(batch[n])
      => resolved[batch[n].key] = selection[batch[n].key]

(* Comic Vine is asked about issues and the shops about the rest.          *)
OnItsLadder ==
  /\ phase \in Asking => Uncollected(item)
  /\ phase \in Shopping => ~Uncollected(item)
  /\ phase \in {"structured", "loose"} => item.kind = "book"
  /\ phase \in {"variants", "wide"} => item.kind = "collection"
  /\ phase = "loose" => item.writes # {} \/ item.series
  /\ phase = "plain" => item.number = 0

(* The chosen run holds the issue.                                         *)
Held(i) == /\ Chosen(i) /\ i.number # 0 /\ <<selection[i.key], i.number>> \in catalogue

ChoiceFollowed ==
  /\ phase \in Asking /\ Held(item) => phase = "in_run"
  /\ SelectionDecides

(* A provider of which a query failed.                                     *)
Troubled(p) == \E s \in Strategies : <<p, s, "error">> \in attempts

Heeded(p) == p \in refused \/ HeardOut(p)

Recorded ==
  /\ phase \in {"seed", "open"} => found = {} /\ refused = {} /\ attempts = {}
  /\ phase \in Asking => found = {} /\ ~Troubled("comic_vine")
  /\ phase \in Shopping /\ found = {} =>
       /\ \A p \in Range(Shops) : Troubled(p) =>
            \/ p \in refused
            \/ p = Seller /\ phase \in {"variants", "wide"} /\ Failed
       /\ \A m \in 1..(shop - 1) : Heeded(Shops[m])
  /\ NoCandidateMeansAsked

-----------------------------------------------------------------------------
(* The batch and the user's selections never change, so neither do the     *)
(* claims; within an item, only the last step of all moves on.             *)
LEMMA WorldStays ==
  ASSUME [Next]_vars
  PROVE  UNCHANGED world /\ \A k : Claims(k)' = Claims(k) /\ Clash(k)' = Clash(k)
<1>1. UNCHANGED world
  <2>1. CASE UNCHANGED vars
    BY <2>1 DEF vars
  <2>2. CASE Seed \/ OpenIssue \/ OpenShops \/ AskRuns \/ Probe \/ Decide \/ DecideLongest
    BY <2>2 DEF Seed, OpenIssue, OpenShops, AskRuns, Probe, Decide, DecideLongest
  <2>3. CASE Exhausted \/ InRun \/ Search \/ Relaxed \/ Fail \/ NextItem \/ Finished
    BY <2>3 DEF Exhausted, InRun, Search, Relaxed, Fail, NextItem, Finished, vars
  <2>4. CASE Identify \/ Structured \/ Loose \/ ShopFails \/ AskVariant \/ VariantsFound \/ AskWide
    BY <2>4 DEF Identify, Structured, Loose, ShopFails, AskVariant, VariantsFound, AskWide
  <2> QED  BY <2>1, <2>2, <2>3, <2>4 DEF Next
<1>2. selection' = selection
  BY <1>1 DEF world
<1>3. \A k : Claims(k)' = Claims(k)
  BY <1>2 DEF Claims
<1> QED  BY <1>1, <1>3 DEF Clash

LEMMA SameItem == ASSUME UNCHANGED <<world, at>> PROVE item' = item
BY DEF world, item

(* What an answer names is only added. *)
LEMMA RememberedFills ==
  ASSUME NEW map \in Resolutions, NEW cands, \A c \in cands : c.run \in Runs
  PROVE  Fills(map, Remembered(map, cands))
<1> DEFINE named(k) == {c.run : c \in {d \in cands : d.dated /\ NameOf[d.run] = k}}
<1> SUFFICES ASSUME NEW k \in Keys, map[k] = "unasked", Cardinality(named(k)) = 1
             PROVE  LET r == CHOOSE r \in named(k) : TRUE IN r \in Runs /\ NameOf[r] = k
  BY DEF Fills, Remembered
<1>1. named(k) # {}
  <2>1. \A S : Cardinality(S) = 1 => S # {}
    BY FS_EmptySet
  <2> QED  BY <2>1
<1> QED  BY <1>1

LEMMA FillsItself == ASSUME NEW map PROVE Fills(map, map)
BY DEF Fills

LEMMA ItemsKey ==
  ASSUME TypeOK, at <= Len(batch)
  PROVE  item \in Items /\ item.key \in Keys /\ item.base \in Keys /\ item.number \in Nat
BY ItemType DEF Items

(* Settling for a matching run, or giving up, of a series without a run. *)
LEMMA SettleLearns ==
  ASSUME TypeOK, at <= Len(batch), resolved[item.key] \notin Runs,
         NEW r \in MatchingRuns(item), Settle(r)
  PROVE  \E map : Learns(map) /\ Fills(map, resolved')
<1> DEFINE map == Stored(resolved, item.key, r)
<1>1. r \in Runs /\ item \in Items /\ catalogue \in Catalogues /\ resolved \in Resolutions
  BY ItemType, TypeParts DEF MatchingRuns, WorldType
<1>2. Learns(map)
  BY <1>1 DEF Learns, Learnable
<1>3. \A c \in IssuesIn(item, {r}) : c.run \in Runs
  BY <1>1, AnswerType
<1>4. map \in Resolutions
  BY <1>1, MemoryType
<1>5. Fills(map, Remembered(map, IssuesIn(item, {r})))
  BY <1>3, <1>4, RememberedFills
<1>6. resolved' = Remembered(map, IssuesIn(item, {r}))
  BY DEF Settle
<1> QED  BY <1>2, <1>5, <1>6

LEMMA AmbiguousLearns ==
  ASSUME TypeOK, at <= Len(batch), resolved[item.key] \notin Runs, NEW S, Ambiguous(S)
  PROVE  \E map : Learns(map) /\ Fills(map, resolved')
<1> DEFINE map == StoredNone(resolved, item.key)
<1>1. item \in Items /\ catalogue \in Catalogues /\ resolved \in Resolutions
  BY ItemType, TypeParts DEF WorldType
<1>2. Learns(map)
  BY DEF Learns
<1>3. \A c \in IssuesIn(item, S) : c.run \in Runs
  BY <1>1, AnswerType
<1>4. map \in Resolutions
  BY <1>1, MemoryType
<1>5. Fills(map, Remembered(map, IssuesIn(item, S))) /\ Fills(map, map)
  BY <1>3, <1>4, RememberedFills, FillsItself
<1>6. resolved' \in {map, Remembered(map, IssuesIn(item, S))}
  BY DEF Ambiguous
<1> QED  BY <1>2, <1>5, <1>6

(* What the budget and the probes leave to choose from. *)
LEMMA OneOfThem ==
  ASSUME TypeOK
  PROVE  /\ Unique(item) \subseteq hits
         /\ \A S : Cardinality(S) = 1 => (CHOOSE r \in S : TRUE) \in S
<1>1. Unique(item) \subseteq hits
  BY DEF Unique, ByYear
<1>2. \A S : Cardinality(S) = 1 => S # {}
  BY FS_EmptySet
<1> QED  BY <1>1, <1>2

(* After the selections are read, every step that remembers something      *)
(* stores a run the item may learn, or that there is none, and then what   *)
(* the answer names.                                                       *)
LEMMA StepLearns ==
  ASSUME TypeOK, Memory, [Next]_vars, phase # "seed"
  PROVE  \E map : Learns(map) /\ Fills(map, resolved')
<1> USE DEF Memory
<1>0. at <= Len(batch) /\ resolved \in Resolutions /\ catalogue \in Catalogues
  BY TypeParts DEF PlaceType, WorldType
<1>1. item \in Items /\ item.key \in Keys /\ item.base \in Keys
  BY <1>0, ItemsKey
<1>2. CASE UNCHANGED resolved
  BY <1>2, FillsItself DEF Learns
<1>3. CASE OpenIssue
  <2> DEFINE known == resolved[ResolvedKey(item)]
  <2>1. CASE item.number # 0 /\ known \in Runs
    <3>1. Learnable(known)
      BY <2>1 DEF Learnable, ResolvedKey
    <3>2. resolved' = Stored(resolved, item.key, known)
      BY <1>3, <2>1 DEF OpenIssue
    <3> QED  BY <2>1, <3>1, <3>2, FillsItself DEF Learns
  <2>2. CASE ~(item.number # 0 /\ known \in Runs)
    BY <1>2, <1>3, <2>2 DEF OpenIssue
  <2> QED  BY <2>1, <2>2
<1>4. CASE AskRuns
  <2>1. resolved[item.key] \notin Runs
    BY <1>4 DEF AskRuns, Undecided
  <2>2. PICK listed \in SUBSET MatchingRuns(item) :
          \/ UNCHANGED resolved
          \/ resolved' = StoredNone(resolved, item.key)
          \/ listed # {} /\ resolved' = Stored(resolved, item.key, CHOOSE r \in listed : TRUE)
    BY <1>4 DEF AskRuns
  <2>3. CASE resolved' = StoredNone(resolved, item.key)
    BY <2>1, <2>3, FillsItself DEF Learns
  <2>4. CASE listed # {} /\ resolved' = Stored(resolved, item.key, CHOOSE r \in listed : TRUE)
    <3>1. PICK r \in MatchingRuns(item) : resolved' = Stored(resolved, item.key, r)
      BY <2>4
    <3>2. r \in Runs /\ Learnable(r)
      BY <2>1 DEF Learnable, MatchingRuns
    <3> QED  BY <3>1, <3>2, FillsItself DEF Learns
  <2> QED  BY <1>2, <2>2, <2>3, <2>4
<1>5. CASE Decide
  <2>1. resolved[item.key] \notin Runs /\ hits \subseteq MatchingRuns(item)
    BY <1>5 DEF Decide, Undecided, ProbesMatch
  <2>2. CASE Unique(item) # {}
    <3>1. (CHOOSE r \in Unique(item) : TRUE) \in MatchingRuns(item)
      BY <2>1, <2>2, OneOfThem
    <3>2. Settle(CHOOSE r \in Unique(item) : TRUE)
      BY <1>5, <2>2 DEF Decide
    <3> QED  BY <1>0, <2>1, <3>1, <3>2, SettleLearns
  <2>3. CASE Unique(item) = {}
    <3>1. Ambiguous(hits) \/ UNCHANGED resolved
      BY <1>5, <2>3 DEF Decide
    <3> QED  BY <1>0, <1>2, <2>1, <3>1, AmbiguousLearns
  <2> QED  BY <2>2, <2>3
<1>6. CASE DecideLongest
  <2>1. resolved[item.key] \notin Runs /\ longest \subseteq MatchingRuns(item)
    BY <1>6 DEF DecideLongest, Undecided, ProbesMatch
  <2>2. CASE Cardinality(longest) = 1
    <3>1. (CHOOSE r \in longest : TRUE) \in MatchingRuns(item)
      BY <2>1, <2>2, OneOfThem
    <3>2. Settle(CHOOSE r \in longest : TRUE)
      BY <1>6, <2>2 DEF DecideLongest
    <3> QED  BY <1>0, <2>1, <3>1, <3>2, SettleLearns
  <2>3. CASE Cardinality(longest) # 1
    <3>1. Ambiguous(hits)
      BY <1>6, <2>3 DEF DecideLongest
    <3> QED  BY <1>0, <2>1, <3>1, AmbiguousLearns
  <2> QED  BY <2>2, <2>3
<1>7. CASE Exhausted
  <2>1. resolved[item.key] \notin Runs
    BY <1>7 DEF Exhausted, Undecided
  <2>2. Ambiguous(IF phase = "probe" THEN {} ELSE hits)
    BY <1>7 DEF Exhausted
  <2> QED  BY <1>0, <2>1, <2>2, AmbiguousLearns
<1>8. CASE InRun
  <2> DEFINE issues == IssuesIn(item, {resolved[ResolvedKey(item)]})
  <2>1. \A c \in issues : c.run \in Runs
    BY <1>0, <1>1, AnswerType
  <2>2. resolved' = Remembered(resolved, issues)
    BY <1>8 DEF InRun
  <2>3. Fills(resolved, resolved')
    BY <1>0, <2>1, <2>2, RememberedFills
  <2> QED  BY <2>3 DEF Learns
<1>9. CASE Search
  <2>1. PICK values \in SearchAnswers(item) :
          UNCHANGED resolved \/ resolved' = Remembered(resolved, Identities(values))
    BY <1>9 DEF Search
  <2>2. \A c \in Identities(values) : c.run \in Runs
    BY <1>0, <1>1, AnswerType DEF Identities
  <2>3. Fills(resolved, resolved')
    BY <1>0, <2>1, <2>2, RememberedFills, FillsItself
  <2> QED  BY <2>3 DEF Learns
<1>10. CASE OpenShops \/ Probe \/ Relaxed \/ Fail \/ NextItem \/ Finished \/ UNCHANGED vars
  <2>1. UNCHANGED resolved
    BY <1>10 DEF OpenShops, Probe, Relaxed, Fail, NextItem, Finished, vars, session
  <2> QED  BY <1>2, <2>1
<1>11. CASE Identify \/ Structured \/ Loose \/ ShopFails \/ AskVariant \/ VariantsFound \/ AskWide
  <2>1. UNCHANGED resolved
    BY <1>11 DEF Identify, Structured, Loose, ShopFails, AskVariant, VariantsFound, AskWide, session
  <2> QED  BY <1>2, <2>1
<1>12. ~Seed
  BY DEF Seed
<1> QED
  BY <1>3, <1>4, <1>5, <1>6, <1>7, <1>8, <1>9, <1>10, <1>11, <1>12 DEF Next

(* Seed stores a run that is claimed for the key it is stored at.          *)
LEMMA SeedStores ==
  ASSUME TypeOK, Memory, Seed
  PROVE  \/ UNCHANGED resolved
         \/ /\ at <= Len(batch) /\ phase' = "seed" /\ at' = at + 1 /\ item.key \in Keys
            /\ selection[item.key] \in Runs
            /\ resolved' = Stored(resolved, item.key, selection[item.key])
            /\ \A k \in {item.key, NameOf[selection[item.key]]} :
                 selection[item.key] \in Claims(k)
<1>1. WorldType /\ PlaceType /\ Len(batch) \in Nat
  BY TypeParts, Lengths
<1>2. CASE at > Len(batch)
  BY <1>2 DEF Seed
<1>3. CASE ~(at > Len(batch))
  <2>1. at <= Len(batch)
    BY <1>1, <1>3 DEF PlaceType
  <2>2. item.key \in Keys
    BY <2>1, ItemsKey
  <2>3. CASE item.kind = "book" \/ selection[item.key] = "none"
    BY <1>3, <2>3 DEF Seed
  <2>4. CASE ~(item.kind = "book" \/ selection[item.key] = "none")
    <3>1. selection \in [Keys -> Runs \cup {"none"}]
      BY <1>1, AuditAssumption DEF WorldType, AuditAssumption
    <3>2. selection[item.key] \in Runs
      BY <2>2, <2>4, <3>1
    <3>3. resolved' = Stored(resolved, item.key, selection[item.key])
      BY <1>3, <2>4 DEF Seed
    <3>4. \A k \in {item.key, NameOf[selection[item.key]]} : selection[item.key] \in Claims(k)
      BY <2>2, <3>2 DEF Claims
    <3> QED  BY <1>3, <2>1, <2>2, <3>2, <3>3, <3>4 DEF Seed
  <2> QED  BY <2>3, <2>4
<1> QED  BY <1>2, <1>3

Steady ==
  \A k \in Keys : resolved[k] \in Runs /\ ~Clash(k) => resolved'[k] = resolved[k]

LEMMA StoredWhere ==
  ASSUME NEW map, NEW key, NEW r, NEW k \in Keys
  PROVE  Stored(map, key, r)[k] = IF k \in {key, NameOf[r]} THEN r ELSE map[k]
BY DEF Stored

LEMMA NoAnswerIsARun == "unasked" \notin Runs /\ "ambiguous" \notin Runs
BY AuditAssumption DEF AuditAssumption

(* What the session keeps of a series does not change, once it is a run.   *)
LEMMA StepIsSteady == ASSUME TypeOK, Memory, [Next]_vars PROVE Steady
<1> USE DEF Memory
<1> SUFFICES ASSUME NEW k \in Keys, resolved[k] \in Runs, ~Clash(k)
             PROVE  resolved'[k] = resolved[k]
  BY DEF Steady
<1>1. CASE phase = "seed"
  <2>1. Seed \/ UNCHANGED resolved
    BY <1>1 DEF Next, OpenIssue, OpenShops, AskRuns, Probe, Decide, DecideLongest, Exhausted,
       InRun, Search, Relaxed, Fail, Identify, Structured, Loose, ShopFails, AskVariant,
       VariantsFound, AskWide, NextItem, Finished, Asking, vars, session
  <2>2. CASE Seed /\ ~UNCHANGED resolved
    <3> DEFINE r == selection[item.key]
    <3>1. /\ resolved' = Stored(resolved, item.key, r)
          /\ \A j \in {item.key, NameOf[r]} : r \in Claims(j)
      BY <2>2, SeedStores
    <3>2. resolved[k] \in Claims(k)
      BY <1>1 DEF OnlyClaimed
    <3>3. CASE k \in {item.key, NameOf[r]}
      <4>1. resolved'[k] = r /\ r \in Claims(k)
        BY <3>1, <3>3, StoredWhere
      <4> QED  BY <3>2, <4>1 DEF Clash
    <3>4. CASE k \notin {item.key, NameOf[r]}
      BY <3>1, <3>4, StoredWhere
    <3> QED  BY <3>3, <3>4
  <2> QED  BY <2>1, <2>2
<1>2. CASE phase # "seed"
  <2>1. PICK map : Learns(map) /\ Fills(map, resolved')
    BY <1>2, StepLearns
  <2>2. map[k] = resolved[k]
    <3>1. CASE map = StoredNone(resolved, item.key) /\ resolved[item.key] \notin Runs
      <4>1. resolved \in Resolutions
        BY TypeParts
      <4> QED  BY <3>1, <4>1 DEF StoredNone, Resolutions
    <3>2. ASSUME NEW r \in Runs, Learnable(r), map = Stored(resolved, item.key, r)
          PROVE  map[k] = resolved[k]
      <4>1. CASE k = item.key
        BY <3>2, <4>1, StoredWhere DEF Learnable
      <4>2. CASE k # item.key /\ k = NameOf[r]
        <5>1. map[k] = r
          BY <3>2, <4>2, StoredWhere
        <5>2. r \in {resolved[item.key], resolved[item.base]}
          BY <3>2, <4>2 DEF Learnable, MatchingRuns
        <5>3. item.key \in Keys /\ item.base \in Keys
          BY <1>2, ItemsKey, TypeParts DEF PlaceType
        <5>4. resolved[NameOf[r]] = r
          BY <3>2, <4>2, <5>2, <5>3 DEF RunsAnswerToTheirNames
        <5> QED  BY <4>2, <5>1, <5>4
      <4>3. CASE k \notin {item.key, NameOf[r]}
        BY <3>2, <4>3, StoredWhere
      <4> QED  BY <4>1, <4>2, <4>3
    <3> QED  BY <2>1, <3>1, <3>2 DEF Learns
  <2> QED  BY <2>1, <2>2, NoAnswerIsARun DEF Fills
<1> QED  BY <1>1, <1>2

(* Where a run that is new to a key comes from. *)
LEMMA NewRuns ==
  ASSUME TypeOK, Memory, [Next]_vars, NEW k \in Keys,
         resolved'[k] \in Runs, resolved'[k] # resolved[k]
  PROVE  \/ NameOf[resolved'[k]] = k
         \/ /\ at <= Len(batch) /\ k = item.key
            /\ \/ resolved'[k] = selection[k] /\ phase = "seed"
               \/ resolved'[k] = resolved[item.base]
               \/ resolved'[k] \in MatchingRuns(item)
            /\ \/ resolved'[NameOf[resolved'[k]]] = resolved'[k]
               \/ NameOf[resolved'[k]] \notin Keys
<1> USE DEF Memory
<1>1. CASE phase = "seed"
  <2>1. Seed \/ UNCHANGED resolved
    BY <1>1 DEF Next, OpenIssue, OpenShops, AskRuns, Probe, Decide, DecideLongest, Exhausted,
       InRun, Search, Relaxed, Fail, Identify, Structured, Loose, ShopFails, AskVariant,
       VariantsFound, AskWide, NextItem, Finished, Asking, vars, session
  <2> DEFINE r == selection[item.key]
  <2>2. at <= Len(batch) /\ resolved' = Stored(resolved, item.key, r)
    BY <2>1, SeedStores
  <2>3. k \in {item.key, NameOf[r]} /\ resolved'[k] = r
    BY <2>2, StoredWhere
  <2>4. NameOf[r] \in Keys => resolved'[NameOf[r]] = r
    BY <2>2, StoredWhere
  <2> QED  BY <1>1, <2>2, <2>3, <2>4
<1>2. CASE phase # "seed"
  <2>1. PICK map : Learns(map) /\ Fills(map, resolved')
    BY <1>2, StepLearns
  <2>2. at <= Len(batch)
    BY <1>2, TypeParts DEF PlaceType
  <2>3. CASE map[k] = "unasked" /\ resolved'[k] # map[k]
    BY <2>1, <2>3 DEF Fills
  <2>4. CASE resolved'[k] = map[k]
    <3>1. ~(map = StoredNone(resolved, item.key))
      <4>1. resolved \in Resolutions
        BY TypeParts
      <4> QED  BY <2>4, <4>1, NoAnswerIsARun DEF StoredNone, Resolutions
    <3>2. PICK r \in Runs : Learnable(r) /\ map = Stored(resolved, item.key, r)
      BY <2>1, <2>4, <3>1 DEF Learns
    <3>3. k \in {item.key, NameOf[r]} /\ resolved'[k] = r
      BY <2>4, <3>2, StoredWhere
    <3>4. ASSUME NameOf[r] \in Keys PROVE resolved'[NameOf[r]] = r
      <4>1. map[NameOf[r]] = r
        BY <3>2, <3>4, StoredWhere
      <4> QED  BY <2>1, <3>4, <4>1, NoAnswerIsARun DEF Fills
    <3>5. r = resolved[item.base] \/ r \in MatchingRuns(item) \/ k # item.key
      BY <2>4, <3>2, <3>3 DEF Learnable
    <3> QED  BY <2>2, <3>3, <3>4, <3>5
  <2> QED  BY <2>1, <2>3, <2>4 DEF Fills
<1> QED  BY <1>1, <1>2

LEMMA InitMemory == Init => Memory
<1> SUFFICES ASSUME Init PROVE Memory
  OBVIOUS
<1>1. \A k \in Keys : resolved[k] \notin Runs
  BY NoAnswerIsARun DEF Init
<1>2. phase = "seed" /\ todo = {} /\ hits = {} /\ longest = {}
  BY DEF Init
<1> QED  BY <1>1, <1>2 DEF Memory, RunsAnswerToTheirNames, OnlyClaimed, Undecided, ProbesMatch

LEMMA NextNames == ASSUME TypeOK, Memory, [Next]_vars PROVE RunsAnswerToTheirNames'
<1> SUFFICES ASSUME NEW k \in Keys, resolved'[k] \in Runs
             PROVE  LET n == NameOf[resolved'[k]] IN resolved'[n] = resolved'[k] \/ Clash(n)
  BY WorldStays DEF RunsAnswerToTheirNames
<1> DEFINE n == NameOf[resolved'[k]]
<1>1. n \in Keys
  BY AuditAssumption DEF AuditAssumption
<1>2. CASE resolved'[k] = resolved[k]
  <2>1. resolved[n] = resolved[k] \/ Clash(n)
    BY <1>2 DEF Memory, RunsAnswerToTheirNames
  <2>2. resolved[n] = resolved[k] /\ ~Clash(n) => resolved'[n] = resolved[n]
    BY <1>1, <1>2, StepIsSteady DEF Steady
  <2> QED  BY <1>2, <2>1, <2>2
<1>3. CASE resolved'[k] # resolved[k]
  BY <1>1, <1>3, NewRuns
<1> QED  BY <1>2, <1>3

LEMMA NextClaimed == ASSUME TypeOK, Memory, [Next]_vars PROVE OnlyClaimed'
<1> SUFFICES ASSUME phase' = "seed", NEW k \in Keys, resolved'[k] \in Runs
             PROVE  resolved'[k] \in Claims(k)
  BY WorldStays DEF OnlyClaimed
<1>1. Seed \/ UNCHANGED <<resolved, phase>>
  BY DEF Next, OpenIssue, OpenShops, FirstRung, AskRuns, Probe, Decide, DecideLongest, Settle,
     Ambiguous, Answered, Exhausted, InRun, Search, Relaxed, Fail, Identify, Structured, Loose,
     ShopFails, NextShop, Stay, AskVariant, VariantsFound, AskWide, Concluded, NextItem,
     Finished, vars, session
<1>2. phase = "seed"
  BY <1>1 DEF Seed
<1>3. CASE UNCHANGED resolved
  BY <1>2, <1>3 DEF Memory, OnlyClaimed
<1>4. CASE Seed /\ ~UNCHANGED resolved
  <2> DEFINE r == selection[item.key]
  <2>1. resolved' = Stored(resolved, item.key, r)
        /\ \A j \in {item.key, NameOf[r]} : r \in Claims(j)
    BY <1>4, SeedStores
  <2>2. CASE k \in {item.key, NameOf[r]}
    BY <2>1, <2>2, StoredWhere
  <2>3. CASE k \notin {item.key, NameOf[r]}
    BY <1>2, <2>1, <2>3, StoredWhere DEF Memory, OnlyClaimed
  <2> QED  BY <2>2, <2>3
<1> QED  BY <1>1, <1>3, <1>4

(* The steps that leave an item's probes alone, or put an end to them. *)
LEMMA NextProbes == ASSUME TypeOK, Memory, [Next]_vars PROVE Undecided' /\ ProbesMatch'
<1> USE DEF Memory
<1>1. CASE OpenIssue
  <2>1. item' = item /\ UNCHANGED <<todo, hits, longest>> /\ phase = "open"
    BY <1>1, SameItem DEF OpenIssue, probing
  <2>2. phase' \notin {"probe", "longest"} /\ phase \notin {"probe", "longest"}
    BY <1>1 DEF OpenIssue
  <2>3. phase' = "runs" => resolved[ResolvedKey(item)] = "unasked"
    BY <1>1 DEF OpenIssue
  <2>4. phase' = "runs" => resolved'[item.key] \notin Runs
    <3>1. resolved[ResolvedKey(item)] = "unasked" => resolved[item.key] \notin Runs
      BY NoAnswerIsARun DEF ResolvedKey
    <3> QED  BY <1>1, <2>3, <3>1, NoAnswerIsARun DEF OpenIssue
  <2> QED  BY <2>1, <2>2, <2>4 DEF Undecided, ProbesMatch
<1>2. CASE AskRuns
  <2>1. item' = item /\ UNCHANGED <<hits, longest>> /\ phase = "runs"
    BY <1>2, SameItem DEF AskRuns
  <2>2. hits = {} /\ longest = {} /\ todo = {} /\ resolved[item.key] \notin Runs
    BY <2>1 DEF ProbesMatch, Undecided
  <2>3. \/ /\ phase' = "probe" /\ UNCHANGED resolved /\ todo' \subseteq MatchingRuns(item)
        \/ phase' \notin {"runs", "probe", "longest"} /\ UNCHANGED todo
    BY <1>2 DEF AskRuns, FirstOf
  <2>4. MatchingRuns(item)' = MatchingRuns(item)
    BY <2>1 DEF MatchingRuns
  <2> QED  BY <2>1, <2>2, <2>3, <2>4 DEF Undecided, ProbesMatch
<1>3. CASE Probe
  <2>1. item' = item /\ UNCHANGED <<phase, resolved>> /\ phase \in {"probe", "longest"}
    BY <1>3, SameItem DEF Probe
  <2>2. PICK r \in todo : todo' \cup hits' \cup longest' \subseteq todo \cup hits \cup longest \cup {r}
    BY <1>3 DEF Probe
  <2>3. MatchingRuns(item)' = MatchingRuns(item)
    BY <2>1 DEF MatchingRuns
  <2> QED  BY <2>1, <2>2, <2>3 DEF Undecided, ProbesMatch
<1>4. CASE Decide \/ DecideLongest \/ Exhausted
  <2>1. item' = item /\ phase \in {"probe", "longest"}
    BY <1>4, SameItem DEF Decide, DecideLongest, Exhausted
  <2>2. \/ /\ phase' = "longest" /\ todo' = hits /\ UNCHANGED <<resolved, hits, longest>>
        \/ /\ todo' = {} /\ hits' = {} /\ longest' = {}
           /\ phase' \notin {"runs", "probe", "longest"}
    BY <1>4 DEF Decide, DecideLongest, Exhausted, ProbingOver, Settle, Ambiguous, Answered
  <2>3. MatchingRuns(item)' = MatchingRuns(item)
    BY <2>1 DEF MatchingRuns
  <2> QED  BY <2>1, <2>2, <2>3 DEF Undecided, ProbesMatch
<1>5. CASE Fail
  BY <1>5 DEF Fail, ProbingOver, Undecided, ProbesMatch
<1>6. CASE Seed \/ OpenShops \/ NextItem \/ InRun \/ Search \/ Relaxed
  <2>1. /\ UNCHANGED <<todo, hits, longest>>
        /\ phase \notin {"probe", "longest"} /\ phase' \notin {"runs", "probe", "longest"}
    BY <1>6 DEF Seed, OpenShops, FirstRung, NextItem, InRun, Search, Relaxed, Answered, probing
  <2> QED  BY <2>1 DEF Undecided, ProbesMatch
<1>7. CASE Identify \/ Structured \/ Loose \/ ShopFails \/ AskVariant \/ VariantsFound \/ AskWide
  <2>1. /\ UNCHANGED <<todo, hits, longest>>
        /\ phase \notin {"probe", "longest"} /\ phase' \notin {"runs", "probe", "longest"}
    BY <1>7 DEF Identify, Structured, Loose, ShopFails, AskVariant, VariantsFound, AskWide,
       NextShop, Stay, Concluded, FirstRung, probing
  <2> QED  BY <2>1 DEF Undecided, ProbesMatch
<1>8. CASE Finished \/ UNCHANGED vars
  <2>1. UNCHANGED <<item, phase, resolved, todo, hits, longest>>
    BY <1>8 DEF Finished, vars, world, session, probing, item
  <2> QED  BY <2>1 DEF Undecided, ProbesMatch, MatchingRuns
<1> QED  BY <1>1, <1>2, <1>3, <1>4, <1>5, <1>6, <1>7, <1>8 DEF Next

(* The session's memory is sound in every audit. *)
LEMMA MemoryHolds == Spec => []Memory
<1>1. ASSUME TypeOK, Memory, [Next]_vars PROVE Memory'
  BY <1>1, NextNames, NextClaimed, NextProbes DEF Memory
<1> QED  BY <1>1, InitMemory, TypeCorrect, PTL DEF Spec

(* A series keeps the run it was resolved to for the rest of the audit,    *)
(* whatever the providers answer later.                                    *)
THEOREM ResolutionsLast == Spec => ResolutionStable
<1>1. ASSUME TypeOK, Memory, [Next]_vars
      PROVE  [\A k \in Keys : resolved[k] \in Runs /\ ~Clash(k)
                => resolved'[k] = resolved[k]]_vars
  BY <1>1, StepIsSteady DEF Steady
<1> QED  BY <1>1, MemoryHolds, TypeCorrect, PTL DEF Spec, ResolutionStable

(* A title's name without its credit carries no second one: _run_alias_    *)
(* keys cuts at the first "by", so that a credit could only be left over   *)
(* where punctuation hides it.                                             *)
OneCredit ==
  \A b \in Batches : \A m, n \in 1..Len(b) : b[m].key = b[n].base => b[m].base = b[m].key

Fits(k, r) == NameOf[r] \in Names(k) \/ \E n \in Names(k) : selection[n] = r

LEMMA NamesOfTheItem ==
  ASSUME TypeOK, at <= Len(batch)
  PROVE  /\ \A k : k \in Names(k)
         /\ item.base \in Names(item.key)
         /\ OneCredit => Names(item.base) \subseteq Names(item.key)
<1>1. at \in 1..Len(batch) /\ batch[at] = item /\ batch \in Batches
  BY TypeParts, Lengths DEF PlaceType, WorldType, item
<1>2. item.base \in Names(item.key)
  BY <1>1 DEF Names
<1>3. ASSUME OneCredit PROVE Names(item.base) = {item.base}
  <2>1. ASSUME NEW n \in 1..Len(batch), batch[n].key = item.base
        PROVE  batch[n].base = item.base
    BY <1>1, <1>3, <2>1 DEF OneCredit
  <2> QED  BY <2>1 DEF Names
<1> QED  BY <1>2, <1>3 DEF Names

LEMMA NextFits ==
  ASSUME OneCredit, TypeOK, Memory, ResolvedByName, [Next]_vars
  PROVE  ResolvedByName'
<1>1. \A k, r : Fits(k, r)' = Fits(k, r)
  BY WorldStays DEF world, Fits, Names
<1> SUFFICES ASSUME NEW k \in Keys, resolved'[k] \in Runs PROVE Fits(k, resolved'[k])
  BY <1>1 DEF Fits, ResolvedByName
<1>2. CASE resolved'[k] = resolved[k]
  BY <1>2 DEF Fits, ResolvedByName
<1>3. CASE resolved'[k] # resolved[k]
  <2>1. CASE NameOf[resolved'[k]] = k
    BY <2>1 DEF Names, Fits
  <2>2. CASE at <= Len(batch) /\ k = item.key /\ resolved'[k] = selection[k]
    BY <2>2 DEF Names, Fits
  <2>3. CASE at <= Len(batch) /\ k = item.key /\ resolved'[k] = resolved[item.base]
    <3>1. item.base \in Keys
      BY <2>3, ItemsKey
    <3>2. Fits(item.base, resolved[item.base])
      BY <2>3, <3>1 DEF ResolvedByName, Fits
    <3>3. Names(item.base) \subseteq Names(k)
      BY <2>3, NamesOfTheItem
    <3> QED  BY <2>3, <3>2, <3>3 DEF Fits
  <2>4. CASE at <= Len(batch) /\ k = item.key /\ resolved'[k] \in MatchingRuns(item)
    BY <2>4 DEF MatchingRuns, Names, Fits
  <2> QED  BY <1>3, <2>1, <2>2, <2>3, <2>4, NewRuns
<1> QED  BY <1>2, <1>3

(* A series is only ever given a run of its own name, or one a user chose. *)
THEOREM ResolvedOnlyByName == OneCredit => (Spec => []ResolvedByName)
<1> SUFFICES ASSUME OneCredit PROVE Spec => []ResolvedByName
  OBVIOUS
<1>1. Init => ResolvedByName
  BY NoAnswerIsARun DEF Init, ResolvedByName
<1> QED  BY <1>1, NextFits, MemoryHolds, TypeCorrect, PTL DEF Spec

-----------------------------------------------------------------------------
(* Who is asked about an item, and when *)

LEMMA ItsKind ==
  ASSUME TypeOK, at <= Len(batch)
  PROVE  Uncollected(item) \/ item.kind = "book" \/ item.kind = "collection"
BY ItemType DEF Items, Kinds, Uncollected

LEMMA NextLadder == ASSUME TypeOK, OnItsLadder, [Next]_vars PROVE OnItsLadder'
<1>1. CASE Seed \/ OpenIssue \/ OpenShops \/ AskRuns \/ Probe \/ Decide \/ DecideLongest
  <2>1. CASE Seed
    BY <2>1 DEF Seed, OnItsLadder, Asking, Shopping
  <2>2. CASE OpenIssue
    <3>1. item' = item /\ Uncollected(item)
      BY <2>2, SameItem DEF OpenIssue
    <3>2. phase' \in {"plain", "runs", "fallback", "in_run"} /\ (phase' = "plain" => item.number = 0)
      BY <2>2 DEF OpenIssue
    <3> QED  BY <3>1, <3>2 DEF OnItsLadder, Asking, Shopping
  <2>3. CASE OpenShops
    <3>1. item' = item /\ ~Uncollected(item) /\ phase' = FirstRung(item) /\ at <= Len(batch)
      BY <2>3, SameItem, TypeParts DEF OpenShops, PlaceType
    <3> QED  BY <3>1, ItsKind DEF OnItsLadder, Asking, Shopping, FirstRung
  <2>4. CASE AskRuns \/ Probe \/ Decide \/ DecideLongest
    <3>1. item' = item /\ phase \in Asking
      BY <2>4, SameItem DEF AskRuns, Probe, Decide, DecideLongest, Asking
    <3>2. phase' \in {"probe", "fallback", "in_run", "longest", "relaxed", "scored"}
      BY <2>4 DEF AskRuns, Probe, Decide, DecideLongest, Settle, Ambiguous, Answered
    <3> QED  BY <3>1, <3>2 DEF OnItsLadder, Asking, Shopping
  <2> QED  BY <1>1, <2>1, <2>2, <2>3, <2>4
<1>2. CASE Exhausted \/ InRun \/ Search \/ Relaxed \/ Fail \/ NextItem \/ Finished \/ UNCHANGED vars
  <2>1. CASE Exhausted \/ InRun \/ Search \/ Relaxed \/ Fail
    <3>1. item' = item /\ phase \in Asking
      BY <2>1, SameItem DEF Exhausted, InRun, Search, Relaxed, Fail, Asking
    <3>2. phase' \in {"fallback", "relaxed", "scored"}
      BY <2>1 DEF Exhausted, InRun, Search, Relaxed, Fail, Ambiguous, Answered
    <3> QED  BY <3>1, <3>2 DEF OnItsLadder, Asking, Shopping
  <2>2. CASE NextItem
    BY <2>2 DEF NextItem, OnItsLadder, Asking, Shopping
  <2>3. CASE Finished \/ UNCHANGED vars
    BY <2>3 DEF Finished, vars, world, OnItsLadder, item
  <2> QED  BY <1>2, <2>1, <2>2, <2>3
<1>3. CASE Identify \/ Structured \/ Loose \/ ShopFails \/ AskVariant \/ VariantsFound \/ AskWide
  <2>1. item' = item /\ ~Uncollected(item) /\ at <= Len(batch)
    BY <1>3, SameItem, TypeParts
    DEF Identify, Structured, Loose, ShopFails, AskVariant, VariantsFound, AskWide,
        OnItsLadder, Shopping, PlaceType
  <2>2. item.kind = "book" \/ item.kind = "collection"
    BY <2>1, ItsKind
  <2>3. \/ NextShop
        \/ phase' = "structured" /\ item.kind = "book"
        \/ phase' = "variants" /\ item.kind # "book"
        \/ phase' = "loose" /\ phase = "structured" /\ (item.writes # {} \/ item.series)
        \/ phase' \in {"variants", "wide"} /\ phase = "variants"
    BY <1>3 DEF Identify, Structured, Loose, ShopFails, AskVariant, VariantsFound, AskWide,
       Concluded, Stay
  <2>4. CASE NextShop
    <3>1. phase' \in {FirstRung(item), "scored"}
      BY <2>4 DEF NextShop
    <3> QED  BY <2>1, <2>2, <3>1 DEF FirstRung, OnItsLadder, Asking, Shopping
  <2>5. CASE ~NextShop
    BY <2>1, <2>2, <2>3, <2>5 DEF OnItsLadder, Asking, Shopping
  <2> QED  BY <2>4, <2>5
<1> QED  BY <1>1, <1>2, <1>3 DEF Next

LEMMA LadderHolds == Spec => []OnItsLadder
<1>1. Init => OnItsLadder
  BY DEF Init, OnItsLadder, Asking, Shopping
<1> QED  BY <1>1, NextLadder, TypeCorrect, PTL DEF Spec

(* A choice read from the run groups is still remembered when its item is  *)
(* opened.                                                                 *)
LEMMA NextSeeded ==
  ASSUME TypeOK, Memory, Seeded, [Next]_vars PROVE Seeded'
<1>1. UNCHANGED <<batch, selection>> /\ \A i : Chosen(i)' = Chosen(i)
  BY WorldStays DEF world, Chosen
<1>2. ASSUME NEW n \in 1..Len(batch), Chosen(batch[n])
      PROVE  batch[n].key \in Keys /\ selection[batch[n].key] \in Runs /\ ~Clash(batch[n].key)
  <2>1. batch \in Seq(Items)
    BY AuditAssumption DEF AuditAssumption, TypeOK
  <2>2. batch[n] \in Items
    BY <2>1
  <2>3. batch[n].key \in Keys
    BY <2>2 DEF Items
  <2> QED  BY <1>2, <2>3 DEF Chosen
<1> SUFFICES ASSUME NEW n \in 1..Len(batch), phase' = "seed" => n < at', Chosen(batch[n])
             PROVE  resolved'[batch[n].key] = selection[batch[n].key]
  BY <1>1 DEF Seeded
<1> DEFINE k == batch[n].key
<1>3. CASE phase = "seed" => n < at
  <2>1. resolved[k] = selection[k]
    BY <1>3 DEF Seeded
  <2> QED  BY <1>2, <2>1, StepIsSteady DEF Steady
<1>4. CASE phase = "seed" /\ ~(n < at)
  <2>1. /\ at \in Nat /\ Len(batch) \in Nat /\ WorldType /\ PlaceType
    BY TypeParts, Lengths DEF PlaceType
  <2>2. Seed
    <3>1. Seed \/ UNCHANGED <<phase, at>>
      BY <1>4 DEF Next, OpenIssue, OpenShops, AskRuns, Probe, Decide, DecideLongest, Exhausted,
         InRun, Search, Relaxed, Fail, Identify, Structured, Loose, ShopFails, AskVariant,
         VariantsFound, AskWide, NextItem, Finished, Asking, vars
    <3> QED  BY <1>4, <3>1
  <2>3. at <= Len(batch) /\ n = at /\ item = batch[n]
    BY <1>4, <2>1, <2>2 DEF Seed, item
  <2>4. Uncollected(item) /\ k \in Keys /\ selection[k] \in Runs
    BY <1>2, <2>3 DEF Chosen
  <2>5. resolved' = Stored(resolved, item.key, selection[item.key])
    <3>1. selection[item.key] # "none"
      BY <2>3, <2>4, AuditAssumption DEF AuditAssumption
    <3> QED  BY <2>1, <2>2, <2>3, <2>4, <3>1 DEF Seed, Uncollected
  <2> QED  BY <2>3, <2>4, <2>5, StoredWhere
<1> QED  BY <1>3, <1>4

LEMMA SeededHolds == Spec => []Seeded
<1>1. Init => Seeded
  <2> SUFFICES ASSUME Init PROVE \A n \in 1..Len(batch) : ~(n < at)
    BY DEF Init, Seeded
  <2> QED  BY DEF Init
<1> QED  BY <1>1, NextSeeded, MemoryHolds, TypeCorrect, PTL DEF Spec

LEMMA NextFollowed ==
  ASSUME TypeOK, Seeded, OnItsLadder, ChoiceFollowed, [Next]_vars
  PROVE  ChoiceFollowed'
<1> DEFINE chosen == selection[item.key]
<1>1. \A i : Held(i)' = Held(i)
  BY WorldStays DEF world, Held, Chosen
<1>2. UNCHANGED world
  BY WorldStays
<1>3. CASE phase' \notin Asking \cup {"scored"}
  BY <1>3 DEF ChoiceFollowed, SelectionDecides
<1>4. CASE phase' \in Asking \cup {"scored"}
  <2>1. at' = at /\ item' = item
    <3>1. UNCHANGED at
      BY <1>4 DEF Next, Seed, OpenIssue, OpenShops, AskRuns, Probe, Decide, DecideLongest,
         Exhausted, InRun, Search, Relaxed, Fail, Identify, Structured, Loose, ShopFails,
         AskVariant, VariantsFound, AskWide, NextItem, Finished, Asking, vars
    <3> QED  BY <1>2, <3>1, SameItem
  <2> SUFFICES ASSUME Uncollected(item) /\ Held(item)
               PROVE  /\ phase' \in Asking => phase' = "in_run"
                      /\ phase' = "scored" /\ "comic_vine" \notin refused' =>
                           found' # {} /\ \A c \in found' : c.run = chosen
    BY <1>1, <1>2, <2>1 DEF ChoiceFollowed, SelectionDecides, Held, Chosen, world
  <2>2. phase \notin Shopping
    BY DEF OnItsLadder
  <2>3. phase \in Asking => phase = "in_run"
    BY DEF ChoiceFollowed
  <2>4. CASE OpenIssue
    <3>1. at \in 1..Len(batch) /\ item = batch[at] /\ phase # "seed"
      BY <2>4, TypeParts, Lengths DEF OpenIssue, PlaceType, item
    <3>2. resolved[item.key] = chosen /\ chosen \in Runs
      BY <3>1 DEF Seeded, Held, Chosen
    <3>3. ResolvedKey(item) = item.key
      BY <3>2 DEF ResolvedKey
    <3>4. phase' = "in_run"
      BY <2>4, <3>2, <3>3, NoAnswerIsARun DEF OpenIssue, Held
    <3> QED  BY <3>4
  <2>5. CASE InRun
    <3>1. at \in 1..Len(batch) /\ item = batch[at] /\ phase # "seed"
      BY <2>5, TypeParts, Lengths DEF InRun, PlaceType, item
    <3>2. resolved[item.key] = chosen /\ chosen \in Runs
      BY <3>1 DEF Seeded, Held, Chosen
    <3>3. ResolvedKey(item) = item.key
      BY <3>2 DEF ResolvedKey
    <3>4. Answered(IssuesIn(item, {chosen})) /\ found' = IssuesIn(item, {chosen})
      BY <2>5, <3>2, <3>3, AllIssues DEF InRun, Answered
    <3>5. IssuesIn(item, {chosen}) # {} /\ \A c \in IssuesIn(item, {chosen}) : c.run = chosen
      <4>1. <<chosen, item.number>> \in catalogue
        BY DEF Held
      <4>2. Issue(item, chosen, item.number, chosen \in DatedRuns) \in IssuesIn(item, {chosen})
        BY <4>1 DEF IssuesIn
      <4>3. ASSUME NEW c \in IssuesIn(item, {chosen}) PROVE c.run = chosen
        <5>1. PICK r \in {chosen} : c = Issue(item, r, item.number, r \in DatedRuns)
          BY <4>3 DEF IssuesIn
        <5> QED  BY <5>1 DEF Issue
      <4> QED  BY <4>2, <4>3
    <3> QED  BY <3>4, <3>5 DEF Answered, Asking
  <2>6. CASE Fail
    BY <2>6 DEF Fail, Asking
  <2>7. CASE AskRuns \/ Probe \/ Decide \/ DecideLongest \/ Exhausted \/ Search \/ Relaxed
    BY <2>3, <2>7 DEF AskRuns, Probe, Decide, DecideLongest, Exhausted, Search, Relaxed, Asking
  <2>8. CASE Identify \/ Structured \/ Loose \/ ShopFails \/ AskVariant \/ VariantsFound \/ AskWide
    BY <2>2, <2>8 DEF Identify, Structured, Loose, ShopFails, AskVariant, VariantsFound, AskWide,
       Shopping
  <2>9. CASE Seed \/ OpenShops \/ NextItem
    BY <1>4, <2>9 DEF Seed, OpenShops, NextItem, Asking
  <2>10. CASE Finished \/ UNCHANGED vars
    <3>1. UNCHANGED <<phase, refused, found>>
      BY <2>10 DEF Finished, vars, answers
    <3> QED  BY <2>3, <3>1 DEF ChoiceFollowed, SelectionDecides, Held, Chosen
  <2> QED  BY <2>4, <2>5, <2>6, <2>7, <2>8, <2>9, <2>10 DEF Next
<1> QED  BY <1>3, <1>4

(* A user's choice of a run decides what an issue is matched with.         *)
THEOREM SelectionsDecide == Spec => []SelectionDecides
<1>1. Init => ChoiceFollowed
  BY DEF Init, ChoiceFollowed, SelectionDecides, Asking
<1>2. ChoiceFollowed => SelectionDecides
  BY DEF ChoiceFollowed
<1> QED
  BY <1>1, <1>2, NextFollowed, SeededHolds, LadderHolds, TypeCorrect, PTL DEF Spec

-----------------------------------------------------------------------------
(* No candidate means that everybody was asked *)

(* An attempt noted as answered troubles nobody, a failed one its provider,*)
(* and neither takes back what was noted before.                           *)
LEMMA HereNotes ==
  ASSUME NEW p, NEW s \in Strategies, NEW o \in Outcomes, Here(p, s, o)
  PROVE  /\ <<p, s, o>> \in attempts' /\ attempts \subseteq attempts'
         /\ \A q : Troubled(q)' => Troubled(q) \/ (q = p /\ o = "error")
BY DEF Here, Troubled

LEMMA OneOfTheShops ==
  ASSUME LadderType
  PROVE  /\ shop \in 1..Len(Shops) /\ Len(Shops) \in Nat /\ Seller = Shops[shop]
         /\ Range(Shops) = {Shops[m] : m \in 1..Len(Shops)}
<1>1. Shops \in Seq(Range(Shops))
  BY AuditAssumption DEF AuditAssumption
<1>2. DOMAIN Shops = 1..Len(Shops)
  BY <1>1
<1> QED  BY <1>2, Lengths DEF LadderType, Seller, Range

(* Done with a provider that was heard out or noted as failing. *)
LEMMA LeaveShop ==
  ASSUME LadderType, NextShop, item' = item, ~Uncollected(item),
         \A p \in Range(Shops) : Troubled(p)' => p \in refused',
         \A m \in 1..(shop - 1) : Heeded(Shops[m])',
         \A p : p = Seller => Heeded(p)'
  PROVE  Recorded'
<1>1. shop \in 1..Len(Shops) /\ Len(Shops) \in Nat /\ \A m \in 1..shop : Heeded(Shops[m])'
  <2>1. shop \in 1..Len(Shops) /\ Len(Shops) \in Nat
    BY OneOfTheShops
  <2>2. ASSUME NEW m \in 1..shop PROVE Heeded(Shops[m])'
    <3>1. m \in 1..(shop - 1) \/ Shops[m] = Seller
      BY <2>1, <2>2 DEF Seller
    <3> QED  BY <3>1
  <2> QED  BY <2>1, <2>2
<1>2. CASE shop < Len(Shops)
  <2>1. shop' = shop + 1 /\ phase' = FirstRung(item)
    BY <1>2 DEF NextShop
  <2>2. phase' \in Shopping /\ phase' \notin Asking \cup {"seed", "open", "scored"}
    BY <2>1 DEF FirstRung, Shopping, Asking
  <2>3. shop' - 1 = shop
    BY <1>1, <2>1
  <2> QED  BY <1>1, <2>2, <2>3 DEF Recorded, NoCandidateMeansAsked
<1>3. CASE ~(shop < Len(Shops))
  <2>1. phase' = "scored" /\ shop = Len(Shops)
    BY <1>1, <1>3 DEF NextShop
  <2>2. ASSUME NEW p \in Applicable(item), p \notin refused'
        PROVE  HeardOut(p)' /\ ~Troubled(p)'
    <3>1. p \in Range(Shops)
      BY <2>2 DEF Applicable
    <3>2. PICK m \in 1..shop : p = Shops[m]
      BY <2>1, <3>1, OneOfTheShops
    <3> QED  BY <1>1, <2>2, <3>1, <3>2 DEF Heeded
  <2>3. NoCandidateMeansAsked'
    BY <2>2 DEF NoCandidateMeansAsked, Troubled, Applicable
  <2> QED  BY <2>1, <2>3 DEF Recorded, Asking, Shopping
<1> QED  BY <1>2, <1>3

(* Staying with a provider. *)
LEMMA StayWithShop ==
  ASSUME shop' = shop, phase' \in Shopping,
         found' = {} =>
           /\ \A p \in Range(Shops) : Troubled(p)' =>
                p \in refused' \/ (p = Seller /\ phase' \in {"variants", "wide"} /\ Failed')
           /\ \A m \in 1..(shop - 1) : Heeded(Shops[m])'
  PROVE  Recorded'
<1>1. phase' \notin Asking \cup {"seed", "open", "scored"} /\ Seller' = Seller
  BY DEF Shopping, Asking, Seller
<1> QED  BY <1>1 DEF Recorded, NoCandidateMeansAsked

LEMMA AnyFound ==
  ASSUME phase' \in Shopping \cup {"scored"}, found' # {}
  PROVE  Recorded'
BY DEF Recorded, NoCandidateMeansAsked, Shopping, Asking

LEMMA ShopRecorded ==
  ASSUME TypeOK, OnItsLadder, Recorded,
         Identify \/ Structured \/ Loose \/ ShopFails \/ AskVariant \/ VariantsFound \/ AskWide
  PROVE  Recorded'
<1>1. LadderType /\ item' = item /\ phase \in Shopping /\ ~Uncollected(item)
  BY TypeParts, SameItem DEF Identify, Structured, Loose, ShopFails, AskVariant, VariantsFound,
     AskWide, OnItsLadder, Shopping
<1>2. phase' \in Shopping \cup {"scored"}
  BY DEF Identify, Structured, Loose, ShopFails, AskVariant, VariantsFound, AskWide, NextShop,
     Stay, Concluded, FirstRung, Shopping
<1>3. CASE found' # {}
  BY <1>2, <1>3, AnyFound
<1>4. CASE found' = {}
  <2>1. found = {}
    BY <1>4 DEF Identify, Structured, Loose, ShopFails, AskVariant, VariantsFound, AskWide
  <2>2. /\ \A p \in Range(Shops) : Troubled(p) =>
             p \in refused \/ (p = Seller /\ phase \in {"variants", "wide"} /\ Failed)
        /\ \A m \in 1..(shop - 1) : Heeded(Shops[m])
    BY <1>1, <2>1 DEF Recorded
  <2>3. ASSUME attempts \subseteq attempts', refused \subseteq refused'
        PROVE  \A m \in 1..(shop - 1) : Heeded(Shops[m])'
    BY <1>1, <2>2, <2>3 DEF Heeded, HeardOut
  <2>4. CASE Identify
    <3>1. /\ Here(Seller, "identifier", "ok") /\ UNCHANGED refused /\ phase = "identify"
          /\ Stay(IF item.kind = "book" THEN "structured" ELSE "variants")
      BY <1>4, <2>4 DEF Identify
    <3>2. attempts \subseteq attempts' /\ \A q : Troubled(q)' => Troubled(q)
      BY <3>1, HereNotes DEF Strategies, Outcomes
    <3>3. shop' = shop /\ phase' \in Shopping
      BY <3>1 DEF Stay, ladder, Shopping
    <3> QED  BY <2>2, <2>3, <3>1, <3>2, <3>3, StayWithShop
  <2>5. CASE Structured
    <3>1. /\ Here(Seller, "structured", "ok") /\ UNCHANGED refused /\ phase = "structured"
          /\ IF item.writes # {} \/ item.series THEN Stay("loose") ELSE NextShop
      BY <1>4, <2>5 DEF Structured
    <3>2. /\ attempts \subseteq attempts' /\ \A q : Troubled(q)' => Troubled(q)
          /\ <<Seller, "structured", "ok">> \in attempts'
      BY <3>1, HereNotes DEF Strategies, Outcomes
    <3>3. CASE item.writes # {} \/ item.series
      <4>1. shop' = shop /\ phase' \in Shopping
        BY <3>1, <3>3 DEF Stay, ladder, Shopping
      <4> QED  BY <2>2, <2>3, <3>1, <3>2, <4>1, StayWithShop
    <3>4. CASE ~(item.writes # {} \/ item.series)
      <4>1. NextShop /\ LastResort(item) = "structured"
        BY <2>5, <3>1, <3>4 DEF LastResort, OnItsLadder
      <4>2. ASSUME NEW p, p = Seller PROVE Heeded(p)'
        BY <4>2, <1>1, <3>2, <4>1, <3>1 DEF Heeded, HeardOut, LastResort
      <4>3. \A p \in Range(Shops) : Troubled(p)' => p \in refused'
        BY <2>2, <3>1, <3>2
      <4>4. \A m \in 1..(shop - 1) : Heeded(Shops[m])'
        BY <2>3, <3>1, <3>2
      <4> QED  BY <1>1, <4>1, <4>2, <4>3, <4>4, LeaveShop
    <3> QED  BY <3>3, <3>4
  <2>6. CASE Loose
    <3>1. Here(Seller, "relaxed", "ok") /\ UNCHANGED refused /\ phase = "loose" /\ NextShop
      BY <2>6 DEF Loose
    <3>2. /\ attempts \subseteq attempts' /\ \A q : Troubled(q)' => Troubled(q)
          /\ <<Seller, "relaxed", "ok">> \in attempts'
      BY <3>1, HereNotes DEF Strategies, Outcomes
    <3>3. LastResort(item) = "relaxed"
      BY <3>1 DEF LastResort, OnItsLadder
    <3>4. ASSUME NEW p, p = Seller PROVE Heeded(p)'
      BY <3>4, <1>1, <3>2, <3>3 DEF Heeded, HeardOut, LastResort
    <3>5. \A p \in Range(Shops) : Troubled(p)' => p \in refused'
      BY <2>2, <3>1, <3>2
    <3>6. \A m \in 1..(shop - 1) : Heeded(Shops[m])'
      BY <2>3, <3>1, <3>2
    <3> QED  BY <1>1, <3>1, <3>4, <3>5, <3>6, LeaveShop
  <2>7. CASE ShopFails
    <3>1. /\ Here(Seller, "provider-request", "error") /\ refused' = refused \cup {Seller}
          /\ phase \in {"identify", "structured", "loose"} /\ NextShop
      BY <2>7 DEF ShopFails
    <3>2. /\ attempts \subseteq attempts' /\ \A q : Troubled(q)' => Troubled(q) \/ q = Seller
      BY <3>1, HereNotes DEF Strategies, Outcomes
    <3>3. ASSUME NEW p, p = Seller PROVE Heeded(p)'
      BY <3>1, <3>3 DEF Heeded
    <3>4. \A p \in Range(Shops) : Troubled(p)' => p \in refused'
      BY <2>2, <3>1, <3>2
    <3>5. \A m \in 1..(shop - 1) : Heeded(Shops[m])'
      BY <2>3, <3>1, <3>2
    <3> QED  BY <1>1, <3>1, <3>3, <3>4, <3>5, LeaveShop
  <2>8. CASE AskVariant
    <3>1. /\ UNCHANGED <<phase, shop, refused>> /\ phase = "variants"
          /\ Here(Seller, "collection", "ok") \/ Here(Seller, "collection", "error")
      BY <2>8 DEF AskVariant
    <3>2. Seller' = Seller
      BY <3>1 DEF Seller
    <3>3. CASE Here(Seller, "collection", "ok")
      <4>1. attempts \subseteq attempts' /\ \A q : Troubled(q)' => Troubled(q)
        BY <3>3, HereNotes DEF Strategies, Outcomes
      <4>2. Failed => Failed'
        BY <3>2, <4>1 DEF Failed
      <4> QED  BY <1>1, <2>2, <2>3, <3>1, <4>1, <4>2, StayWithShop
    <3>4. CASE Here(Seller, "collection", "error")
      <4>1. /\ attempts \subseteq attempts' /\ \A q : Troubled(q)' => Troubled(q) \/ q = Seller
            /\ <<Seller, "collection", "error">> \in attempts'
        BY <3>4, HereNotes DEF Strategies, Outcomes
      <4>2. Failed'
        BY <3>2, <4>1 DEF Failed
      <4> QED  BY <1>1, <2>2, <2>3, <3>1, <4>1, <4>2, StayWithShop
    <3> QED  BY <3>1, <3>3, <3>4
  <2>9. CASE VariantsFound
    <3>1. FoundHere = {}
      BY <2>1 DEF FoundHere
    <3>2. /\ phase = "variants" /\ phase' = "wide" /\ UNCHANGED <<shop, variant, attempts, refused>>
      BY <2>9, <3>1 DEF VariantsFound, Stay, ladder
    <3>3. Seller' = Seller /\ (Failed' <=> Failed) /\ (\A q : Troubled(q)' => Troubled(q))
      BY <3>2 DEF Seller, Failed, Troubled
    <3>4. phase' \in Shopping
      BY <3>2 DEF Shopping
    <3> QED  BY <2>2, <2>3, <3>2, <3>3, <3>4, StayWithShop
  <2>10. CASE AskWide
    <3>1. PICK o \in {"ok", "error"} :
            /\ Here(Seller, "relaxed", o) /\ NextShop
            /\ refused' = IF o = "error" \/ Failed THEN refused \cup {Seller} ELSE refused
      BY <1>4, <2>10 DEF AskWide, Concluded
    <3>2. /\ attempts \subseteq attempts' /\ <<Seller, "relaxed", o>> \in attempts'
          /\ \A q : Troubled(q)' => Troubled(q) \/ (q = Seller /\ o = "error")
      BY <3>1, HereNotes DEF Strategies, Outcomes
    <3>3. LastResort(item) = "relaxed"
      BY <2>10 DEF AskWide, LastResort, OnItsLadder
    <3>4. ASSUME NEW p, p = Seller PROVE Heeded(p)'
      <4>1. Seller \in refused' \/ <<Seller, LastResort(item), "ok">> \in attempts'
        BY <3>1, <3>2, <3>3
      <4>2. <<Seller, "relaxed", "ok">> \in attempts' \/ Seller \in refused'
        BY <3>3, <4>1
      <4> QED  BY <1>1, <3>3, <3>4, <4>2 DEF Heeded, HeardOut, LastResort
    <3>5. \A p \in Range(Shops) : Troubled(p)' => p \in refused'
      BY <2>2, <3>1, <3>2
    <3>6. refused \subseteq refused'
      BY <3>1
    <3>7. \A m \in 1..(shop - 1) : Heeded(Shops[m])'
      BY <2>3, <3>2, <3>6
    <3> QED  BY <1>1, <3>1, <3>4, <3>5, <3>7, LeaveShop
  <2> QED  BY <2>4, <2>5, <2>6, <2>7, <2>8, <2>9, <2>10
<1> QED  BY <1>3, <1>4

(* Comic Vine's answer ends the search or widens it. *)
LEMMA AnsweredRecorded ==
  ASSUME ~Troubled("comic_vine"), Uncollected(item), item' = item,
         NEW values, Answered(values), Outcome(values) = "volumes" => item.number = 0
  PROVE  Recorded'
<1>1. /\ ~Troubled("comic_vine")'
      /\ <<"comic_vine", "comic-issue", Outcome(values)>> \in attempts'
  <2>1. Here("comic_vine", "comic-issue", Outcome(values))
    BY DEF Answered
  <2>2. "comic-issue" \in Strategies /\ Outcome(values) \in Outcomes /\ Outcome(values) # "error"
    BY DEF Strategies, Outcomes, Outcome
  <2> QED  BY <2>1, <2>2, HereNotes
<1>2. CASE values = {}
  <2>1. found' = {} /\ phase' = "relaxed"
    BY <1>2 DEF Answered, Identities
  <2> QED  BY <1>1, <2>1 DEF Recorded, NoCandidateMeansAsked, Asking, Shopping
<1>3. CASE Identities(values) # {}
  <2>1. found' # {} /\ phase' = "scored"
    BY <1>3 DEF Answered, Identities
  <2> QED  BY <2>1 DEF Recorded, NoCandidateMeansAsked, Asking, Shopping
<1>4. CASE values # {} /\ Identities(values) = {}
  <2>1. Outcome(values) = "volumes" /\ phase' = "scored" /\ item.number = 0
    BY <1>4 DEF Outcome, Answered
  <2>2. Applicable(item') = {"comic_vine"} /\ Uncollected(item') /\ item'.number = 0
    BY <2>1 DEF Applicable
  <2>3. HeardOut("comic_vine")'
    BY <1>1, <2>1, <2>2 DEF HeardOut
  <2>4. NoCandidateMeansAsked'
    BY <1>1, <2>2, <2>3 DEF NoCandidateMeansAsked, Troubled
  <2> QED  BY <2>1, <2>4 DEF Recorded, Asking, Shopping
<1> QED  BY <1>2, <1>3, <1>4

LEMMA StillAsking ==
  ASSUME Recorded, phase \in Asking, phase' \in Asking, UNCHANGED answers
  PROVE  Recorded'
BY DEF Recorded, NoCandidateMeansAsked, Asking, Shopping, Troubled, answers

LEMMA ComicRecorded ==
  ASSUME OnItsLadder, Recorded,
         AskRuns \/ Probe \/ Decide \/ DecideLongest \/ Exhausted \/ InRun \/ Search
           \/ Relaxed \/ Fail
  PROVE  Recorded'
<1>1. phase \in Asking /\ item' = item
  BY SameItem DEF AskRuns, Probe, Decide, DecideLongest, Exhausted, InRun, Search, Relaxed, Fail,
     Asking
<1>2. Uncollected(item) /\ found = {} /\ ~Troubled("comic_vine")
  BY <1>1 DEF OnItsLadder, Recorded
<1>3. CASE AskRuns \/ Probe \/ Decide \/ DecideLongest \/ Exhausted \/ InRun \/ Search
  <2>1. \/ \E values : Answered(values) /\ (Outcome(values) = "volumes" => item.number = 0)
        \/ phase' \in Asking /\ UNCHANGED answers
    <3>1. CASE AskRuns \/ Probe
      BY <1>1, <3>1 DEF AskRuns, Probe, Asking
    <3>2. CASE Decide \/ DecideLongest \/ Exhausted \/ InRun
      <4>1. \/ \E S : Answered(IssuesIn(item, S))
            \/ phase' \in Asking /\ UNCHANGED answers
        BY <3>2 DEF Decide, DecideLongest, Exhausted, InRun, Settle, Ambiguous, Asking, answers
      <4>2. \A S : Outcome(IssuesIn(item, S)) # "volumes"
        BY AllIssues DEF Outcome
      <4> QED  BY <4>1, <4>2
    <3>3. CASE Search
      <4>1. PICK values : \/ phase = "plain" /\ Answered(values)
                         \/ Answered(Identities(values))
        BY <3>3 DEF Search
      <4>2. Identities(Identities(values)) = Identities(values)
        BY DEF Identities
      <4>3. Outcome(Identities(values)) # "volumes"
        BY <4>2 DEF Outcome
      <4>4. phase = "plain" => item.number = 0
        BY DEF OnItsLadder
      <4> QED  BY <4>1, <4>3, <4>4
    <3> QED  BY <1>3, <3>1, <3>2, <3>3
  <2> QED  BY <1>1, <1>2, <2>1, AnsweredRecorded, StillAsking
<1>4. CASE Relaxed
  <2>1. PICK values : Here("comic_vine", "relaxed", Outcome(values)) /\ phase' = "scored"
    BY <1>4 DEF Relaxed
  <2>2. "relaxed" \in Strategies /\ Outcome(values) \in Outcomes \ {"error"}
    BY DEF Strategies, Outcomes, Outcome
  <2>3. <<"comic_vine", "relaxed", Outcome(values)>> \in attempts' /\ ~Troubled("comic_vine")'
    BY <1>2, <2>1, <2>2, HereNotes
  <2>4. Applicable(item') = {"comic_vine"} /\ LastResort(item') = "relaxed"
    BY <1>1, <1>2 DEF Applicable, LastResort, Uncollected
  <2>5. Outcome(values) \in {"ok", "volumes"}
    BY DEF Outcome
  <2>6. HeardOut("comic_vine")'
    BY <2>3, <2>4, <2>5 DEF HeardOut
  <2>7. NoCandidateMeansAsked'
    BY <2>3, <2>4, <2>6 DEF NoCandidateMeansAsked, Troubled
  <2> QED  BY <2>1, <2>7 DEF Recorded, Asking, Shopping
<1>5. CASE Fail
  <2>1. phase' = "scored" /\ "comic_vine" \in refused'
    BY <1>5 DEF Fail
  <2>2. Applicable(item') = {"comic_vine"}
    BY <1>1, <1>2 DEF Applicable
  <2>3. NoCandidateMeansAsked'
    BY <2>1, <2>2 DEF NoCandidateMeansAsked
  <2> QED  BY <2>1, <2>3 DEF Recorded, Asking, Shopping
<1> QED  BY <1>3, <1>4, <1>5

LEMMA NextRecorded == ASSUME TypeOK, OnItsLadder, Recorded, [Next]_vars PROVE Recorded'
<1>1. CASE Seed \/ OpenIssue \/ OpenShops
  <2>1. found = {} /\ refused = {} /\ attempts = {} /\ UNCHANGED <<found, refused, attempts>>
    BY <1>1 DEF Seed, OpenIssue, OpenShops, Recorded, answers
  <2>2. \A p : ~Troubled(p)'
    BY <2>1 DEF Troubled
  <2>3. CASE Seed \/ OpenIssue
    <3>1. phase' \notin Shopping \cup {"scored"}
      BY <2>3 DEF Seed, OpenIssue, Shopping
    <3> QED  BY <2>1, <2>2, <3>1 DEF Recorded, NoCandidateMeansAsked
  <2>4. CASE OpenShops
    <3>1. phase' \in Shopping /\ shop' = 1
      BY <2>4 DEF OpenShops, FirstRung, Shopping
    <3>2. phase' \notin Asking \cup {"seed", "open", "scored"} /\ 1..(shop' - 1) = {}
      BY <3>1 DEF Shopping, Asking
    <3> QED  BY <2>2, <3>2 DEF Recorded, NoCandidateMeansAsked
  <2> QED  BY <1>1, <2>3, <2>4
<1>2. CASE NextItem
  BY <1>2 DEF NextItem, Recorded, NoCandidateMeansAsked, Asking, Shopping
<1>3. CASE Finished \/ UNCHANGED vars
  <2>1. UNCHANGED <<phase, shop, item, found, refused, attempts>>
    BY <1>3 DEF Finished, vars, world, ladder, answers, item
  <2>2. (\A p : Troubled(p)' <=> Troubled(p)) /\ Seller' = Seller /\ (Failed' <=> Failed)
    BY <2>1 DEF Troubled, Seller, Failed
  <2>3. (\A p : Heeded(p)' <=> Heeded(p)) /\ (NoCandidateMeansAsked' <=> NoCandidateMeansAsked)
    BY <2>1 DEF Heeded, HeardOut, LastResort, NoCandidateMeansAsked, Applicable
  <2> QED  BY <2>1, <2>2, <2>3 DEF Recorded
<1> QED  BY <1>1, <1>2, <1>3, ComicRecorded, ShopRecorded DEF Next

(* An item left without a candidate and without a word about a provider    *)
(* was asked of that provider to the last and widest query, or is a comic  *)
(* without a number of which the first search found volumes.               *)
THEOREM SilenceMeansAsked == Spec => []NoCandidateMeansAsked
<1>1. Init => Recorded
  BY DEF Init, Recorded, NoCandidateMeansAsked, Asking, Shopping
<1>2. Recorded => NoCandidateMeansAsked
  BY DEF Recorded
<1> QED
  BY <1>1, <1>2, NextRecorded, LadderHolds, TypeCorrect, PTL DEF Spec
=============================================================================
