---------------------------- MODULE AuditSession ----------------------------
(***************************************************************************)
(* One audit (audit.run_audit): the candidate session resolves the run of  *)
(* each comic series once (candidates.CandidateSession), generate_         *)
(* candidates asks the providers for every item in turn, and the scorer    *)
(* ranks what they answered.                                               *)
(*                                                                         *)
(* Comic Vine holds the issues of "catalogue"; what its free-text search   *)
(* returns is any few of them, with or without their run's start year, and *)
(* of its runs, which it calls volumes.                                    *)
(* The book shops hold the records of Shelf and answer a query with any    *)
(* few of their own.  Every request may raise ProviderError.               *)
(***************************************************************************)
EXTENDS Matching, Sequences, SequencesExt, FiniteSets

CONSTANTS
  Batches,     \* the sequences of items an audit may be run over
  Catalogues,  \* sets of <<run, number>>: the issues Comic Vine may hold
  Selections,  \* series key -> run a user chose for it (run_groups), or "none"
  Keys,        \* series keys (_run_key)
  Numbers,     \* issue numbers
  NameOf,      \* run -> key of its series name
  Runs,        \* Comic Vine's runs
  Rank,        \* run -> its place in what a run search lists
  IssueOf,     \* run -> number -> the issue's [id, year on the cover]
  DatedRuns,   \* runs Comic Vine knows the start year of
  Likeness,    \* series key -> run name -> title band
  Shelf,       \* item id -> the records of the book shops, as they compare
  Shops,       \* the book providers in order
  Rejected,    \* item id -> candidate ids its standing rejections suppress
  MaxRuns,     \* CandidateSession.max_ambiguous_runs
  MaxProbes,   \* CandidateSession.max_disambiguation_queries
  Variants,    \* query variants of a collection (_collection_book_queries)
  MaxHits      \* bound: candidates in one search answer

Ids == Runs \cup {IssueOf[r][n].id : r \in Runs, n \in Numbers}
         \cup UNION {{c.id : c \in Shelf[i]} : i \in DOMAIN Shelf}

(* A local item: with titled and writes, the runs whose issue bears its    *)
(* title and whose writers it names, empty when it names none; for a book  *)
(* or a collection, writes is just the creators it names.                  *)
Items ==
  [id : DOMAIN Shelf, kind : Kinds, key : Keys, base : Keys, number : Nat,
   year : Nat, sure : BOOLEAN, titled : SUBSET Runs, writes : SUBSET STRING,
   isbn : BOOLEAN, series : BOOLEAN]

Providers == Range(Shops) \cup {"comic_vine"}

Records == Candidates(Ids, Providers, Runs \cup {"none"})

ASSUME AuditAssumption ==
  /\ \A b \in Batches : b \in Seq(Items) /\ b # <<>>
  /\ Numbers \subseteq Nat
  /\ \A c \in Catalogues : c \subseteq Runs \X Numbers
  /\ \A s \in Selections : s \in [Keys -> Runs \cup {"none"}]
  /\ Rank \in [Runs -> Nat] /\ {"none", "unasked", "ambiguous"} \cap Runs = {}
  /\ NameOf \in [Runs -> Keys] /\ DatedRuns \subseteq Runs
  /\ IssueOf \in [Runs -> [Numbers -> [id : Ids, year : Nat]]]
  /\ Likeness \in [Keys -> [{NameOf[r] : r \in Runs} -> TitleBands]]
  /\ \A i \in DOMAIN Shelf : Shelf[i] \subseteq Records
  /\ Shops \in Seq(Range(Shops)) /\ Shops # <<>>
  /\ MaxRuns \in Nat /\ MaxProbes \in Nat /\ Variants \in Nat /\ MaxHits \in Nat

VARIABLES
  batch, catalogue, selection,   \* the world of this audit
  resolved,   \* session.resolved_runs: "unasked", or "ambiguous" for None
  probes,     \* session.run_disambiguation_queries
  at,         \* the item being worked on
  phase,      \* what is asked next
  shop,       \* the book provider being asked
  variant,    \* the collection query being asked, one past the last at the end
  todo,       \* runs still to probe
  hits,       \* runs whose probe found the issue
  longest,    \* runs whose probe found the last issue of the series
  found,      \* output: the candidates
  heard,      \* available
  refused,    \* unavailable
  attempts    \* ProviderAttempts: <<provider, strategy, outcome>>, where
              \* "volumes" is an answer with nothing but records of that type

world == <<batch, catalogue, selection>>
session == <<resolved, probes>>
probing == <<todo, hits, longest>>
answers == <<found, heard, refused, attempts>>
ladder == <<shop, variant>>
vars == <<world, session, at, phase, ladder, probing, answers>>

item == batch[at]

Asking == {"runs", "probe", "longest", "in_run", "fallback", "plain", "relaxed"}
Shopping == {"identify", "structured", "loose", "variants", "wide"}

Init ==
  /\ batch \in Batches /\ catalogue \in Catalogues /\ selection \in Selections
  /\ resolved = [k \in Keys |-> "unasked"] /\ probes = 0
  /\ at = 1 /\ phase = "seed" /\ shop = 1 /\ variant = 1
  /\ todo = {} /\ hits = {} /\ longest = {}
  /\ found = {} /\ heard = {} /\ refused = {} /\ attempts = {}

-----------------------------------------------------------------------------
(* The session's memory of runs *)

(* _store_resolution: the run answers for the series and for its own name. *)
Stored(map, key, run) ==
  [k \in Keys |-> IF k \in {key, NameOf[run]} THEN run ELSE map[k]]

StoredNone(map, key) == [map EXCEPT ![key] = "ambiguous"]

(* Mutant: the key without the creator credit comes first.                 *)
ResolvedKeyLoosely(i) ==
  IF resolved[i.base] \in Runs THEN i.base ELSE i.key

(* _resolved_key: the exact key, then the one without the creator credit;  *)
(* a key with a run before one known to be ambiguous.                      *)
ResolvedKey(i) ==
  IF resolved[i.key] \in Runs THEN i.key
  ELSE IF resolved[i.base] \in Runs THEN i.base
  ELSE IF resolved[i.key] = "unasked" /\ resolved[i.base] = "ambiguous" THEN i.base
  ELSE i.key

(* Mutant: the answer replaces what the name was resolved to.              *)
RememberedAnew(map, cands) ==
  LET named(k) == {c.run : c \in {d \in cands : d.dated /\ NameOf[d.run] = k}}
  IN [k \in Keys |-> IF Cardinality(named(k)) = 1
                     THEN CHOOSE r \in named(k) : TRUE ELSE map[k]]

(* _remember_issue_runs: a name that the dated issues of an answer give to *)
(* exactly one run is resolved to it, unless the name was asked before.    *)
Remembered(map, cands) ==
  LET named(k) == {c.run : c \in {d \in cands : d.dated /\ NameOf[d.run] = k}}
  IN [k \in Keys |-> IF map[k] = "unasked" /\ Cardinality(named(k)) = 1
                     THEN CHOOSE r \in named(k) : TRUE ELSE map[k]]

(* run_max_sequences *)
LastNumber(i) ==
  LET numbers == {batch[j].number : j \in {n \in 1..Len(batch) :
                    Uncollected(batch[n]) /\ batch[n].key = i.key}}
  IN CHOOSE n \in numbers : \A m \in numbers : m <= n

(* An issue of Comic Vine as it compares with the item.                    *)
NoQualifiers == [a \in Agreements |-> 0]
Issue(i, run, number, dated) ==
  [id |-> IssueOf[run][number].id, shop |-> "comic_vine", record |-> "issue",
   title |-> Likeness[i.key][NameOf[run]],
   issueTitle |-> IF i.titled = {} THEN "none" ELSE IF run \in i.titled THEN "same" ELSE "other",
   creators |-> IF i.writes = {} THEN "none" ELSE IF run \in i.writes THEN "overlap" ELSE "disagree",
   publisher |-> "none", qualifiers |-> NoQualifiers, isbn |-> "none",
   number |-> number, source |-> "none", year |-> IssueOf[run][number].year,
   run |-> run, dated |-> dated]

(* search_issue_in_run replaces the issue's run by the one it was given.   *)
IssuesIn(i, runs) ==
  {Issue(i, r, i.number, r \in DatedRuns) : r \in {s \in runs : <<s, i.number>> \in catalogue}}

(* A volume, which no item can be.                                         *)
Volume(i, run) ==
  [id |-> run, shop |-> "comic_vine", record |-> "run", title |-> Likeness[i.key][NameOf[run]],
   issueTitle |-> "none", creators |-> "none", publisher |-> "none",
   qualifiers |-> NoQualifiers, isbn |-> "none", number |-> 0, source |-> "none", year |-> 0,
   run |-> run, dated |-> run \in DatedRuns]

(* _identity_candidates, of a comic that is no collected edition.          *)
Identities(values) == {c \in values : c.record = "issue"}

(* What ComicVineProvider.search may return of the resources issue and     *)
(* volume: the terms only steer it.                                        *)
SearchAnswers(i) ==
  {{Issue(i, p[1], p[2], p[1] \in dated) : p \in issues} \cup {Volume(i, r) : r \in listed} :
     issues \in {s \in SUBSET catalogue : Cardinality(s) <= MaxHits},
     dated \in {{}, DatedRuns},
     listed \in {s \in SUBSET Runs : Cardinality(s) <= 1}}

-----------------------------------------------------------------------------
(* run_audit: selections first, then item by item *)

Here(provider, strategy, outcome) == attempts' = attempts \cup {<<provider, strategy, outcome>>}

(* seed_resolved_run for each local series with an active decision.        *)
Seed ==
  /\ phase = "seed"
  /\ IF at > Len(batch)
     THEN at' = 1 /\ phase' = "open" /\ UNCHANGED resolved
     ELSE /\ at' = at + 1 /\ UNCHANGED phase
          /\ resolved' = IF item.kind = "book" \/ selection[item.key] = "none" THEN resolved
                         ELSE Stored(resolved, item.key, selection[item.key])
  /\ UNCHANGED <<world, probes, ladder, probing, answers>>

(* search_comic_issue: an item without a number is searched as it is; a    *)
(* series that was asked before reuses its run or its ambiguity.           *)
OpenIssue ==
  /\ phase = "open" /\ Uncollected(item)
  /\ LET known == resolved[ResolvedKey(item)]
     IN /\ phase' = IF item.number = 0 THEN "plain"
                    ELSE IF known = "unasked" THEN "runs"
                    ELSE IF known = "ambiguous" THEN "fallback" ELSE "in_run"
        /\ resolved' = IF item.number # 0 /\ known \in Runs
                       THEN Stored(resolved, item.key, known) ELSE resolved
  /\ UNCHANGED <<world, probes, at, ladder, probing, answers>>

(* generate_candidates skips Comic Vine for books and collections, and the *)
(* shops for issues.                                                       *)
FirstRung(i) ==
  IF i.isbn THEN "identify" ELSE IF i.kind = "book" THEN "structured" ELSE "variants"

OpenShops ==
  /\ phase = "open" /\ ~Uncollected(item)
  /\ phase' = FirstRung(item) /\ shop' = 1 /\ variant' = 1
  /\ UNCHANGED <<world, session, at, probing, answers>>

Outcome(values) ==
  IF values # {} /\ Identities(values) = {} THEN "volumes" ELSE "ok"

(* The comic path's answer: nothing at all asks again, relaxed; but        *)
(* volumes are something, although only issues are kept for the scorer.    *)
Answered(values) ==
  /\ found' = Identities(values)
  /\ heard' = heard \cup {"comic_vine"}
  /\ Here("comic_vine", "comic-issue", Outcome(values))
  /\ phase' = IF values = {} THEN "relaxed" ELSE "scored"
  /\ UNCHANGED refused

ProbingOver == todo' = {} /\ hits' = {} /\ longest' = {}

(* Mutant: every run the search lists is taken for one of the series.      *)
AnyRuns(i) == Runs

(* _matching_runs: of the runs a search may list, those of the series' name.*)
MatchingRuns(i) == {r \in Runs : NameOf[r] = i.key}

FirstOf(runs) == {r \in runs : Cardinality({q \in runs : Rank[q] < Rank[r]}) < MaxRuns}

(* search_runs, and which of the runs to probe when several match.         *)
AskRuns ==
  /\ phase = "runs"
  /\ \E listed \in SUBSET MatchingRuns(item) :
       IF Cardinality(listed) > 1
       THEN todo' = FirstOf(listed) /\ phase' = "probe" /\ UNCHANGED resolved
       ELSE /\ UNCHANGED todo
            /\ IF listed = {}
               THEN resolved' = StoredNone(resolved, item.key) /\ phase' = "fallback"
               ELSE /\ resolved' = Stored(resolved, item.key, CHOOSE r \in listed : TRUE)
                    /\ phase' = "in_run"
  /\ UNCHANGED <<world, probes, at, ladder, hits, longest, answers>>

(* The number that tells the runs apart: the item's, then the last one.    *)
Probed(i) == IF phase = "probe" THEN i.number ELSE LastNumber(i)

(* Mutant: the budget is compared off by one.                              *)
ProbeOnceMore ==
  /\ phase \in {"probe", "longest"} /\ todo # {} /\ probes <= MaxProbes
  /\ probes' = probes + 1
  /\ \E r \in todo :
       LET hit == {r} \cap {q \in Runs : <<q, Probed(item)>> \in catalogue}
       IN /\ todo' = todo \ {r}
          /\ IF phase = "probe" THEN hits' = hits \cup hit /\ UNCHANGED longest
             ELSE longest' = longest \cup hit /\ UNCHANGED hits
  /\ UNCHANGED <<world, resolved, at, phase, ladder, answers>>

(* _probe_issue, one request per run, as long as the budget lasts.         *)
Probe ==
  /\ phase \in {"probe", "longest"} /\ todo # {} /\ probes < MaxProbes
  /\ probes' = probes + 1
  /\ \E r \in todo :
       LET hit == {r} \cap {q \in Runs : <<q, Probed(item)>> \in catalogue}
       IN /\ todo' = todo \ {r}
          /\ IF phase = "probe" THEN hits' = hits \cup hit /\ UNCHANGED longest
             ELSE longest' = longest \cup hit /\ UNCHANGED hits
  /\ UNCHANGED <<world, resolved, at, phase, ladder, answers>>

(* _disambiguate_run's answers, which search_comic_issue stores: one run,  *)
(* with its issues, or none, with the issues of all of them.               *)
Settle(run) ==
  LET issues == IssuesIn(item, {run})
  IN /\ resolved' = Remembered(Stored(resolved, item.key, run), issues)
     /\ Answered(issues)

Ambiguous(runs) ==
  LET issues == IssuesIn(item, runs)
      none   == StoredNone(resolved, item.key)
  IN IF issues = {}
     THEN resolved' = none /\ phase' = "fallback" /\ UNCHANGED answers
     ELSE resolved' = Remembered(none, issues) /\ Answered(issues)

ByYear(i) == {r \in hits : i.year # 0 /\ IssueOf[r][i.number].year = i.year}

(* The first evidence that leaves one run: the issue itself, its cover     *)
(* year, its title.                                                        *)
Unique(i) ==
  IF Cardinality(hits) = 1 THEN hits
  ELSE IF Cardinality(ByYear(i)) = 1 THEN ByYear(i)
  ELSE IF Cardinality(hits \cap i.titled) = 1 THEN hits \cap i.titled
  ELSE {}

Decide ==
  /\ phase = "probe" /\ todo = {}
  /\ IF Unique(item) # {}
     THEN Settle(CHOOSE r \in Unique(item) : TRUE) /\ ProbingOver
     ELSE IF hits = {} \/ LastNumber(item) = item.number
     THEN Ambiguous(hits) /\ ProbingOver
     ELSE /\ todo' = hits
          /\ phase' = "longest"
          /\ UNCHANGED <<resolved, hits, longest, answers>>
  /\ UNCHANGED <<world, probes, at, ladder>>

(* The run that alone holds the last issue of the local series.            *)
DecideLongest ==
  /\ phase = "longest" /\ todo = {}
  /\ IF Cardinality(longest) = 1
     THEN Settle(CHOOSE r \in longest : TRUE) ELSE Ambiguous(hits)
  /\ ProbingOver
  /\ UNCHANGED <<world, probes, at, ladder>>

(* The budget is spent: ambiguous, with the issues only once all the runs  *)
(* were probed for the item itself.                                        *)
Exhausted ==
  /\ phase \in {"probe", "longest"} /\ todo # {} /\ probes >= MaxProbes
  /\ Ambiguous(IF phase = "probe" THEN {} ELSE hits)
  /\ ProbingOver
  /\ UNCHANGED <<world, probes, at, ladder>>

InRun ==
  /\ phase = "in_run"
  /\ LET issues == IssuesIn(item, {resolved[ResolvedKey(item)]})
     IN resolved' = Remembered(resolved, issues) /\ Answered(issues)
  /\ UNCHANGED <<world, probes, at, ladder, probing>>

(* The structured search: after an ambiguous series its answer is freed of *)
(* volumes at once, without a number it is taken as it is.                 *)
Search ==
  /\ phase \in {"fallback", "plain"}
  /\ \E values \in SearchAnswers(item) :
       IF phase = "plain" THEN UNCHANGED resolved /\ Answered(values)
       ELSE /\ resolved' = Remembered(resolved, Identities(values))
            /\ Answered(Identities(values))
  /\ UNCHANGED <<world, probes, at, ladder, probing>>

(* The relaxed search knows nothing of the run that was resolved.          *)
Relaxed ==
  /\ phase = "relaxed"
  /\ \E values \in SearchAnswers(item) :
       /\ found' = Identities(values)
       /\ Here("comic_vine", "relaxed", Outcome(values))
  /\ phase' = "scored"
  /\ UNCHANGED <<world, session, at, ladder, probing, heard, refused>>

(* ProviderError leaves the item's search; nothing is stored for a series  *)
(* whose runs were being told apart.                                       *)
Fail ==
  /\ phase \in Asking
  /\ ~(phase \in {"probe", "longest"} /\ (todo = {} \/ probes >= MaxProbes))
  /\ probes' = IF phase \in {"probe", "longest"} THEN probes + 1 ELSE probes
  /\ refused' = refused \cup {"comic_vine"}
  /\ Here("comic_vine", "provider-request", "error")
  /\ phase' = "scored" /\ ProbingOver
  /\ UNCHANGED <<world, resolved, at, ladder, found, heard>>

-----------------------------------------------------------------------------
(* The shops: generate_candidates' ladder of each book provider *)

Seller == Shops[shop]

(* collection_candidate_rejection_reason *)
Acceptable(i, c) ==
  /\ c.record \in {"collection", "edition"}
  /\ i.number # 0 => c.number = i.number

(* adapt_collection_candidate: an edition becomes a collection of no run;  *)
(* a number its title states counts only if the item has that number too.  *)
Adapted(i, c) ==
  [c EXCEPT !.record = "collection", !.run = "none", !.dated = FALSE,
            !.number = IF i.number = 0 /\ c.source # "provider" THEN 0 ELSE @]

Offered(i) ==
  LET stock == {c \in Shelf[i.id] : c.shop = Seller}
      shown == {s \in SUBSET stock : Cardinality(s) <= MaxHits}
  IN IF i.kind = "book" THEN shown
     ELSE {{Adapted(i, c) : c \in {d \in s : Acceptable(i, d)}} : s \in shown}

FoundHere == {c \in found : c.shop = Seller}

(* The next provider, or the scores when there is none.                    *)
NextShop ==
  /\ variant' = 1
  /\ IF shop < Len(Shops) THEN shop' = shop + 1 /\ phase' = FirstRung(item)
     ELSE shop' = 1 /\ phase' = "scored"

Stay(next) == phase' = next /\ UNCHANGED ladder

Heard == heard' = heard \cup {Seller}

(* lookup_identifier: a record found by its identifier ends the search.    *)
Identify ==
  /\ phase = "identify"
  /\ \E cands \in Offered(item) :
       /\ found' = found \cup cands
       /\ Here(Seller, "identifier", "ok")
       /\ IF cands = {} THEN UNCHANGED heard ELSE Heard
       /\ IF cands # {} THEN NextShop
          ELSE Stay(IF item.kind = "book" THEN "structured" ELSE "variants")
  /\ UNCHANGED <<world, session, at, probing, refused>>

Structured ==
  /\ phase = "structured"
  /\ \E cands \in Offered(item) :
       /\ found' = found \cup cands
       /\ Here(Seller, "structured", "ok")
       /\ IF cands = {} /\ (item.writes # {} \/ item.series) THEN Stay("loose") ELSE NextShop
  /\ Heard
  /\ UNCHANGED <<world, session, at, probing, refused>>

Loose ==
  /\ phase = "loose"
  /\ \E cands \in Offered(item) : found' = found \cup cands
  /\ Here(Seller, "relaxed", "ok")
  /\ NextShop
  /\ UNCHANGED <<world, session, at, probing, heard, refused>>

(* A book's ladder is left at its first ProviderError, and so is a         *)
(* collection's while its identifiers are looked up.                       *)
ShopFails ==
  /\ phase \in {"identify", "structured", "loose"}
  /\ refused' = refused \cup {Seller}
  /\ Here(Seller, "provider-request", "error")
  /\ NextShop
  /\ UNCHANGED <<world, session, at, probing, found, heard>>

Failed == <<Seller, "collection", "error">> \in attempts
Responded == <<Seller, "collection", "ok">> \in attempts

(* _search_collection_provider: each variant on its own, so that one       *)
(* failure is not fatal.                                                   *)
AskVariant ==
  /\ phase = "variants" /\ variant <= Variants
  /\ variant' = variant + 1
  /\ \/ /\ \E cands \in Offered(item) : found' = found \cup cands
        /\ Here(Seller, "collection", "ok")
     \/ Here(Seller, "collection", "error") /\ UNCHANGED found
  /\ UNCHANGED <<world, session, at, phase, shop, probing, heard, refused>>

(* Mutant: a failed query is noted only if none was answered.              *)
ConcludedBySilence(cands, responded, failed) ==
  /\ heard' = IF responded THEN heard \cup {Seller} ELSE heard
  /\ refused' = IF failed /\ ~responded THEN refused \cup {Seller} ELSE refused
  /\ NextShop

(* The provider was heard if any query was answered, and is noted as       *)
(* failing if a query failed and nothing was found.                        *)
Concluded(cands, responded, failed) ==
  /\ heard' = IF responded THEN heard \cup {Seller} ELSE heard
  /\ refused' = IF failed /\ cands = {} THEN refused \cup {Seller} ELSE refused
  /\ NextShop

VariantsFound ==
  /\ phase = "variants" /\ variant > Variants
  /\ IF FoundHere = {} THEN Stay("wide") /\ UNCHANGED <<heard, refused>>
     ELSE Concluded(FoundHere, Responded, Failed)
  /\ UNCHANGED <<world, session, at, probing, found, attempts>>

AskWide ==
  /\ phase = "wide"
  /\ \/ \E cands \in Offered(item) :
          /\ found' = found \cup cands
          /\ Here(Seller, "relaxed", "ok")
          /\ Concluded(cands, TRUE, Failed)
     \/ /\ Here(Seller, "relaxed", "error") /\ UNCHANGED found
        /\ Concluded({}, Responded, TRUE)
  /\ UNCHANGED <<world, session, at, probing>>

(* The item is scored and stored; the next one is opened.                  *)
NextItem ==
  /\ phase = "scored"
  /\ IF at < Len(batch) THEN at' = at + 1 /\ phase' = "open"
     ELSE phase' = "done" /\ UNCHANGED at
  /\ found' = {} /\ heard' = {} /\ refused' = {} /\ attempts' = {}
  /\ UNCHANGED <<world, session, ladder, probing>>

Finished == phase = "done" /\ UNCHANGED vars

Next ==
  \/ Seed \/ OpenIssue \/ OpenShops
  \/ AskRuns \/ Probe \/ Decide \/ DecideLongest \/ Exhausted
  \/ InRun \/ Search \/ Relaxed \/ Fail
  \/ Identify \/ Structured \/ Loose \/ ShopFails
  \/ AskVariant \/ VariantsFound \/ AskWide
  \/ NextItem \/ Finished

Spec == Init /\ [][Next]_vars

-----------------------------------------------------------------------------
(* Properties *)

Strategies == {"comic-issue", "relaxed", "provider-request", "identifier",
               "structured", "collection"}
Outcomes == {"ok", "volumes", "error"}

(* Every variable holds a value of its kind; in particular the candidates  *)
(* are records the scorer can compare.                                     *)
TypeOK ==
  /\ batch \in Batches /\ catalogue \in Catalogues /\ selection \in Selections
  /\ resolved \in [Keys -> Runs \cup {"unasked", "ambiguous"}]
  /\ probes \in 0..MaxProbes
  /\ at \in 1..(Len(batch) + 1) /\ (phase # "seed" => at <= Len(batch))
  /\ phase \in Asking \cup Shopping \cup {"seed", "open", "scored", "done"}
  /\ shop \in 1..Len(Shops) /\ variant \in 1..(Variants + 1)
  /\ todo \subseteq Runs /\ hits \subseteq Runs /\ longest \subseteq Runs
  /\ found \subseteq Records
  /\ heard \subseteq Providers /\ refused \subseteq Providers
  /\ attempts \subseteq Providers \X Strategies \X Outcomes

Named(c) == c.title \in {"exact", "same", "close"} \/ c.isbn = "same"

RightIssue(i, c) ==
  /\ c.record = "issue" /\ Named(c)
  /\ i.number # 0 => c.number = i.number
  /\ i.kind = "issue" =>
       /\ c.dated
       /\ i.number # 0 /\ c.title = "exact" =>
            ~\E d \in found : /\ d.title = "exact" /\ d.number = i.number
                              /\ {c.run, d.run} \subseteq Runs /\ c.run # d.run

RightCollection(i, c) ==
  /\ c.publisher # "other"
  /\ c.qualifiers["other"] = 0 /\ c.qualifiers["missing"] = 0
  /\ BothDated(i, c) => i.year = c.year
  /\ \/ Named(c) \/ (c.number # 0 /\ c.source # "provider_title")
     \/ c.qualifiers["same"] + c.qualifiers["close"] > 1

(* score_candidates' promise: a candidate that may be accepted unseen is   *)
(* the item.  An issue or a one-shot bears the item's number and series    *)
(* title; an issue's run has a start year besides, and no other run of     *)
(* that very name offers the number, neither of which is asked of a        *)
(* one-shot; a book's title or ISBN agrees; a collection's publisher, qualifiers and *)
(* year do not conflict, and unless its title or ISBN agrees the record    *)
(* states its number itself or two of its edition qualifiers agree.        *)
EligibleIsRight ==
  phase = "scored" =>
    \A c \in found :
      Eligible(item, c, found, Rejected[item.id]) =>
        /\ Uncollected(item) => RightIssue(item, c)
        /\ item.kind = "book" => Named(c)
        /\ item.kind = "collection" => RightCollection(item, c)

(* The runs that users' selections claim for a series key, as the run of   *)
(* that series or as a run of that name.                                   *)
Claims(k) ==
  {selection[j] : j \in {x \in Keys : /\ selection[x] \in Runs
                                      /\ x = k \/ NameOf[selection[x]] = k}}

Clash(k) == \E r, s \in Claims(k) : r # s

(* A user's choice of a run decides: if the chosen run holds the issue,    *)
(* and Comic Vine answered, the candidates are that run's and no other's,  *)
(* unless another series' chosen run bears this series' name.              *)
SelectionDecides ==
  LET chosen == selection[item.key]
  IN (/\ phase = "scored" /\ Uncollected(item) /\ item.number # 0
      /\ chosen \in Runs /\ ~Clash(item.key)
      /\ <<chosen, item.number>> \in catalogue
      /\ "comic_vine" \notin refused)
     => found # {} /\ \A c \in found : c.run = chosen

(* A series is resolved to a run only if the run bears its name, with or   *)
(* without the creator credit, or a user chose it for the series or for    *)
(* the name without the credit.                                            *)
Names(k) == {k} \cup {batch[j].base : j \in {n \in 1..Len(batch) : batch[n].key = k}}

ResolvedByName ==
  \A k \in Keys :
    resolved[k] \in Runs =>
      \/ NameOf[resolved[k]] \in Names(k)
      \/ \E n \in Names(k) : selection[n] = resolved[k]

(* A series keeps the run it was resolved to for the rest of the audit,    *)
(* whatever later answers show, unless two selections claim its key.       *)
ResolutionStable ==
  [][\A k \in Keys :
       resolved[k] \in Runs /\ ~Clash(k) => resolved'[k] = resolved[k]]_vars

(* An item is left without candidates and without a word about a provider  *)
(* only if every query of that provider was answered, the last and widest  *)
(* included: "no candidate" never hides a failure.  Only a comic without a *)
(* number may be given up before, when its first search found volumes.     *)
Applicable(i) == IF Uncollected(i) THEN {"comic_vine"} ELSE Range(Shops)

LastResort(i) ==
  IF i.kind = "book" /\ i.writes = {} /\ ~i.series THEN "structured" ELSE "relaxed"

HeardOut(p) ==
  \/ \E o \in {"ok", "volumes"} : <<p, LastResort(item), o>> \in attempts
  \/ Uncollected(item) /\ item.number = 0 /\ <<p, "comic-issue", "volumes">> \in attempts

NoCandidateMeansAsked ==
  phase = "scored" /\ found = {} =>
    \A p \in Applicable(item) \ refused :
      /\ HeardOut(p)
      /\ ~\E s \in Strategies : <<p, s, "error">> \in attempts
=============================================================================
