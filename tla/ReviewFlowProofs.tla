-------------------------- MODULE ReviewFlowProofs --------------------------
(***************************************************************************)
(* What holds of guided reviews for any sources, candidates, runs and      *)
(* number of decisions, whatever the operator answers, however apply runs  *)
(* end and wherever the wizard dies: nothing but an answer overrules an    *)
(* explicit outcome, a completed review plans all of what it accepted and  *)
(* nothing older, but for what was accepted in spite of the chosen run,    *)
(* and resuming never leads away from work.                                *)
(***************************************************************************)
EXTENDS ReviewFlow, WellFoundedInduction, SequenceTheorems, TLAPS

----------------------------------------------------------------------------
(* The inductive invariant, in parts *)

(* What is in doubt in this session: a source a pass would take up.        *)
Open(s) == NeedsReview(history[s], session.seen[s], session.heads[s])

(* The answer that stands for a source, if it authorizes it.               *)
Standing(s) == Latest(history[s]).subject

(* Every history ends with an answer the wizard can record: an identity it *)
(* authorizes is one a candidate gives or the user typed, and a candidate  *)
(* without its run year follows the override that confirms the year.       *)
Answerable ==
  \A s \in Sources : LatestIs(s, Authorizing) =>
    /\ Standing(s) \in Subjects
    /\ LatestIs(s, {"manual_identity"}) => Standing(s) = Manual
    /\ Standing(s) \in Yearless => "run_start_year" \in Edits(history[s])

(* A baseline is a row that exists.                                        *)
HeadsBehind == \A s \in Sources : session.heads[s] <= HeadId(s)

(* A choice of the run made in a pass is noticed when the pass is over.    *)
GroupKnown ==
  /\ session.pc \in {"item", "confirm", "batch"} => session.group = Len(choices)
  /\ session.pc = "mark" => session.group # Len(choices)

(* The audit is one of the run that is selected now.                       *)
Current ==
  \/ session.pc \in {"check", "item", "confirm", "batch", "prompt"}
  \/ session.pc = "after" /\ session.group = Len(choices)

ShownIsSelected == Current => session.shown = SelectedRun

(* It knows the rejections of every source that is still to be reviewed.   *)
RejectionsKnown ==
  Current =>
    \A s \in session.items, c \in Candidates :
      Open(s) /\ Suppressed(history[s], c, session.seen[s]) => <<s, c>> \in session.rejected

(* What a pass has not decided is still open, so is what a batch has not   *)
(* accepted, and what is to be reopened is still unresolved.               *)
PassOpen ==
  /\ session.pc = "reopen" => \A s \in session.rest : LatestIs(s, {"unresolved"})
  /\ session.pc \in {"item", "confirm"} =>
       /\ session.scope \subseteq session.items
       /\ session.todo \subseteq session.scope \ session.decided
       /\ \A s \in session.scope \ session.decided : Open(s)
  /\ session.pc = "confirm" =>
       /\ session.todo # {} /\ session.cand \in Displayed(At)
       /\ "run_start_year" \in Edits(history[At])
  /\ session.pc = "batch" =>
       /\ session.rest \subseteq session.items
       /\ \A s \in session.rest : Open(s) /\ BatchEligible(s)

(* A review that goes on to planning with nothing left has nothing open.   *)
NothingOpen ==
  /\ session.pc = "plan" /\ session.left = {} => \A s \in session.items : ~Open(s)
  /\ session.pc = "prompt" => session.left # {}

(* An acceptance the last choice of the run has looked at is of that run,  *)
(* or was given after that choice.                                         *)
MarkedAgree ==
  \A s \in Comics \ unmarked : LatestIs(s, Authorizing) =>
    RunAgrees(SelectedRun, [as |-> Standing(s)]) \/ under[s] = Len(choices)

(* The plans the wizard offers to go on with: a draft is what its sources' *)
(* decisions and run choice still say, so is what a run was interrupted in.*)
Offered == {"draft", "interrupted"}

DraftCurrent ==
  plan.state \in Offered =>
    \A s \in plan.items :
      /\ plan.heads[s] = HeadId(s)
      /\ RunAgrees(RunChosenFor(s), Identity(history[s]))

(* What holds of the rows and the plan, and what holds of the session.     *)
Records == Answerable /\ MarkedAgree /\ DraftCurrent

Session ==
  /\ HeadsBehind /\ GroupKnown /\ ShownIsSelected /\ RejectionsKnown
  /\ PassOpen /\ NothingOpen

(* While a run waits for its recovery there is no other work.              *)
RecoveryFirst == plan.state = "interrupted" => session.pc = "idle"

IInv == TypeOK /\ Records /\ Session /\ RecoveryFirst

----------------------------------------------------------------------------
(* Numbers and histories *)

(* A nonempty set of numbers has a least one, and Least finds it. *)
LEMMA LeastIs ==
  ASSUME NEW S \in SUBSET Nat, S # {}
  PROVE  Least(S) \in S
<1> DEFINE R == OpToRel(<, Nat)
<1>1. IsWellFoundedOn(R, Nat)
  BY NatLessThanWellFounded
<1>2. PICK x \in S : \A y \in S : <<y, x>> \notin R
  <2> HIDE DEF R
  <2> QED  BY <1>1, WFMin
<1>3. \A y \in S : ~(y < x)
  BY <1>2 DEF OpToRel
<1>4. \A y \in S : x <= y
  <2> HIDE DEF R
  <2> QED  BY <1>3
<1> QED  BY <1>4 DEF Least

Histories == Seq(Decision(Evidence))

(* A row that is appended becomes the latest. *)
LEMMA Appended ==
  ASSUME NEW h \in Histories, NEW d \in Decision(Evidence)
  PROVE  /\ Append(h, d) \in Histories /\ Append(h, d) # <<>>
         /\ Len(h) \in Nat /\ Len(Append(h, d)) = Len(h) + 1
         /\ Latest(Append(h, d)) = d
         /\ \A i \in 1..Len(h) : Append(h, d)[i] = h[i]
<1>1. /\ Append(h, d) \in Histories /\ Len(h) \in Nat /\ Len(Append(h, d)) = Len(h) + 1
      /\ Append(h, d)[Len(h) + 1] = d /\ \A i \in 1..Len(h) : Append(h, d)[i] = h[i]
  BY AppendProperties, LenProperties DEF Histories
<1>2. Append(h, d) # <<>>
  <2>1. Len(Append(h, d)) # 0
    BY <1>1
  <2> QED  BY <2>1, EmptySeq
<1> QED  BY <1>1, <1>2 DEF Latest

(* Edits are only added to as long as no row clears a field. *)
LEMMA EditsGrow ==
  ASSUME NEW h \in Histories, NEW d \in Decision(Evidence), d.clears = {}
  PROVE  Edits(h) \subseteq Edits(Append(h, d)) /\ d.sets \subseteq Edits(Append(h, d))
<1> DEFINE k == Append(h, d)
<1>1. /\ Len(h) \in Nat /\ Len(k) = Len(h) + 1 /\ k[Len(k)] = d
      /\ \A i \in 1..Len(h) : k[i] = h[i]
  BY Appended DEF Latest
<1> HIDE DEF k
<1>2. ASSUME NEW f \in Edits(h) PROVE f \in Edits(k)
  <2>1. PICK i \in 1..Len(h) : f \in h[i].sets /\ \A j \in (i + 1)..Len(h) : f \notin h[j].clears
    BY <1>2 DEF Edits
  <2>2. i \in 1..Len(k) /\ f \in k[i].sets
    BY <1>1, <2>1
  <2>3. ASSUME NEW j \in (i + 1)..Len(k) PROVE f \notin k[j].clears
    <3>1. j \in (i + 1)..Len(h) \/ j = Len(k)
      BY <1>1
    <3>2. j \in (i + 1)..Len(h) => k[j] = h[j]
      BY <1>1
    <3> QED  BY <1>1, <2>1, <3>1, <3>2
  <2>4. f \in Fields
    BY <1>2 DEF Edits
  <2> QED  BY <2>2, <2>3, <2>4 DEF Edits
<1>3. ASSUME NEW f \in d.sets PROVE f \in Edits(k)
  <2>1. f \in Fields /\ Len(k) \in 1..Len(k) /\ f \in k[Len(k)].sets
    BY <1>1 DEF Decision
  <2>2. (Len(k) + 1)..Len(k) = {}
    BY <1>1
  <2> QED  BY <2>1, <2>2 DEF Edits
<1> QED  BY <1>2, <1>3 DEF k

(* Only a rejection suppresses more. *)
LEMMA SuppressedBefore ==
  ASSUME NEW h \in Histories, NEW d \in Decision(Evidence), NEW c, NEW e,
         d.type # "rejected" \/ d.subject # c, Suppressed(Append(h, d), c, e)
  PROVE  Suppressed(h, c, e)
<1> DEFINE k == Append(h, d)
<1>1. /\ Len(h) \in Nat /\ Len(k) = Len(h) + 1 /\ k[Len(k)] = d
      /\ \A i \in 1..Len(h) : k[i] = h[i]
  BY Appended DEF Latest
<1> HIDE DEF k
<1>2. PICK i \in 1..Len(k) : /\ k[i].type = "rejected" /\ k[i].subject = c /\ k[i].evidence = e
                             /\ \A j \in (i + 1)..Len(k) : k[j].subject # c
  BY DEF Suppressed, k
<1>3. i \in 1..Len(h)
  BY <1>1, <1>2
<1>4. \A j \in (i + 1)..Len(h) : j \in (i + 1)..Len(k) /\ k[j] = h[j]
  BY <1>1, <1>3
<1> QED  BY <1>1, <1>2, <1>3, <1>4 DEF Suppressed

(* The latest row is the authorization, if it is one. *)
LEMMA LatestStands ==
  ASSUME NEW h \in Histories, h # <<>>, Latest(h).type \in Authorizing
  PROVE  Authorizations(h) # {} /\ Identity(h).as = Latest(h).subject /\ InForce(h)
<1>1. Len(h) \in Nat /\ Len(h) # 0
  BY LenProperties, EmptySeq DEF Histories
<1>2. Len(h) \in Authorizations(h) /\ \A j \in Authorizations(h) : j <= Len(h) /\ j \in 1..Len(h)
  BY <1>1 DEF Authorizations, Latest
<1>3. Authorization(h) = Len(h)
  <2>1. \A i \in Authorizations(h) :
          (\A j \in Authorizations(h) : j <= i) => i = Len(h)
    BY <1>1, <1>2
  <2>2. \E i \in Authorizations(h) : \A j \in Authorizations(h) : j <= i
    BY <1>2
  <2> QED  BY <2>1, <2>2 DEF Authorization
<1> QED  BY <1>2, <1>3 DEF Identity, Latest, InForce, Authorizing, Excluding

----------------------------------------------------------------------------
(* Types *)

Pcs == {"idle", "reopen", "check", "item", "confirm", "batch", "mark", "after", "prompt", "plan"}

SessionType ==
  [pc : Pcs,
   reprocess : BOOLEAN, items : SUBSET Sources, seen : [Sources -> Evidence],
   shown : Runs \cup {NoRun}, rejected : SUBSET (Sources \X Candidates),
   heads : [Sources -> Nat], group : Nat, scope : SUBSET Sources,
   todo : SUBSET Sources, decided : SUBSET Sources,
   cand : Candidates \cup {Nobody}, rest : SUBSET Sources, left : SUBSET Sources]

PlanType ==
  [items : SUBSET Sources, heads : [Sources -> Nat], group : Nat,
   state : {"none", "draft", "invalid", "interrupted", "ended"}]

LEMMA TypeParts ==
  TypeOK <=> /\ history \in [Sources -> Histories] /\ choices \in Seq(Runs)
             /\ evidence \in [Sources -> Evidence] /\ session \in SessionType
             /\ plan \in PlanType
             /\ built \in 0..MaxPlans /\ done \subseteq Sources /\ unmarked \subseteq Comics
             /\ taken \in [Sources -> Nat] /\ under \in [Sources -> Nat]
BY DEF TypeOK, Histories, SessionType, PlanType, Pcs

LEMMA TypePartsAfter ==
  TypeOK' <=> /\ history' \in [Sources -> Histories] /\ choices' \in Seq(Runs)
              /\ evidence' \in [Sources -> Evidence] /\ session' \in SessionType
              /\ plan' \in PlanType
              /\ built' \in 0..MaxPlans /\ done' \subseteq Sources /\ unmarked' \subseteq Comics
              /\ taken' \in [Sources -> Nat] /\ under' \in [Sources -> Nat]
BY DEF TypeOK, Histories, SessionType, PlanType, Pcs

(* The source at hand, the rows of a source and the selected run. *)
LEMMA AtHand ==
  ASSUME TypeOK
  PROVE  /\ session.todo # {} => At \in session.todo /\ At \in Sources
         /\ session.rest # {} => Least(session.rest) \in session.rest
                                 /\ Least(session.rest) \in Sources
         /\ \A s \in Sources : /\ history[s] \in Histories /\ HeadId(s) \in Nat
                               /\ session.seen[s] \in Evidence /\ session.heads[s] \in Nat
                               /\ history[s] = <<>> <=> HeadId(s) = 0
         /\ SelectedRun \in Runs \cup {NoRun} /\ Len(choices) \in Nat
<1>1. session.todo \in SUBSET Nat /\ session.rest \in SUBSET Nat
      /\ session.todo \subseteq Sources /\ session.rest \subseteq Sources
  BY TypeParts, ReviewFlowAssumption DEF SessionType, ReviewFlowAssumption
<1>2. ASSUME NEW s \in Sources
      PROVE  /\ history[s] \in Histories /\ HeadId(s) \in Nat
             /\ session.seen[s] \in Evidence /\ session.heads[s] \in Nat
             /\ history[s] = <<>> <=> HeadId(s) = 0
  <2>1. history[s] \in Histories /\ session.seen[s] \in Evidence /\ session.heads[s] \in Nat
    BY TypeParts DEF SessionType
  <2> QED  BY <2>1, LenProperties, EmptySeq DEF HeadId, Histories
<1>3. SelectedRun \in Runs \cup {NoRun} /\ Len(choices) \in Nat
  <2>1. choices \in Seq(Runs)
    BY TypeParts
  <2>2. Len(choices) \in Nat /\ (choices # <<>> => choices[Len(choices)] \in Runs)
    BY <2>1, LenProperties, EmptySeq, ElementOfSeq
  <2> QED  BY <2>2 DEF SelectedRun
<1>4. session.todo # {} => At \in session.todo
  BY <1>1, LeastIs DEF At
<1> QED  BY <1>1, <1>2, <1>3, <1>4, LeastIs

(* The rows the wizard records. *)
LEMMA RowTypes ==
  ASSUME NEW e \in Evidence
  PROVE  /\ \A type \in DecisionTypes : \A c \in Subjects \cup {Nobody} :
              /\ Decide(type, c, e) \in Decision(Evidence)
              /\ Decide(type, c, e).type = type /\ Decide(type, c, e).subject = c
              /\ Decide(type, c, e).evidence = e /\ Decide(type, c, e).reason = "explicit"
              /\ Decide(type, c, e).clears = {}
         /\ \A F \in SUBSET Fields :
              /\ Override(e, F, {}) \in Decision(Evidence)
              /\ Override(e, F, {}).type = "manual_override"
              /\ Override(e, F, {}).subject = Nobody
              /\ Override(e, F, {}).sets = F /\ Override(e, F, {}).clears = {}
         /\ \A why \in Reasons :
              /\ Reopened(e, why) \in Decision(Evidence)
              /\ Reopened(e, why).type = "unresolved" /\ Reopened(e, why).clears = {}
<1>1. "manual_override" \in DecisionTypes /\ "unresolved" \in DecisionTypes /\ "explicit" \in Reasons
  BY DEF DecisionTypes, Excluding, Reasons
<1> QED  BY <1>1 DEF Decide, Override, Reopened, Decision

LEMMA NobodyElse == Nobody \notin Subjects /\ "manual_override" \notin ReviewComplete \cup Authorizing
BY DecisionsAssumption DEF DecisionsAssumption, Subjects, ReviewComplete, Authorizing, Excluding,
   Nobody, Manual

----------------------------------------------------------------------------
(* What a row changes for the histories, the run and the plan *)

LEMMA RecordsKept ==
  ASSUME Records, UNCHANGED <<history, choices, unmarked, under>>,
         plan'.state \in Offered => /\ plan.state \in Offered
                                    /\ plan'.items = plan.items /\ plan'.heads = plan.heads
  PROVE  Records'
<1>1. \A s : /\ HeadId(s)' = HeadId(s) /\ Standing(s)' = Standing(s)
             /\ RunChosenFor(s)' = RunChosenFor(s)
             /\ \A T : LatestIs(s, T)' <=> LatestIs(s, T)
  BY DEF HeadId, Standing, RunChosenFor, SelectedRun, LatestIs
<1>2. SelectedRun' = SelectedRun
  BY DEF SelectedRun
<1> QED  BY <1>1, <1>2 DEF Records, Answerable, MarkedAgree, DraftCurrent

(* A row the wizard may record for a source: what Answerable asks of it.   *)
Grounded(s, d) ==
  d.type \in Authorizing =>
    /\ d.subject \in Subjects
    /\ d.type = "manual_identity" => d.subject = Manual
    /\ d.subject \in Yearless => "run_start_year" \in Edits(history[s])

LEMMA OtherSources ==
  ASSUME TypeOK, NEW s \in Sources, NEW d, Add(s, d)
  PROVE  /\ \A t \in Sources : t # s => history'[t] = history[t]
         /\ history'[s] = Append(history[s], d) /\ UNCHANGED <<choices, evidence, built, taken, done>>
         /\ plan'.state = "draft" => UNCHANGED plan /\ s \notin plan.items
         /\ under' = [under EXCEPT ![s] = Len(choices)]
         /\ plan.state # "interrupted" => plan'.state # "interrupted"
BY TypeParts DEF Add, Touch, PlanType

LEMMA RecordsAdded ==
  ASSUME TypeOK, Records, NEW s \in Sources, NEW d \in Decision(Evidence), d.clears = {},
         Add(s, d), Grounded(s, d), unmarked' \in {unmarked, unmarked \ {s}},
         plan.state # "interrupted"
  PROVE  Records'
<1>1. /\ \A t \in Sources : t # s => history'[t] = history[t]
      /\ history'[s] = Append(history[s], d) /\ UNCHANGED choices
      /\ plan'.state \in Offered => UNCHANGED plan /\ s \notin plan.items
      /\ under'[s] = Len(choices) /\ \A t \in Sources : t # s => under'[t] = under[t]
  BY OtherSources, TypeParts DEF Offered
<1>2. /\ \A t : RunChosenFor(t)' = RunChosenFor(t)
      /\ SelectedRun' = SelectedRun
  BY <1>1 DEF RunChosenFor, SelectedRun
<1>3. ASSUME NEW t \in Sources, t # s
      PROVE  /\ HeadId(t)' = HeadId(t) /\ Standing(t)' = Standing(t)
             /\ \A T : LatestIs(t, T)' <=> LatestIs(t, T)
  BY <1>1, <1>3 DEF HeadId, Standing, LatestIs
<1>4. /\ Standing(s)' = d.subject
      /\ \A T : LatestIs(s, T)' <=> d.type \in T
      /\ Edits(history[s]) \subseteq Edits(history'[s])
  <2>1. history[s] \in Histories
    BY TypeParts
  <2> QED  BY <1>1, <2>1, Appended, EditsGrow DEF Standing, LatestIs
<1>5. Answerable'
  <2> SUFFICES ASSUME NEW t \in Sources, LatestIs(t, Authorizing)'
               PROVE  /\ Standing(t)' \in Subjects
                      /\ LatestIs(t, {"manual_identity"})' => Standing(t)' = Manual
                      /\ Standing(t)' \in Yearless => "run_start_year" \in Edits(history'[t])
    BY DEF Answerable
  <2>1. CASE t = s
    BY <1>4, <2>1 DEF Grounded
  <2>2. CASE t # s
    BY <1>1, <1>3, <2>2 DEF Records, Answerable
  <2> QED  BY <2>1, <2>2
<1>6. MarkedAgree'
  <2> SUFFICES ASSUME NEW t \in Comics \ unmarked', LatestIs(t, Authorizing)'
               PROVE  RunAgrees(SelectedRun, [as |-> Standing(t)']) \/ under'[t] = Len(choices)
    BY <1>1, <1>2 DEF MarkedAgree
  <2>0. t \in Sources
    BY ReviewFlowAssumption DEF ReviewFlowAssumption
  <2>1. CASE t = s
    BY <1>1, <2>1
  <2>2. CASE t # s
    BY <1>1, <1>3, <2>0, <2>2 DEF Records, MarkedAgree
  <2> QED  BY <2>1, <2>2
<1>7. DraftCurrent'
  <2> SUFFICES ASSUME plan'.state \in Offered, NEW t \in plan'.items
               PROVE  /\ plan'.heads[t] = HeadId(t)'
                      /\ RunAgrees(RunChosenFor(t)', Identity(history'[t]))
    BY DEF DraftCurrent
  <2>1. UNCHANGED plan /\ t \in Sources /\ t # s
    BY <1>1, TypeParts DEF PlanType
  <2> QED  BY <1>1, <1>2, <1>3, <2>1 DEF Records, DraftCurrent
<1> QED  BY <1>5, <1>6, <1>7 DEF Records

(* Choosing a run invalidates the drafts it may contradict, and leaves     *)
(* every decision of the series to be looked at.                           *)
LEMMA RecordsChosen ==
  ASSUME Records, TouchGroup, unmarked' = Comics, UNCHANGED history, TypeOK,
         plan.state # "interrupted"
  PROVE  Records'
<1>1. \A s : /\ HeadId(s)' = HeadId(s) /\ Standing(s)' = Standing(s)
             /\ \A T : LatestIs(s, T)' <=> LatestIs(s, T)
  BY DEF HeadId, Standing, LatestIs
<1>2. plan'.state \in Offered => UNCHANGED plan /\ plan.items \cap Comics = {}
  BY TypeParts DEF TouchGroup, PlanType, Offered
<1>3. \A s : s \notin Comics => RunChosenFor(s)' = RunChosenFor(s)
  BY DEF RunChosenFor
<1>4. DraftCurrent'
  BY <1>1, <1>2, <1>3 DEF Records, DraftCurrent
<1> QED  BY <1>1, <1>4 DEF Records, Answerable, MarkedAgree

(* An acceptance that was looked at and not set back is of the chosen run. *)
LEMMA RecordsMarked ==
  ASSUME Records, NEW s \in Sources, ~Incompatible(s), unmarked' = unmarked \ {s},
         UNCHANGED <<history, choices, plan, under>>
  PROVE  Records'
<1>1. \A t : /\ HeadId(t)' = HeadId(t) /\ Standing(t)' = Standing(t)
             /\ RunChosenFor(t)' = RunChosenFor(t)
             /\ \A T : LatestIs(t, T)' <=> LatestIs(t, T)
  BY DEF HeadId, Standing, RunChosenFor, SelectedRun, LatestIs
<1>2. SelectedRun' = SelectedRun
  BY DEF SelectedRun
<1>3. ASSUME LatestIs(s, Authorizing) PROVE RunAgrees(SelectedRun, [as |-> Standing(s)])
  <2>1. CASE LatestIs(s, {"manual_identity"})
    <3>1. Standing(s) = Manual
      BY <1>3, <2>1 DEF Records, Answerable
    <3> QED  BY <3>1, DecisionsAssumption DEF DecisionsAssumption, RunAgrees
  <2>2. CASE LatestIs(s, {"accepted", "work_accepted"})
    BY <2>2 DEF Incompatible, Standing, RunAgrees
  <2> QED  BY <1>3, <2>1, <2>2 DEF LatestIs, Authorizing
<1>4. MarkedAgree'
  BY <1>1, <1>2, <1>3 DEF Records, MarkedAgree
<1> QED  BY <1>1, <1>4 DEF Records, Answerable, DraftCurrent

(* A plan is built from what stands. *)
LEMMA RecordsPlanned ==
  ASSUME Records, BuildPlan
  PROVE  Records'
<1>1. /\ plan' = [items |-> Plannable, heads |-> [s \in Sources |-> HeadId(s)],
                  group |-> Len(choices), state |-> "draft"]
      /\ UNCHANGED <<history, choices, unmarked, under>>
  BY DEF BuildPlan
<1>2. \A s : /\ HeadId(s)' = HeadId(s) /\ Standing(s)' = Standing(s)
             /\ RunChosenFor(s)' = RunChosenFor(s)
             /\ \A T : LatestIs(s, T)' <=> LatestIs(s, T)
  BY <1>1 DEF HeadId, Standing, RunChosenFor, SelectedRun, LatestIs
<1>3. SelectedRun' = SelectedRun
  BY <1>1 DEF SelectedRun
<1>4. DraftCurrent'
  <2> SUFFICES ASSUME NEW s \in Plannable
               PROVE  /\ plan'.heads[s] = HeadId(s)
                      /\ RunAgrees(RunChosenFor(s), Identity(history[s]))
    BY <1>1, <1>2 DEF DraftCurrent
  <2> QED  BY <1>1 DEF Plannable
<1> QED  BY <1>1, <1>2, <1>3, <1>4 DEF Records, Answerable, MarkedAgree

----------------------------------------------------------------------------
(* What a step changes for the session *)

(* The parts of the session that only an audit changes. *)
SameAudit ==
  /\ session'.items = session.items /\ session'.seen = session.seen
  /\ session'.heads = session.heads /\ session'.shown = session.shown
  /\ session'.rejected = session.rejected

LEMMA SameOpen ==
  ASSUME SameAudit, NEW s, history'[s] = history[s]
  PROVE  /\ Open(s)' <=> Open(s)
         /\ \A c : Suppressed(history'[s], c, session'.seen[s])
                     <=> Suppressed(history[s], c, session.seen[s])
BY DEF SameAudit, Open

LEMMA SameBatch ==
  ASSUME SameAudit, NEW s
  PROVE  /\ Displayed(s)' = Displayed(s)
         /\ BatchEligible(s)' <=> BatchEligible(s)
BY DEF SameAudit, Displayed, BatchEligible, Top, Ranked

(* Nothing is under way in a session that is not in a review. *)
LEMMA Outside ==
  ASSUME session'.pc \in {"idle", "reopen", "plan"}, session'.items = {},
         session'.pc = "reopen" => \A s \in session'.rest : LatestIs(s, {"unresolved"})',
         \A s \in Sources : session'.heads[s] <= HeadId(s)'
  PROVE  Session'
BY DEF Session, HeadsBehind, GroupKnown, ShownIsSelected, Current, RejectionsKnown, PassOpen,
       NothingOpen

(* A fresh audit knows the rejections and the selected run. *)
LEMMA FreshAudit ==
  ASSUME TypeOK, session'.pc = "check", session'.seen = evidence, session'.shown = SelectedRun,
         session'.rejected = {sc \in Sources \X Candidates :
                                Suppressed(history[sc[1]], sc[2], evidence[sc[1]])},
         session'.items \subseteq Sources,
         \A s \in Sources : session'.heads[s] <= HeadId(s), UNCHANGED <<history, choices>>
  PROVE  Session'
<1>1. \A s \in Sources, c \in Candidates :
        Suppressed(history[s], c, evidence[s]) => <<s, c>> \in session'.rejected
  OBVIOUS
<1>2. HeadsBehind' /\ GroupKnown' /\ PassOpen' /\ NothingOpen'
  BY DEF HeadsBehind, HeadId, GroupKnown, PassOpen, NothingOpen
<1>3. ShownIsSelected'
  BY DEF ShownIsSelected, SelectedRun
<1>4. RejectionsKnown'
  BY <1>1 DEF RejectionsKnown
<1> QED  BY <1>2, <1>3, <1>4 DEF Session

(* What every step keeps that neither audits nor records. *)
LEMMA Carried ==
  ASSUME Session, SameAudit, UNCHANGED <<history, choices>>, Current' => Current
  PROVE  /\ HeadsBehind' /\ ShownIsSelected' /\ RejectionsKnown'
         /\ \A s : Open(s)' <=> Open(s)
<1>1. \A s : /\ Open(s)' <=> Open(s)
             /\ \A c : Suppressed(history'[s], c, session'.seen[s])
                         <=> Suppressed(history[s], c, session.seen[s])
  BY SameOpen
<1>2. HeadsBehind'
  BY DEF Session, HeadsBehind, SameAudit, HeadId
<1>3. ShownIsSelected'
  BY DEF Session, ShownIsSelected, SameAudit, SelectedRun
<1>4. RejectionsKnown'
  BY <1>1 DEF Session, RejectionsKnown, SameAudit
<1> QED  BY <1>1, <1>2, <1>3, <1>4

(* What every step keeps that records a row for a source: the audit knows  *)
(* the rejections of the others, and of this one if it stays in doubt.     *)
LEMMA CarriedOver ==
  ASSUME TypeOK, Session, SameAudit, NEW s \in Sources, NEW d \in Decision(Evidence), Add(s, d),
         Current' => Current,
         Current' /\ Open(s)' => Open(s) /\ d.type # "rejected"
  PROVE  /\ HeadsBehind' /\ ShownIsSelected' /\ RejectionsKnown'
         /\ \A t \in Sources : t # s => (Open(t)' <=> Open(t))
         /\ HeadId(s)' = HeadId(s) + 1 /\ Latest(history'[s]) = d /\ history'[s] # <<>>
         /\ UNCHANGED choices
<1>1. /\ \A t \in Sources : t # s => history'[t] = history[t]
      /\ history'[s] = Append(history[s], d) /\ choices' = choices
      /\ history[s] \in Histories
  BY OtherSources, TypeParts
<1>2. /\ HeadId(s)' = HeadId(s) + 1 /\ Latest(history'[s]) = d /\ HeadId(s) \in Nat
      /\ history'[s] # <<>>
  BY <1>1, Appended DEF HeadId
<1>3. \A t \in Sources : t # s =>
        /\ Open(t)' <=> Open(t)
        /\ HeadId(t)' = HeadId(t)
        /\ \A c : Suppressed(history'[t], c, session'.seen[t])
                    <=> Suppressed(history[t], c, session.seen[t])
  BY <1>1, SameOpen DEF HeadId
<1>4. HeadsBehind'
  <2> SUFFICES ASSUME NEW t \in Sources PROVE session'.heads[t] <= HeadId(t)'
    BY DEF HeadsBehind
  <2>1. session.heads[t] <= HeadId(t) /\ session.heads[t] \in Nat
    BY TypeParts DEF Session, HeadsBehind, SessionType
  <2>2. session'.heads = session.heads
    BY DEF SameAudit
  <2>3. CASE t # s
    BY <1>3, <2>1, <2>2, <2>3
  <2>4. CASE t = s
    BY <1>2, <2>1, <2>2, <2>4 DEF HeadId
  <2> QED  BY <2>3, <2>4
<1>5. ShownIsSelected'
  BY <1>1 DEF Session, ShownIsSelected, SameAudit, SelectedRun
<1>6. RejectionsKnown'
  <2> SUFFICES ASSUME Current', NEW t \in session'.items, NEW c \in Candidates,
                      Open(t)', Suppressed(history'[t], c, session'.seen[t])
               PROVE  <<t, c>> \in session'.rejected
    BY DEF RejectionsKnown
  <2>1. Current /\ t \in session.items /\ t \in Sources
    BY TypeParts DEF SameAudit, SessionType
  <2>2. Open(t) /\ Suppressed(history[t], c, session.seen[t])
    <3>1. CASE t # s
      BY <1>3, <2>1, <3>1
    <3>2. CASE t = s
      <4>1. session'.seen = session.seen
        BY DEF SameAudit
      <4>2. Current' /\ Open(s)' /\ Suppressed(history'[s], c, session'.seen[s])
        BY <3>2 DEF Open
      <4>3. d.type # "rejected" /\ Open(s)
        BY <4>2
      <4>4. Suppressed(history[s], c, session.seen[s])
        BY <1>1, <4>1, <4>2, <4>3, SuppressedBefore
      <4> QED  BY <3>2, <4>3, <4>4
    <3> QED  BY <3>1, <3>2
  <2>3. <<t, c>> \in session.rejected
    BY <2>1, <2>2 DEF Session, RejectionsKnown
  <2> QED  BY <2>3 DEF SameAudit
<1>7. \A t \in Sources : t # s => (Open(t)' <=> Open(t))
  BY <1>3
<1> QED  BY <1>1, <1>2, <1>4, <1>5, <1>6, <1>7

(* Nothing of the review changes while no wizard runs. *)
LEMMA Undisturbed ==
  ASSUME Session, UNCHANGED <<session, history, choices>>
  PROVE  Session'
<1>1. SameAudit /\ (Current' => Current) /\ At' = At
  BY DEF SameAudit, Current, At
<1>2. /\ HeadsBehind' /\ ShownIsSelected' /\ RejectionsKnown'
      /\ \A s : Open(s)' <=> Open(s)
  BY <1>1, Carried
<1>3. \A s : BatchEligible(s)' <=> BatchEligible(s)
  BY <1>1, SameBatch
<1>4. Displayed(At)' = Displayed(At)
  BY DEF Displayed, Ranked, At
<1>5. GroupKnown' /\ NothingOpen'
  BY <1>2 DEF Session, GroupKnown, NothingOpen
<1>6. PassOpen'
  <2>1. \A s : LatestIs(s, {"unresolved"})' <=> LatestIs(s, {"unresolved"})
    BY DEF LatestIs
  <2> QED  BY <1>1, <1>2, <1>3, <1>4, <2>1 DEF Session, PassOpen
<1> QED  BY <1>2, <1>5, <1>6 DEF Session

(* A review goes on to planning. *)
LEMMA Planned ==
  ASSUME TypeOK, Session, NEW L \in SUBSET Sources, L = {} => Incomplete = {}, ToPlan(L)
  PROVE  session' \in SessionType /\ Session'
<1>1. /\ session' = [session EXCEPT !.pc = "plan", !.left = L, !.shown = NoRun,
                                    !.rejected = {}, !.group = 0]
      /\ UNCHANGED <<history, choices>>
  BY DEF ToPlan, Goto
<1>2. session \in SessionType
  BY TypeParts
<1>3. /\ session'.pc = "plan" /\ session'.left = L /\ session'.items = session.items
      /\ session'.seen = session.seen /\ session'.heads = session.heads
      /\ session' \in SessionType
  BY <1>1, <1>2 DEF SessionType, Pcs
<1>4. \A s : Open(s)' <=> Open(s)
  BY <1>1, <1>3 DEF Open
<1>5. NothingOpen'
  BY <1>3, <1>4 DEF NothingOpen, Incomplete, Open
<1>6. HeadsBehind'
  BY <1>1, <1>3 DEF Session, HeadsBehind, HeadId
<1>7. ~Current' /\ GroupKnown' /\ PassOpen'
  BY <1>3 DEF Current, GroupKnown, PassOpen
<1> QED  BY <1>3, <1>5, <1>6, <1>7 DEF Session, ShownIsSelected, RejectionsKnown

(* A pass, a batch or the marking is over. *)
LEMMA Passed ==
  ASSUME TypeOK, Session, session.pc \in {"item", "batch", "mark"}, Goto(PassOver)
  PROVE  session' \in SessionType /\ Session'
<1>1. session' = PassOver /\ UNCHANGED <<history, choices>> /\ session \in SessionType
  BY TypeParts DEF Goto
<1>2. /\ session' \in SessionType /\ SameAudit /\ session'.pc = "after"
      /\ session'.group = session.group
  BY <1>1 DEF SessionType, Pcs, PassOver, SameAudit
<1>3. Current' => Current
  BY <1>1, <1>2 DEF Current, Session, GroupKnown
<1>4. HeadsBehind' /\ ShownIsSelected' /\ RejectionsKnown'
  BY <1>1, <1>2, <1>3, Carried
<1>5. GroupKnown' /\ PassOpen' /\ NothingOpen'
  BY <1>2 DEF GroupKnown, PassOpen, NothingOpen
<1> QED  BY <1>2, <1>4, <1>5 DEF Session

(* The audit that starts or follows a review. *)
LEMMA AuditedAgain ==
  ASSUME TypeOK, Session, NEW old \in SessionType, \A s \in Sources : old.heads[s] <= HeadId(s),
         Goto(Audited(old))
  PROVE  session' \in SessionType /\ Session'
<1>1. session' = Audited(old) /\ UNCHANGED <<history, choices>>
  BY DEF Goto
<1>2. evidence \in [Sources -> Evidence] /\ SelectedRun \in Runs \cup {NoRun}
  BY TypeParts, AtHand
<1> DEFINE known == {sc \in Sources \X Candidates :
                       Suppressed(history[sc[1]], sc[2], evidence[sc[1]])}
<1>3. known \in SUBSET (Sources \X Candidates)
  OBVIOUS
<1>4. session' = [old EXCEPT !.pc = "check", !.group = 0, !.left = {}, !.seen = evidence,
                             !.shown = SelectedRun, !.rejected = known]
  BY <1>1 DEF Audited
<1> HIDE DEF known
<1>5. /\ session' \in SessionType /\ session'.pc = "check" /\ session'.seen = evidence
      /\ session'.shown = SelectedRun /\ session'.rejected = known
      /\ session'.items = old.items /\ session'.heads = old.heads
  BY <1>2, <1>3, <1>4 DEF SessionType, Pcs
<1>6. session'.items \subseteq Sources
  BY <1>5 DEF SessionType
<1> QED  BY <1>1, <1>5, <1>6, FreshAudit DEF known

----------------------------------------------------------------------------
(* The steps that begin, carry on and end a review *)

LEMMA IdleType == /\ Idle \in SessionType /\ Idle.pc = "idle" /\ Idle.items = {}
                  /\ Idle.heads = NoHeads /\ \A s \in Sources : NoHeads[s] = 0
BY ReviewFlowAssumption DEF ReviewFlowAssumption, Idle, SessionType, Pcs, NoHeads

(* A review starts with an audit, whatever its baseline. *)
LEMMA Started ==
  ASSUME TypeOK, Session, NEW pcs, UseSaved(pcs) \/ ReviewAgain(pcs) \/ Reprocess(pcs)
  PROVE  session' \in SessionType /\ Session'
<1>1. ASSUME NEW items \in SUBSET Sources, NEW reprocess \in BOOLEAN, NEW heads,
             heads \in {NoHeads, ReusableHeads(Sources \ done), AllHeads(done)}
      PROVE  /\ [Idle EXCEPT !.items = items, !.reprocess = reprocess, !.heads = heads]
                  \in SessionType
             /\ [Idle EXCEPT !.items = items, !.heads = heads] \in SessionType
             /\ [Idle EXCEPT !.items = items] \in SessionType
             /\ \A s \in Sources : heads[s] <= HeadId(s)
  <2>1. \A s \in Sources : HeadId(s) \in Nat /\ 0 <= HeadId(s)
    BY AtHand
  <2>2. heads \in [Sources -> Nat] /\ \A s \in Sources : heads[s] <= HeadId(s)
    BY <1>1, <2>1 DEF NoHeads, ReusableHeads, AllHeads
  <2> QED  BY <2>2, IdleType DEF SessionType
<1>2. PICK old \in SessionType : /\ Goto(Audited(old))
                                 /\ \A s \in Sources : old.heads[s] <= HeadId(s)
  <2>1. CASE UseSaved(pcs)
    <3>1. [Idle EXCEPT !.items = Sources \ done].heads = NoHeads
      BY IdleType DEF SessionType
    <3> QED  BY <1>1, <2>1, <3>1 DEF UseSaved
  <2>2. CASE ReviewAgain(pcs)
    <3> DEFINE heads == ReusableHeads(Sources \ done)
    <3>1. /\ [Idle EXCEPT !.items = Sources \ done, !.heads = heads] \in SessionType
          /\ \A s \in Sources : heads[s] <= HeadId(s)
      BY <1>1
    <3>2. Goto(Audited([Idle EXCEPT !.items = Sources \ done, !.heads = heads]))
      BY <2>2 DEF ReviewAgain
    <3> HIDE DEF heads
    <3>3. [Idle EXCEPT !.items = Sources \ done, !.heads = heads].heads = heads
      BY IdleType DEF SessionType
    <3> QED  BY <3>1, <3>2, <3>3
  <2>3. CASE Reprocess(pcs)
    <3> DEFINE heads == AllHeads(done)
    <3>1. Goto(Audited([Idle EXCEPT !.items = done, !.reprocess = TRUE, !.heads = heads]))
      BY <2>3 DEF Reprocess
    <3>2. /\ [Idle EXCEPT !.items = done, !.reprocess = TRUE, !.heads = heads] \in SessionType
          /\ \A s \in Sources : heads[s] <= HeadId(s)
      BY <1>1, TypeParts
    <3> HIDE DEF heads
    <3>3. [Idle EXCEPT !.items = done, !.reprocess = TRUE, !.heads = heads].heads = heads
      BY IdleType DEF SessionType
    <3> QED  BY <3>1, <3>2, <3>3
  <2> QED  BY <2>1, <2>2, <2>3
<1> QED  BY <1>2, AuditedAgain

(* A session that holds no review: planning what was reviewed before, the  *)
(* reopening of unresolved sources, and none at all.                       *)
LEMMA WithoutReview ==
  ASSUME TypeOK,
         session' \in {Idle, [Idle EXCEPT !.pc = "plan"],
                       [Idle EXCEPT !.pc = "reopen", !.rest = Unresolved]},
         UNCHANGED history
  PROVE  session' \in SessionType /\ Session'
<1>1. Unresolved \in SUBSET Sources
  BY DEF Unresolved
<1>2. /\ session' \in SessionType /\ session'.pc \in {"idle", "reopen", "plan"}
      /\ session'.items = {} /\ session'.heads = NoHeads
      /\ session'.pc = "reopen" => session'.rest = Unresolved
  <2>1. CASE session' = Idle
    BY <2>1, IdleType
  <2>2. CASE session' = [Idle EXCEPT !.pc = "plan"]
    BY <2>2, IdleType DEF SessionType, Pcs
  <2>3. CASE session' = [Idle EXCEPT !.pc = "reopen", !.rest = Unresolved]
    <3> DEFINE rest == Unresolved
    <3>1. session' = [Idle EXCEPT !.pc = "reopen", !.rest = rest] /\ rest \in SUBSET Sources
      BY <1>1, <2>3
    <3> HIDE DEF rest
    <3>2. /\ session' \in SessionType /\ session'.pc = "reopen" /\ session'.rest = rest
          /\ session'.items = {} /\ session'.heads = NoHeads
      BY <3>1, IdleType DEF SessionType, Pcs
    <3> QED  BY <3>2 DEF rest
  <2> QED  BY <2>1, <2>2, <2>3
<1>3. \A s \in Sources : session'.heads[s] <= HeadId(s)'
  <2>1. \A s \in Sources : HeadId(s)' = HeadId(s) /\ HeadId(s) \in Nat /\ session'.heads[s] = 0
    BY <1>2, AtHand, IdleType DEF HeadId
  <2> QED  BY <2>1
<1>4. session'.pc = "reopen" => \A s \in session'.rest : LatestIs(s, {"unresolved"})'
  BY <1>2 DEF Unresolved, LatestIs
<1> QED  BY <1>2, <1>3, <1>4, Outside

(* A source that is reopened has a decision to carry the evidence over     *)
(* from.                                                                   *)
LEMMA ReopenAdds ==
  ASSUME TypeOK, Session, Reopen
  PROVE  \E s \in Sources, d \in Decision(Evidence) :
           /\ Add(s, d) /\ d.clears = {} /\ d.type = "unresolved"
           /\ session' = [session EXCEPT !.rest = @ \ {s}]
<1> DEFINE s == Least(session.rest)
           d == Reopened(Latest(history[s]).evidence, "review_reopened")
<1>1. /\ s \in session.rest /\ s \in Sources /\ session.pc = "reopen"
      /\ Add(s, d) /\ session' = [session EXCEPT !.rest = @ \ {s}]
  BY AtHand DEF Reopen
<1>2. history[s] \in Seq(Decision(Evidence)) /\ history[s] # <<>>
  <2> HIDE DEF s
  <2> QED  BY <1>1, AtHand DEF Session, PassOpen, LatestIs, Histories
<1>3. Latest(history[s]) \in Decision(Evidence)
  <2> HIDE DEF s
  <2>1. Len(history[s]) \in Nat /\ Len(history[s]) # 0
    BY <1>2, LenProperties, EmptySeq
  <2> QED  BY <1>2, <2>1, ElementOfSeq DEF Latest
<1>4. Latest(history[s]).evidence \in Evidence
  BY <1>3 DEF Decision
<1>5. d \in Decision(Evidence) /\ d.clears = {} /\ d.type = "unresolved"
  <2> HIDE DEF s
  <2> QED  BY <1>4, RowTypes DEF Reasons
<1> HIDE DEF s, d
<1> QED  BY <1>1, <1>5

LEMMA ReopenKeeps ==
  ASSUME TypeOK, Session, Reopen
  PROVE  session' \in SessionType /\ Session'
<1>1. PICK s \in Sources, d \in Decision(Evidence) :
        Add(s, d) /\ session' = [session EXCEPT !.rest = @ \ {s}]
  BY ReopenAdds
<1>2. session \in SessionType /\ session.pc = "reopen"
  BY TypeParts DEF Reopen
<1>3. /\ session' \in SessionType /\ session'.pc = "reopen" /\ SameAudit
      /\ session'.rest = session.rest \ {s}
  BY <1>1, <1>2 DEF SessionType, SameAudit
<1>4. ~Current'
  BY <1>3 DEF Current
<1>5. HeadsBehind' /\ ShownIsSelected' /\ RejectionsKnown'
  BY <1>1, <1>3, <1>4, CarriedOver
<1>6. \A t \in session'.rest : LatestIs(t, {"unresolved"})'
  <2>1. \A t \in Sources : t # s => history'[t] = history[t]
    BY <1>1, OtherSources
  <2>2. \A t \in session'.rest : t \in session.rest /\ t \in Sources /\ t # s
    BY <1>2, <1>3 DEF SessionType
  <2> QED  BY <1>2, <2>1, <2>2 DEF Session, PassOpen, LatestIs
<1> QED  BY <1>3, <1>5, <1>6 DEF Session, GroupKnown, PassOpen, NothingOpen

LEMMA PassesKeep ==
  ASSUME TypeOK, Session, Passes
  PROVE  session' \in SessionType /\ Session'
<1>1. session \in SessionType /\ Len(choices) \in Nat /\ Incomplete \in SUBSET Sources
      /\ \A s \in Sources : session.heads[s] <= HeadId(s)
  BY TypeParts, AtHand DEF SessionType, Session, HeadsBehind, Incomplete
<1>2. {} \in SUBSET Sources /\ session.left \in SUBSET Sources
  BY <1>1 DEF SessionType
<1>3. CASE BeginPass
  <2>1. CASE Incomplete = {}
    BY <1>2, <1>3, <2>1, Planned DEF BeginPass
  <2>2. CASE Incomplete # {}
    <3> DEFINE open == Incomplete
    <3>1. /\ session' = [session EXCEPT !.pc = "item", !.scope = open, !.todo = open,
                                        !.decided = {}, !.group = Len(choices)]
          /\ UNCHANGED <<history, choices>> /\ session.pc = "check"
          /\ open \in SUBSET Sources
      BY <1>1, <1>3, <2>2 DEF BeginPass, Goto
    <3> HIDE DEF open
    <3>2. /\ session' \in SessionType /\ SameAudit /\ session'.pc = "item"
          /\ session'.scope = open /\ session'.todo = open /\ session'.decided = {}
          /\ session'.group = Len(choices)
      BY <1>1, <3>1 DEF SessionType, Pcs, SameAudit
    <3>3. Current' => Current
      BY <3>1 DEF Current
    <3>4. /\ HeadsBehind' /\ ShownIsSelected' /\ RejectionsKnown'
          /\ \A s : Open(s)' <=> Open(s)
      BY <3>1, <3>2, <3>3, Carried
    <3>5. open \subseteq session.items /\ \A s \in open : Open(s)
      BY DEF open, Incomplete, Open
    <3>6. PassOpen'
      BY <3>2, <3>4, <3>5 DEF PassOpen, SameAudit
    <3>7. GroupKnown' /\ NothingOpen'
      BY <3>1, <3>2 DEF GroupKnown, NothingOpen
    <3> QED  BY <3>2, <3>4, <3>6, <3>7 DEF Session
  <2> QED  BY <2>1, <2>2
<1>4. CASE EndPass
  BY <1>4, Passed DEF EndPass
<1>5. CASE AfterPass
  <2>1. CASE Len(choices) # session.group
    BY <1>1, <1>5, <2>1, AuditedAgain DEF AfterPass
  <2>2. CASE Len(choices) = session.group /\ Incomplete = {}
    BY <1>2, <1>5, <2>2, Planned DEF AfterPass
  <2>3. CASE Len(choices) = session.group /\ Incomplete # {}
    <3> DEFINE open == Incomplete
    <3>1. /\ session' = [session EXCEPT !.pc = "prompt", !.left = open]
          /\ UNCHANGED <<history, choices>> /\ session.pc = "after"
          /\ open \in SUBSET Sources /\ open # {}
      BY <1>1, <1>5, <2>3 DEF AfterPass, Goto
    <3> HIDE DEF open
    <3>2. /\ session' \in SessionType /\ SameAudit /\ session'.pc = "prompt"
          /\ session'.left # {}
      BY <1>1, <3>1 DEF SessionType, Pcs, SameAudit
    <3>3. Current' => Current
      BY <2>3, <3>1 DEF Current
    <3>4. HeadsBehind' /\ ShownIsSelected' /\ RejectionsKnown'
      BY <3>1, <3>2, <3>3, Carried
    <3> QED  BY <3>2, <3>4 DEF Session, PassOpen, GroupKnown, NothingOpen
  <2> QED  BY <2>1, <2>2, <2>3
<1>6. CASE ReturnToReview
  BY <1>1, <1>6, AuditedAgain DEF ReturnToReview
<1>7. CASE PlanApprovedOnly
  <2>1. session.left # {}
    BY <1>7 DEF PlanApprovedOnly, Session, NothingOpen
  <2> QED  BY <1>2, <1>7, <2>1, Planned DEF PlanApprovedOnly
<1>8. CASE DeclinePartialPlan
  <2>1. /\ session' = [session EXCEPT !.pc = "check", !.group = 0, !.left = {}]
        /\ UNCHANGED <<history, choices>> /\ session.pc = "prompt"
    BY <1>8 DEF DeclinePartialPlan, Goto
  <2>2. session' \in SessionType /\ SameAudit /\ session'.pc = "check"
    BY <1>1, <2>1 DEF SessionType, Pcs, SameAudit
  <2>3. Current' => Current
    BY <2>1 DEF Current
  <2>4. HeadsBehind' /\ ShownIsSelected' /\ RejectionsKnown'
    BY <2>1, <2>2, <2>3, Carried
  <2> QED  BY <2>2, <2>4 DEF Session, PassOpen, GroupKnown, NothingOpen
<1>9. CASE SaveAndQuit
  BY <1>9, WithoutReview DEF SaveAndQuit, Goto
<1> QED  BY <1>3, <1>4, <1>5, <1>6, <1>7, <1>8, <1>9 DEF Passes

(* An answer that records nothing. *)
LEMMA SilentAnswers ==
  ASSUME TypeOK, Session,
         NextSource \/ QuitReview \/ DeclineAcceptance \/ ConfirmBatch \/ EndBatch \/ EndMarking
  PROVE  session' \in SessionType /\ Session'
<1>1. session \in SessionType
  BY TypeParts
<1>2. CASE QuitReview \/ EndBatch \/ EndMarking
  BY <1>2, Passed DEF QuitReview, EndBatch, EndMarking, AtItem
<1>3. CASE NextSource
  <2> DEFINE s == At
  <2>1. /\ session' = [session EXCEPT !.todo = @ \ {s}] /\ UNCHANGED <<history, choices>>
        /\ session.pc = "item"
    BY <1>3 DEF NextSource, AtItem, Goto
  <2> HIDE DEF s
  <2>2. /\ session' \in SessionType /\ SameAudit /\ session'.pc = "item"
        /\ session'.todo \subseteq session.todo /\ session'.scope = session.scope
        /\ session'.decided = session.decided /\ session'.group = session.group
    BY <1>1, <2>1 DEF SessionType, SameAudit
  <2>3. Current' => Current
    BY <2>1 DEF Current
  <2>4. /\ HeadsBehind' /\ ShownIsSelected' /\ RejectionsKnown'
        /\ \A t : Open(t)' <=> Open(t)
    BY <2>1, <2>2, <2>3, Carried
  <2>5. PassOpen'
    BY <2>1, <2>2, <2>4 DEF Session, PassOpen, SameAudit
  <2>6. GroupKnown' /\ NothingOpen'
    BY <2>1, <2>2 DEF Session, GroupKnown, NothingOpen
  <2> QED  BY <2>2, <2>4, <2>5, <2>6 DEF Session
<1>4. CASE DeclineAcceptance
  <2>1. /\ session' = [session EXCEPT !.pc = "item", !.cand = Nobody]
        /\ UNCHANGED <<history, choices>> /\ session.pc = "confirm"
    BY <1>4 DEF DeclineAcceptance, Goto
  <2>2. /\ session' \in SessionType /\ SameAudit /\ session'.pc = "item"
        /\ session'.todo = session.todo /\ session'.scope = session.scope
        /\ session'.decided = session.decided /\ session'.group = session.group
    BY <1>1, <2>1 DEF SessionType, Pcs, SameAudit
  <2>3. Current' => Current
    BY <2>1 DEF Current
  <2>4. /\ HeadsBehind' /\ ShownIsSelected' /\ RejectionsKnown'
        /\ \A t : Open(t)' <=> Open(t)
    BY <2>1, <2>2, <2>3, Carried
  <2>5. PassOpen'
    BY <2>1, <2>2, <2>4 DEF Session, PassOpen, SameAudit
  <2>6. GroupKnown' /\ NothingOpen'
    BY <2>1, <2>2 DEF Session, GroupKnown, NothingOpen
  <2> QED  BY <2>2, <2>4, <2>5, <2>6 DEF Session
<1>5. CASE ConfirmBatch
  <2>1. PICK scope : /\ session' = [session EXCEPT !.pc = "batch", !.rest = BatchItems(scope)]
                     /\ UNCHANGED <<history, choices>> /\ session.pc = "item"
    BY <1>5 DEF ConfirmBatch, AtItem, Goto
  <2> DEFINE rest == BatchItems(scope)
  <2>2. /\ rest \in SUBSET session.items /\ rest \in SUBSET Sources
        /\ \A s \in rest : Open(s) /\ BatchEligible(s)
    BY <1>1, <2>1 DEF BatchItems, Session, PassOpen, SessionType
  <2>3. session' = [session EXCEPT !.pc = "batch", !.rest = rest]
    BY <2>1
  <2> HIDE DEF rest
  <2>4. /\ session' \in SessionType /\ SameAudit /\ session'.pc = "batch"
        /\ session'.rest = rest /\ session'.group = session.group
    BY <1>1, <2>2, <2>3 DEF SessionType, Pcs, SameAudit
  <2>5. Current' => Current
    BY <2>1 DEF Current
  <2>6. /\ HeadsBehind' /\ ShownIsSelected' /\ RejectionsKnown'
        /\ \A t : Open(t)' <=> Open(t)
    BY <2>1, <2>4, <2>5, Carried
  <2>7. \A t : BatchEligible(t)' <=> BatchEligible(t)
    BY <2>4, SameBatch
  <2>8. PassOpen'
    BY <2>2, <2>4, <2>6, <2>7 DEF PassOpen, SameAudit
  <2>9. GroupKnown' /\ NothingOpen'
    BY <2>1, <2>4 DEF Session, GroupKnown, NothingOpen
  <2> QED  BY <2>4, <2>6, <2>8, <2>9 DEF Session
<1> QED  BY <1>2, <1>3, <1>4, <1>5

----------------------------------------------------------------------------
(* The answers that record a row *)

LEMMA DisplayedIs ==
  ASSUME NEW s \in Sources, NEW c \in Displayed(s)
  PROVE  c \in Candidates
<1>1. PICK i \in DOMAIN Offers[s] : c = Offers[s][i]
  BY DEF Displayed
<1>2. Offers[s] \in Seq(Candidates)
  BY ReviewFlowAssumption DEF ReviewFlowAssumption
<1> QED  BY <1>1, <1>2, LenProperties, ElementOfSeq

LEMMA TopDisplayed ==
  ASSUME NEW s \in Sources, BatchEligible(s)
  PROVE  Top(s) \in Displayed(s) \ Yearless /\ <<s, Top(s)>> \notin session.rejected
<1>1. DOMAIN Offers[s] \in SUBSET Nat
  <2>1. Offers[s] \in Seq(Candidates)
    BY ReviewFlowAssumption DEF ReviewFlowAssumption
  <2> QED  BY <2>1, LenProperties
<1>2. Ranked(s, session.shown) \subseteq DOMAIN Offers[s]
  BY DEF Ranked
<1>3. Least(Ranked(s, session.shown)) \in Ranked(s, session.shown)
  BY <1>1, <1>2, LeastIs DEF BatchEligible
<1> QED  BY <1>2, <1>3, ReviewFlowAssumption
         DEF ReviewFlowAssumption, Top, Displayed, BatchEligible

(* An answer that decides the item at hand. *)
Deciding ==
  \/ EnterIdentity \/ ConfirmAcceptance
  \/ \E c \in Candidates : AcceptShown(c) \/ Reject(c)
  \/ \E type \in {"unresolved", "skipped"} : LeaveOut(type)

(* It records an outcome of its own on the evidence shown. *)
Outcome(d) ==
  /\ d.evidence = session.seen[At] /\ d.reason = "explicit" /\ d.type \in ReviewComplete
  /\ d.clears = {}

LEMMA DecidingAdds ==
  ASSUME TypeOK, Records, Session, Deciding
  PROVE  /\ \E d \in Decision(Evidence) : Add(At, d) /\ Outcome(d) /\ Grounded(At, d)
         /\ Decided(At) /\ UNCHANGED unmarked
         /\ session.pc \in {"item", "confirm"} /\ session.todo # {}
<1>1. /\ session.pc \in {"item", "confirm"} /\ session.todo # {}
      /\ Decided(At) /\ UNCHANGED unmarked
  BY DEF Deciding, EnterIdentity, ConfirmAcceptance, AcceptShown, Reject, LeaveOut, AtItem,
         Session, PassOpen
<1>2. At \in Sources /\ session.seen[At] \in Evidence
  BY <1>1, AtHand
<1>4. "explicit" \in Reasons /\ Manual \in Subjects /\ Candidates \subseteq Subjects
      /\ {"manual_identity", "rejected", "unresolved", "skipped"} \subseteq ReviewComplete
      /\ ReviewComplete \subseteq DecisionTypes
  BY DEF Reasons, Subjects, ReviewComplete, Authorizing, Excluding, DecisionTypes
<1>5. ASSUME NEW type \in ReviewComplete, NEW c \in Subjects \cup {Nobody}
      PROVE  /\ Decide(type, c, session.seen[At]) \in Decision(Evidence)
             /\ Outcome(Decide(type, c, session.seen[At]))
             /\ Decide(type, c, session.seen[At]).type = type
             /\ Decide(type, c, session.seen[At]).subject = c
  <2> DEFINE e == session.seen[At]
  <2>1. type \in DecisionTypes /\ e \in Evidence
    BY <1>2, <1>4
  <2>2. /\ Decide(type, c, e) \in Decision(Evidence)
        /\ Decide(type, c, e).type = type /\ Decide(type, c, e).subject = c
        /\ Decide(type, c, e).evidence = e /\ Decide(type, c, e).reason = "explicit"
        /\ Decide(type, c, e).clears = {}
    <3> HIDE DEF e
    <3> QED  BY <2>1, RowTypes
  <2> QED  BY <2>2 DEF Outcome
<1>6. CASE EnterIdentity
  <2>1. Grounded(At, Decide("manual_identity", Manual, session.seen[At]))
    BY <1>4, <1>5, DecisionsAssumption, ReviewFlowAssumption
       DEF DecisionsAssumption, ReviewFlowAssumption, Grounded
  <2> QED  BY <1>1, <1>4, <1>5, <1>6, <2>1 DEF EnterIdentity
<1>7. AcceptedAs(At) \in {"accepted", "work_accepted"} /\ AcceptedAs(At) \in ReviewComplete
  BY DEF AcceptedAs, ReviewComplete, Authorizing
<1>8. ASSUME NEW c \in Displayed(At), c \in Yearless => "run_start_year" \in Edits(history[At])
      PROVE  /\ c \in Subjects
             /\ Grounded(At, Decide(AcceptedAs(At), c, session.seen[At]))
  <2>1. c \in Candidates
    BY <1>2, DisplayedIs
  <2>2. c \in Subjects
    BY <1>4, <2>1
  <2>3. /\ Decide(AcceptedAs(At), c, session.seen[At]).type = AcceptedAs(At)
        /\ Decide(AcceptedAs(At), c, session.seen[At]).subject = c
    BY <1>5, <1>7, <2>2
  <2> QED  BY <1>7, <1>8, <2>1, <2>2, <2>3 DEF Grounded
<1>9. CASE ConfirmAcceptance
  <2>1. session.cand \in Displayed(At) /\ "run_start_year" \in Edits(history[At])
    BY <1>9 DEF ConfirmAcceptance, Session, PassOpen
  <2> QED  BY <1>1, <1>5, <1>7, <1>8, <1>9, <2>1 DEF ConfirmAcceptance
<1>10. ASSUME NEW c \in Candidates, AcceptShown(c)
       PROVE  \E d \in Decision(Evidence) : Add(At, d) /\ Outcome(d) /\ Grounded(At, d)
  BY <1>5, <1>7, <1>8, <1>10 DEF AcceptShown
<1>11. ASSUME NEW type \in {"rejected", "unresolved", "skipped"},
              NEW c \in Subjects \cup {Nobody}, Add(At, Decide(type, c, session.seen[At]))
       PROVE  \E d \in Decision(Evidence) : Add(At, d) /\ Outcome(d) /\ Grounded(At, d)
  <2>1. type \in ReviewComplete /\ type \notin Authorizing
    BY <1>4 DEF Authorizing
  <2>2. Grounded(At, Decide(type, c, session.seen[At]))
    BY <1>5, <2>1 DEF Grounded
  <2> QED  BY <1>5, <1>11, <2>1, <2>2
<1>12. ASSUME NEW c \in Candidates, Reject(c)
       PROVE  \E d \in Decision(Evidence) : Add(At, d) /\ Outcome(d) /\ Grounded(At, d)
  BY <1>4, <1>11, <1>12 DEF Reject
<1>13. ASSUME NEW type \in {"unresolved", "skipped"}, LeaveOut(type)
       PROVE  \E d \in Decision(Evidence) : Add(At, d) /\ Outcome(d) /\ Grounded(At, d)
  BY <1>11, <1>13 DEF LeaveOut
<1> QED  BY <1>1, <1>6, <1>9, <1>10, <1>12, <1>13 DEF Deciding

(* A decided item is no longer in doubt. *)
LEMMA DecidingKeeps ==
  ASSUME TypeOK, Records, Session, Deciding
  PROVE  session' \in SessionType /\ Session'
<1>0. PICK at \in Sources : at = At
  BY DecidingAdds, AtHand
<1>1. PICK d \in Decision(Evidence) : Add(at, d) /\ Outcome(d)
  BY <1>0, DecidingAdds
<1>2. /\ session.pc \in {"item", "confirm"} /\ at \in session.todo /\ at \in Sources
      /\ session' = [session EXCEPT !.pc = "item", !.todo = @ \ {at}, !.cand = Nobody,
                                    !.decided = @ \cup {at}]
  BY <1>0, DecidingAdds, AtHand DEF Decided
<1>3. /\ d.evidence = session.seen[at] /\ d.reason = "explicit" /\ d.type \in ReviewComplete
      /\ session \in SessionType
  BY <1>0, <1>1, TypeParts DEF Outcome
<1>4. /\ session' \in SessionType /\ SameAudit /\ session'.pc = "item"
      /\ session'.todo = session.todo \ {at} /\ session'.scope = session.scope
      /\ session'.decided = session.decided \cup {at} /\ session'.group = session.group
  BY <1>2, <1>3 DEF SessionType, Pcs, SameAudit
<1>5. ~Open(at)'
  <2>1. /\ history'[at] = Append(history[at], d) /\ history[at] \in Histories
        /\ HeadId(at) \in Nat /\ session.heads[at] <= HeadId(at) /\ session.heads[at] \in Nat
    BY <1>1, <1>2, OtherSources, AtHand DEF Session, HeadsBehind
  <2>2. /\ history'[at] # <<>> /\ Latest(history'[at]) = d
        /\ Len(history'[at]) # session.heads[at]
    BY <2>1, Appended DEF HeadId
  <2> QED  BY <1>3, <1>4, <2>2 DEF Open, NeedsReview, SameAudit
<1>6. Current' => Current
  BY <1>2 DEF Current
<1>7. /\ HeadsBehind' /\ ShownIsSelected' /\ RejectionsKnown' /\ UNCHANGED choices
      /\ \A t \in Sources : t # at => (Open(t)' <=> Open(t))
  BY <1>1, <1>2, <1>4, <1>5, <1>6, CarriedOver
<1>8. PassOpen'
  <2>1. /\ session.scope \subseteq session.items /\ session.items \subseteq Sources
        /\ session.todo \subseteq session.scope \ session.decided
        /\ \A t \in session.scope \ session.decided : Open(t)
    BY <1>2, <1>3 DEF Session, PassOpen, SessionType
  <2>2. /\ session'.scope \subseteq session'.items
        /\ session'.todo \subseteq session'.scope \ session'.decided
    BY <1>4, <2>1 DEF SameAudit
  <2>3. \A t \in session'.scope \ session'.decided : Open(t)'
    BY <1>4, <1>7, <2>1
  <2> QED  BY <1>4, <2>2, <2>3 DEF PassOpen
<1>9. GroupKnown' /\ NothingOpen'
  BY <1>2, <1>4, <1>7 DEF Session, GroupKnown, NothingOpen
<1> QED  BY <1>4, <1>7, <1>8, <1>9 DEF Session

(* An override at the item at hand, alone or before an acceptance without  *)
(* its run year, which must then be confirmed.                             *)
Editing(f) ==
  \/ EditField(f)
  \/ f = "run_start_year" /\ \E c \in Candidates : ConfirmYear(c)

EditOf(f) == Override(session.seen[At], Edits(history[At]) \cup {f}, {})

LEMMA EditingAdds ==
  ASSUME TypeOK, Session, NEW f \in Fields, Editing(f)
  PROVE  /\ EditOf(f) \in Decision(Evidence) /\ EditOf(f).type = "manual_override"
         /\ EditOf(f).clears = {} /\ f \in EditOf(f).sets
         /\ Add(At, EditOf(f)) /\ Grounded(At, EditOf(f)) /\ UNCHANGED unmarked
         /\ AtItem
<1>1. AtItem /\ Add(At, EditOf(f)) /\ UNCHANGED unmarked
  BY DEF Editing, EditField, ConfirmYear, EditOf
<1>2. session.seen[At] \in Evidence
  BY <1>1, AtHand DEF AtItem
<1> DEFINE F == Edits(history[At]) \cup {f}
<1>3. F \in SUBSET Fields /\ f \in F
  BY DEF Edits
<1>4. /\ EditOf(f) \in Decision(Evidence) /\ EditOf(f).type = "manual_override"
      /\ EditOf(f).sets = F /\ EditOf(f).clears = {}
  <2>1. EditOf(f) = Override(session.seen[At], F, {})
    BY DEF EditOf
  <2> HIDE DEF F
  <2> QED  BY <1>2, <1>3, <2>1, RowTypes
<1>5. Grounded(At, EditOf(f))
  BY <1>4, NobodyElse DEF Grounded
<1> QED  BY <1>1, <1>3, <1>4, <1>5

LEMMA EditingKeeps ==
  ASSUME TypeOK, Session, NEW f \in Fields, Editing(f)
  PROVE  session' \in SessionType /\ Session'
<1>1. PICK at \in Sources, d \in Decision(Evidence) :
        at = At /\ Add(at, d) /\ d.type = "manual_override" /\ d.clears = {} /\ f \in d.sets
  BY EditingAdds, AtHand DEF AtItem
<1>2. session \in SessionType /\ session.pc = "item" /\ at \in session.todo
  BY <1>1, EditingAdds, AtHand, TypeParts DEF AtItem
<1>3. \/ session' = session
      \/ /\ f = "run_start_year"
         /\ \E c \in Candidates : /\ c \in Displayed(at)
                                  /\ session' = [session EXCEPT !.pc = "confirm", !.cand = c]
  BY <1>1 DEF Editing, EditField, ConfirmYear
<1>4. /\ session' \in SessionType /\ SameAudit /\ session'.pc \in {"item", "confirm"}
      /\ session'.todo = session.todo /\ session'.scope = session.scope
      /\ session'.decided = session.decided /\ session'.group = session.group
      /\ session'.pc = "confirm" => f = "run_start_year" /\ session'.cand \in Displayed(at)
  <2>1. CASE session' = session
    BY <1>2, <2>1 DEF SameAudit
  <2>2. ASSUME NEW c \in Candidates, c \in Displayed(at), f = "run_start_year",
               session' = [session EXCEPT !.pc = "confirm", !.cand = c]
        PROVE  /\ session' \in SessionType /\ SameAudit /\ session'.pc = "confirm"
               /\ session'.todo = session.todo /\ session'.scope = session.scope
               /\ session'.decided = session.decided /\ session'.group = session.group
               /\ session'.cand = c
    BY <1>2, <2>2 DEF SessionType, Pcs, SameAudit
  <2> QED  BY <1>3, <2>1, <2>2, <1>2
<1>5. Current' => Current
  BY <1>2 DEF Current
<1>7. /\ session.scope \subseteq session.items /\ session.items \subseteq Sources
      /\ session.todo \subseteq session.scope \ session.decided
      /\ \A t \in session.scope \ session.decided : Open(t)
  BY <1>2 DEF Session, PassOpen, SessionType
<1>8. Open(at)
  BY <1>2, <1>7
<1>9. /\ HeadsBehind' /\ ShownIsSelected' /\ RejectionsKnown' /\ UNCHANGED choices
      /\ \A t \in Sources : t # at => (Open(t)' <=> Open(t))
      /\ Latest(history'[at]) = d
  <2>1. d.type # "rejected"
    BY <1>1
  <2> QED  BY <1>1, <1>4, <1>5, <1>8, <2>1, CarriedOver
<1>10. Open(at)'
  BY <1>1, <1>9, NobodyElse DEF Open, NeedsReview
<1>11. /\ At' = At /\ Displayed(at)' = Displayed(at)
       /\ "run_start_year" = f => "run_start_year" \in Edits(history'[at])
  <2>1. history'[at] = Append(history[at], d) /\ history[at] \in Histories
    BY <1>1, OtherSources, AtHand
  <2> QED  BY <1>1, <1>4, <2>1, SameBatch, EditsGrow DEF At
<1>12. PassOpen'
  <2>1. \A t \in session'.scope \ session'.decided : Open(t)'
    BY <1>4, <1>7, <1>9, <1>10
  <2>2. session'.pc = "confirm" =>
          /\ session'.todo # {} /\ session'.cand \in Displayed(At)'
          /\ "run_start_year" \in Edits(history[At])'
    <3>1. At' = at
      BY <1>1, <1>11
    <3> QED  BY <1>2, <1>4, <1>11, <3>1
  <2> QED  BY <1>4, <1>7, <2>1, <2>2 DEF PassOpen, SameAudit
<1>13. GroupKnown' /\ NothingOpen'
  BY <1>2, <1>4, <1>9 DEF Session, GroupKnown, NothingOpen
<1> QED  BY <1>4, <1>9, <1>12, <1>13 DEF Session

LEMMA BatchAdds ==
  ASSUME TypeOK, Session, BatchAccept
  PROVE  \E s \in Sources, d \in Decision(Evidence) :
           /\ Add(s, d) /\ s \in session.rest /\ s \in session.items
           /\ Open(s) /\ d.subject \in Candidates /\ <<s, d.subject>> \notin session.rejected
           /\ d.type = "accepted" /\ d.clears = {} /\ Grounded(s, d)
           /\ session' = [session EXCEPT !.rest = @ \ {s}]
           /\ session.pc = "batch" /\ UNCHANGED unmarked
<1>1. /\ session.pc = "batch" /\ session.rest # {} /\ UNCHANGED unmarked
      /\ Add(Least(session.rest),
             Decide("accepted", Top(Least(session.rest)), session.seen[Least(session.rest)]))
      /\ session' = [session EXCEPT !.rest = @ \ {Least(session.rest)}]
  BY DEF BatchAccept
<1>2. PICK s \in Sources : s = Least(session.rest) /\ s \in session.rest
  BY <1>1, AtHand
<1>3. /\ Open(s) /\ BatchEligible(s) /\ s \in session.items /\ Current
      /\ session.seen[s] \in Evidence
  BY <1>1, <1>2, AtHand DEF Session, PassOpen, Current
<1>4. Top(s) \in Displayed(s) \ Yearless /\ <<s, Top(s)>> \notin session.rejected
  BY <1>3, TopDisplayed
<1>5. Top(s) \in Candidates
  BY <1>4, DisplayedIs
<1> DEFINE d == Decide("accepted", Top(s), session.seen[s])
<1>6. /\ d \in Decision(Evidence) /\ d.subject = Top(s) /\ d.type = "accepted"
      /\ d.clears = {} /\ Top(s) \in Subjects
  <2>1. "accepted" \in DecisionTypes /\ Top(s) \in Subjects
    BY <1>5 DEF DecisionTypes, Authorizing, Subjects
  <2> QED  BY <1>3, <2>1, RowTypes
<1>7. Grounded(s, d)
  BY <1>4, <1>5, <1>6 DEF Grounded
<1>8. Add(s, d) /\ session' = [session EXCEPT !.rest = @ \ {s}]
  BY <1>1, <1>2
<1> HIDE DEF d
<1> QED  BY <1>1, <1>2, <1>3, <1>4, <1>5, <1>6, <1>7, <1>8

LEMMA BatchKeeps ==
  ASSUME TypeOK, Session, BatchAccept
  PROVE  session' \in SessionType /\ Session'
<1>1. PICK s \in Sources, d \in Decision(Evidence) :
        /\ Add(s, d) /\ Open(s) /\ d.type = "accepted"
        /\ session' = [session EXCEPT !.rest = @ \ {s}] /\ session.pc = "batch"
  BY BatchAdds
<1>2. session \in SessionType
  BY TypeParts
<1>3. /\ session' \in SessionType /\ SameAudit /\ session'.pc = "batch"
      /\ session'.rest = session.rest \ {s} /\ session'.group = session.group
  BY <1>1, <1>2 DEF SessionType, SameAudit
<1>4. Current' => Current
  BY <1>1 DEF Current
<1>5. /\ HeadsBehind' /\ ShownIsSelected' /\ RejectionsKnown' /\ UNCHANGED choices
      /\ \A t \in Sources : t # s => (Open(t)' <=> Open(t))
  <2>1. d.type # "rejected"
    BY <1>1
  <2> QED  BY <1>1, <1>3, <1>4, <2>1, CarriedOver
<1>6. PassOpen'
  <2>1. /\ session.rest \subseteq session.items /\ session.items \subseteq Sources
        /\ \A t \in session.rest : Open(t) /\ BatchEligible(t)
    BY <1>1, <1>2 DEF Session, PassOpen, SessionType
  <2>2. \A t : BatchEligible(t)' <=> BatchEligible(t)
    BY <1>3, SameBatch
  <2>3. \A t \in session'.rest : Open(t)' /\ BatchEligible(t)'
    BY <1>3, <1>5, <2>1, <2>2
  <2> QED  BY <1>3, <2>1, <2>3 DEF PassOpen, SameAudit
<1>7. GroupKnown' /\ NothingOpen'
  BY <1>1, <1>3, <1>5 DEF Session, GroupKnown, NothingOpen
<1> QED  BY <1>3, <1>5, <1>6, <1>7 DEF Session

(* A run is chosen, and then every audited decision of the series is       *)
(* looked at: not before the next audit does anything rest on this one.    *)
LEMMA ChooseRunKeeps ==
  ASSUME TypeOK, Session, NEW r \in Runs, ChooseRun(r)
  PROVE  session' \in SessionType /\ Session'
<1>1. /\ session' = [session EXCEPT !.pc = "mark", !.rest = session.items \cap Comics]
      /\ choices' = Append(choices, r) /\ UNCHANGED history /\ session.pc = "item"
      /\ session \in SessionType
  BY TypeParts DEF ChooseRun, AtItem
<1>2. /\ session' \in SessionType /\ SameAudit /\ session'.pc = "mark"
      /\ session'.group = session.group
  BY <1>1 DEF SessionType, Pcs, SameAudit
<1>3. Len(choices') = Len(choices) + 1 /\ Len(choices) \in Nat
  BY <1>1, TypeParts, AppendProperties, LenProperties
<1>4. GroupKnown'
  BY <1>1, <1>2, <1>3 DEF Session, GroupKnown
<1>5. HeadsBehind'
  BY <1>1, <1>2 DEF Session, HeadsBehind, HeadId, SameAudit
<1> QED  BY <1>2, <1>4, <1>5 DEF Session, ShownIsSelected, RejectionsKnown, Current, PassOpen,
            NothingOpen

LEMMA MarkNextIs ==
  ASSUME TypeOK, Session, MarkNext
  PROVE  \E s \in Sources :
           /\ session' = [session EXCEPT !.rest = @ \ {s}] /\ session.pc = "mark"
           /\ unmarked' = unmarked \ {s}
           /\ \/ /\ ~Incompatible(s)
                 /\ UNCHANGED <<history, choices, evidence, plan, built, taken, done, under>>
              \/ \E d \in Decision(Evidence) :
                   Add(s, d) /\ d.clears = {} /\ d.type = "unresolved"
<1> DEFINE s == Least(session.rest)
<1>1. /\ session' = [session EXCEPT !.rest = @ \ {s}] /\ session.pc = "mark"
      /\ unmarked' = unmarked \ {s} /\ s \in Sources /\ session.seen[s] \in Evidence
      /\ \/ Add(s, Reopened(session.seen[s], "run_group_changed"))
         \/ /\ ~Incompatible(s)
            /\ UNCHANGED <<history, choices, evidence, plan, built, taken, done, under>>
  BY AtHand DEF MarkNext
<1> DEFINE d == Reopened(session.seen[s], "run_group_changed")
<1>2. d \in Decision(Evidence) /\ d.clears = {} /\ d.type = "unresolved"
  <2> HIDE DEF s
  <2> QED  BY <1>1, RowTypes DEF Reasons
<1> HIDE DEF s, d
<1>3. Add(s, d) => \E e \in Decision(Evidence) : Add(s, e) /\ e.clears = {} /\ e.type = "unresolved"
  BY <1>2
<1>4. \/ Add(s, d)
      \/ /\ ~Incompatible(s)
         /\ UNCHANGED <<history, choices, evidence, plan, built, taken, done, under>>
  BY <1>1 DEF d
<1> QED  BY <1>1, <1>3, <1>4

LEMMA MarkNextKeeps ==
  ASSUME TypeOK, Session, MarkNext
  PROVE  session' \in SessionType /\ Session'
<1>1. PICK s \in Sources :
        /\ session' = [session EXCEPT !.rest = @ \ {s}] /\ session.pc = "mark"
        /\ \/ UNCHANGED <<history, choices>>
           \/ \E d \in Decision(Evidence) : Add(s, d)
  BY MarkNextIs
<1>2. session \in SessionType
  BY TypeParts
<1>3. /\ session' \in SessionType /\ SameAudit /\ session'.pc = "mark"
      /\ session'.group = session.group
  BY <1>1, <1>2 DEF SessionType, SameAudit
<1>4. ~Current'
  BY <1>3 DEF Current
<1>5. HeadsBehind' /\ ShownIsSelected' /\ RejectionsKnown' /\ UNCHANGED choices
  <2>1. CASE UNCHANGED <<history, choices>>
    BY <1>3, <1>4, <2>1, Carried
  <2>2. ASSUME NEW d \in Decision(Evidence), Add(s, d)
        PROVE  HeadsBehind' /\ ShownIsSelected' /\ RejectionsKnown' /\ UNCHANGED choices
    BY <1>3, <1>4, <2>2, CarriedOver
  <2> QED  BY <1>1, <2>1, <2>2
<1> QED  BY <1>1, <1>3, <1>5 DEF Session, GroupKnown, PassOpen, NothingOpen

----------------------------------------------------------------------------
(* Every step keeps the invariant *)

LEMMA TypesAdded ==
  ASSUME TypeOK, NEW s \in Sources, NEW d \in Decision(Evidence), Add(s, d),
         session' \in SessionType, unmarked' \subseteq Comics
  PROVE  TypeOK'
<1>1. /\ history \in [Sources -> Histories] /\ choices \in Seq(Runs)
      /\ evidence \in [Sources -> Evidence] /\ plan \in PlanType
      /\ built \in 0..MaxPlans /\ done \subseteq Sources
      /\ taken \in [Sources -> Nat] /\ under \in [Sources -> Nat] /\ Len(choices) \in Nat
  BY TypeParts, AtHand
<1>2. history' = [history EXCEPT ![s] = Append(history[s], d)]
      /\ under' = [under EXCEPT ![s] = Len(choices)]
      /\ UNCHANGED <<choices, evidence, built, taken, done>>
  BY DEF Add
<1>3. Append(history[s], d) \in Histories
  BY <1>1, Appended
<1>4. history' \in [Sources -> Histories]
  BY <1>1, <1>2, <1>3
<1>5. plan' \in PlanType
  BY <1>1 DEF Add, Touch, PlanType
<1>6. under' \in [Sources -> Nat]
  BY <1>1, <1>2
<1> QED  BY <1>1, <1>2, <1>4, <1>5, <1>6, TypePartsAfter

(* Steps that only change the session. *)
LEMMA Quiet ==
  ASSUME TypeOK, Records, session' \in SessionType,
         UNCHANGED <<history, choices, evidence, plan, built, taken, done, unmarked, under>>
  PROVE  TypeOK' /\ Records'
<1>1. TypeOK'
  BY TypeParts, TypePartsAfter
<1> QED  BY <1>1, RecordsKept

LEMMA InitHolds == Init => IInv
<1> SUFFICES ASSUME Init PROVE IInv
  OBVIOUS
<1>1. /\ history = [s \in Sources |-> <<>>] /\ choices = <<>> /\ session = Idle
      /\ evidence = [s \in Sources |-> FirstEvidence] /\ plan = NoPlan /\ built = 0
      /\ done = {} /\ unmarked = {} /\ taken = NoHeads /\ under = NoHeads
  BY DEF Init
<1>2. TypeOK
  <2>1. <<>> \in Histories /\ <<>> \in Seq(Runs)
    BY EmptySeq DEF Histories
  <2>2. plan \in PlanType
    BY <1>1 DEF NoPlan, PlanType
  <2>3. evidence \in [Sources -> Evidence] /\ 0 \in 0..MaxPlans
    BY <1>1, ReviewFlowAssumption DEF ReviewFlowAssumption
  <2>4. history \in [Sources -> Histories]
    BY <1>1, <2>1
  <2>5. NoHeads \in [Sources -> Nat]
    BY DEF NoHeads
  <2> QED  BY <1>1, <2>1, <2>2, <2>3, <2>4, <2>5, IdleType, TypeParts
<1>3. \A s \in Sources : history[s] = <<>> /\ Len(history[s]) = 0
  BY <1>1, EmptySeq
<1>4. Records
  BY <1>1, <1>3, ReviewFlowAssumption
     DEF ReviewFlowAssumption, Records, Answerable, MarkedAgree, DraftCurrent, LatestIs, NoPlan, Offered
<1>5. Session
  <2>1. session.pc = "idle" /\ \A s \in Sources : session.heads[s] = 0
    BY <1>1, IdleType
  <2> QED  BY <1>3, <2>1 DEF Session, HeadsBehind, HeadId, GroupKnown, ShownIsSelected, Current,
              RejectionsKnown, PassOpen, NothingOpen
<1>6. RecoveryFirst
  BY <1>1 DEF RecoveryFirst, NoPlan
<1> QED  BY <1>2, <1>4, <1>5, <1>6 DEF IInv

(* With an interrupted run no session begins, and none is there when one   *)
(* is interrupted.                                                         *)
LEMMA RecoveryStaysFirst ==
  ASSUME TypeOK, RecoveryFirst, [Next]_vars
  PROVE  RecoveryFirst'
<1>1. CASE plan.state = "interrupted"
  <2>1. session.pc = "idle"
    BY <1>1 DEF RecoveryFirst
  <2>2. ~Starting /\ ~Reopening /\ ~Passes /\ ~Die
    BY <1>1, <2>1 DEF Starting, StartsFrom, UseSaved, ReviewAgain, Reprocess, ResumeReviewed,
       ResumeReview, Resume, Reopening, Reopenings, Reopen, Passes, BeginPass, EndPass, AfterPass,
       ReturnToReview, PlanApprovedOnly, DeclinePartialPlan, SaveAndQuit, Die
  <2>3. ~Answers
    BY <2>1 DEF Answers, NextSource, QuitReview, EnterIdentity, ConfirmAcceptance,
       DeclineAcceptance, ConfirmBatch, BatchAccept, EndBatch, MarkNext, EndMarking, EditField,
       AcceptShown, ConfirmYear, Reject, LeaveOut, ChooseRun, AtItem
  <2>4. UNCHANGED session
    BY <2>1, <2>2, <2>3 DEF Next, Planning, NoActionableItems, BuildPlan, Apply, Recover, Abandon,
       RunEnds, LoseDestination, EvidenceChanges, vars
  <2> QED  BY <2>1, <2>4 DEF RecoveryFirst
<1>2. CASE plan.state # "interrupted" /\ UNCHANGED plan
  BY <1>2 DEF RecoveryFirst
<1>3. CASE Apply
  BY <1>3 DEF Apply, RecoveryFirst
<1>4. CASE BuildPlan
  BY <1>4 DEF BuildPlan, RecoveryFirst
<1>5. ASSUME NEW s, NEW d, Add(s, d), plan.state # "interrupted" PROVE plan'.state # "interrupted"
  BY <1>5, TypeParts DEF Add, Touch, PlanType
<1>6. ASSUME TouchGroup, plan.state # "interrupted" PROVE plan'.state # "interrupted"
  BY <1>6, TypeParts DEF TouchGroup, PlanType
<1>7. CASE plan.state # "interrupted" /\ ~UNCHANGED plan
  <2>1. ~Starting /\ ~Passes /\ ~Die /\ ~UNCHANGED vars
    BY <1>7 DEF Starting, UseSaved, ReviewAgain, Reprocess, ResumeReviewed, ResumeReview, Passes,
       BeginPass, EndPass, AfterPass, ReturnToReview, PlanApprovedOnly, DeclinePartialPlan,
       SaveAndQuit, ToPlan, Goto, Die, vars
  <2>2. CASE Reopening
    <3>1. Reopen
      BY <1>7, <2>2 DEF Reopening, UseSaved, ReviewAgain, Reprocess, Goto
    <3> QED  BY <1>5, <1>7, <3>1 DEF Reopen, RecoveryFirst
  <2>3. CASE Answers
    <3>1. (\E s, d : Add(s, d)) \/ TouchGroup
      BY <1>7, <2>3 DEF Answers, NextSource, QuitReview, EnterIdentity, ConfirmAcceptance,
         DeclineAcceptance, ConfirmBatch, BatchAccept, EndBatch, MarkNext, EndMarking, EditField,
         AcceptShown, ConfirmYear, Reject, LeaveOut, ChooseRun, Goto
    <3> QED  BY <1>5, <1>6, <1>7, <3>1 DEF RecoveryFirst
  <2>4. CASE Planning
    <3>1. Apply \/ BuildPlan
      BY <1>7, <2>4 DEF Planning, NoActionableItems, Goto, Recover, Abandon, RunEnds,
         LoseDestination, EvidenceChanges
    <3> QED  BY <1>3, <1>4, <3>1
  <2> QED  BY <2>1, <2>2, <2>3, <2>4 DEF Next
<1> QED  BY <1>1, <1>2, <1>7

LEMMA StepHolds == IInv /\ [Next]_vars => IInv'
<1> SUFFICES ASSUME IInv, [Next]_vars PROVE IInv'
  OBVIOUS
<1>1. TypeOK /\ Records /\ Session /\ unmarked \subseteq Comics
  BY TypeParts DEF IInv
<1>0. RecoveryFirst'
  BY <1>1, RecoveryStaysFirst DEF IInv
<1>00. session.pc # "idle" => plan.state # "interrupted"
  BY DEF IInv, RecoveryFirst
<1> DEFINE Same == UNCHANGED <<history, choices, evidence, plan, built, taken, done, unmarked, under>>
           Kept == session' \in SessionType /\ Session'
<1>2. Same /\ Kept => IInv'
  BY <1>0, <1>1, Quiet DEF IInv
<1>3. ASSUME NEW s \in Sources, NEW d \in Decision(Evidence), Add(s, d), d.clears = {},
             Grounded(s, d), unmarked' \in {unmarked, unmarked \ {s}}, Kept, session.pc # "idle"
      PROVE  IInv'
  <2>1. unmarked' \subseteq Comics
    BY <1>1, <1>3
  <2> QED  BY <1>0, <1>00, <1>1, <1>3, <2>1, TypesAdded, RecordsAdded DEF IInv
<1>4. CASE Starting
  <2>1. Same
    BY <1>4 DEF Starting, UseSaved, ReviewAgain, Reprocess, ResumeReviewed, ResumeReview, Goto
  <2>2. Kept
    <3>1. CASE \E pcs : UseSaved(pcs) \/ ReviewAgain(pcs) \/ Reprocess(pcs)
      BY <1>1, <3>1, Started
    <3>2. CASE ResumeReviewed \/ ResumeReview
      BY <1>1, <2>1, <3>2, WithoutReview DEF ResumeReviewed, ResumeReview, Goto
    <3> QED  BY <1>4, <3>1, <3>2 DEF Starting
  <2> QED  BY <1>2, <2>1, <2>2
<1>5. CASE Reopening
  <2>1. CASE Reopen
    <3>1. PICK s \in Sources, d \in Decision(Evidence) :
            Add(s, d) /\ d.clears = {} /\ d.type = "unresolved"
      BY <1>1, <2>1, ReopenAdds
    <3>2. Grounded(s, d)
      BY <3>1 DEF Grounded, Authorizing
    <3>3. Kept /\ UNCHANGED unmarked /\ session.pc # "idle"
      BY <1>1, <2>1, ReopenKeeps DEF Reopen
    <3> QED  BY <1>3, <3>1, <3>2, <3>3
  <2>2. ASSUME NEW pcs, UseSaved(pcs) \/ ReviewAgain(pcs) \/ Reprocess(pcs) PROVE IInv'
    <3>1. Same
      BY <2>2 DEF UseSaved, ReviewAgain, Reprocess, Goto
    <3>2. Kept
      BY <1>1, <2>2, Started
    <3> QED  BY <1>2, <3>1, <3>2
  <2> QED  BY <1>5, <2>1, <2>2 DEF Reopening
<1>6. CASE Passes
  <2>1. Same
    BY <1>6 DEF Passes, BeginPass, EndPass, AfterPass, ReturnToReview, PlanApprovedOnly,
       DeclinePartialPlan, SaveAndQuit, ToPlan, Goto
  <2> QED  BY <1>1, <1>2, <1>6, <2>1, PassesKeep
<1>7. CASE NextSource \/ QuitReview \/ DeclineAcceptance \/ ConfirmBatch \/ EndBatch \/ EndMarking
  <2>1. Same
    BY <1>7 DEF NextSource, QuitReview, DeclineAcceptance, ConfirmBatch, EndBatch, EndMarking,
       Goto
  <2> QED  BY <1>1, <1>2, <1>7, <2>1, SilentAnswers
<1>8. CASE Deciding
  <2>1. PICK d \in Decision(Evidence) : Add(At, d) /\ Outcome(d) /\ Grounded(At, d)
    BY <1>1, <1>8, DecidingAdds
  <2>2. PICK s \in Sources : s = At
    BY <1>1, <1>8, DecidingAdds, AtHand
  <2>3. Kept /\ UNCHANGED unmarked /\ session.pc # "idle"
    BY <1>1, <1>8, DecidingAdds, DecidingKeeps
  <2>4. d.clears = {} /\ Add(s, d) /\ Grounded(s, d)
    BY <2>1, <2>2 DEF Outcome
  <2> QED  BY <1>3, <2>3, <2>4
<1>9. ASSUME NEW f \in Fields, Editing(f) PROVE IInv'
  <2>1. PICK d \in Decision(Evidence) : d = EditOf(f)
    BY <1>1, <1>9, EditingAdds
  <2>2. PICK s \in Sources : s = At
    BY <1>1, <1>9, EditingAdds, AtHand DEF AtItem
  <2>3. d.clears = {} /\ Add(s, d) /\ Grounded(s, d) /\ UNCHANGED unmarked
    BY <1>1, <1>9, <2>1, <2>2, EditingAdds
  <2>4. Kept /\ session.pc # "idle"
    BY <1>1, <1>9, EditingAdds, EditingKeeps DEF AtItem
  <2> QED  BY <1>3, <2>3, <2>4
<1>10. CASE BatchAccept
  <2>1. PICK s \in Sources, d \in Decision(Evidence) :
          Add(s, d) /\ d.clears = {} /\ Grounded(s, d) /\ UNCHANGED unmarked
    BY <1>1, <1>10, BatchAdds
  <2>2. Kept /\ session.pc # "idle"
    BY <1>1, <1>10, BatchKeeps DEF BatchAccept
  <2> QED  BY <1>3, <2>1, <2>2
<1>11. CASE MarkNext
  <2>1. Kept /\ session.pc # "idle"
    BY <1>1, <1>11, MarkNextKeeps DEF MarkNext
  <2>2. PICK s \in Sources :
          /\ unmarked' = unmarked \ {s}
          /\ \/ /\ ~Incompatible(s)
                /\ UNCHANGED <<history, choices, evidence, plan, built, taken, done, under>>
             \/ \E d \in Decision(Evidence) : Add(s, d) /\ d.clears = {} /\ d.type = "unresolved"
    BY <1>1, <1>11, MarkNextIs
  <2>3. CASE ~Incompatible(s) /\ UNCHANGED <<history, choices, evidence, plan, built, taken, done, under>>
    <3>1. TypeOK'
      BY <1>1, <2>1, <2>2, <2>3, TypeParts, TypePartsAfter
    <3> QED  BY <1>0, <1>1, <2>1, <2>2, <2>3, <3>1, RecordsMarked DEF IInv
  <2>4. ASSUME NEW d \in Decision(Evidence), Add(s, d), d.clears = {}, d.type = "unresolved"
        PROVE  IInv'
    <3>1. Grounded(s, d)
      BY <2>4 DEF Grounded, Authorizing
    <3> QED  BY <1>3, <2>1, <2>2, <2>4, <3>1
  <2> QED  BY <2>2, <2>3, <2>4
<1>12. ASSUME NEW r \in Runs, ChooseRun(r) PROVE IInv'
  <2>1. Kept
    BY <1>1, <1>12, ChooseRunKeeps
  <2>2. /\ choices' = Append(choices, r) /\ TouchGroup /\ unmarked' = Comics
        /\ UNCHANGED <<history, evidence, built, taken, done, under>> /\ session.pc # "idle"
    BY <1>12 DEF ChooseRun, AtItem
  <2>3. plan' \in PlanType /\ choices' \in Seq(Runs)
    BY <1>1, <2>2, TypeParts, AppendProperties DEF TouchGroup, PlanType
  <2>4. TypeOK'
    BY <1>1, <2>1, <2>2, <2>3, TypeParts, TypePartsAfter
  <2> QED  BY <1>0, <1>00, <1>1, <2>1, <2>2, <2>4, RecordsChosen DEF IInv
<1>13. CASE NoActionableItems
  <2>1. Same /\ session' = Idle
    BY <1>13 DEF NoActionableItems, Goto
  <2> QED  BY <1>1, <1>2, <2>1, WithoutReview
<1>14. CASE BuildPlan
  <2>1. /\ session' = Idle /\ built' = built + 1 /\ built < MaxPlans
        /\ plan' = [items |-> Plannable, heads |-> [s \in Sources |-> HeadId(s)],
                    group |-> Len(choices), state |-> "draft"]
        /\ UNCHANGED <<history, choices, evidence, taken, done, unmarked, under>>
    BY <1>14 DEF BuildPlan
  <2>2. Kept
    BY <1>1, <2>1, WithoutReview
  <2>3. plan' \in PlanType
    <3>1. Plannable \in SUBSET Sources /\ [s \in Sources |-> HeadId(s)] \in [Sources -> Nat]
          /\ Len(choices) \in Nat
      BY <1>1, AtHand DEF Plannable
    <3> HIDE DEF Plannable
    <3> QED  BY <2>1, <3>1 DEF PlanType
  <2>4. built' \in 0..MaxPlans
    BY <1>1, <2>1, TypeParts, ReviewFlowAssumption DEF ReviewFlowAssumption
  <2>5. TypeOK'
    BY <1>1, <2>1, <2>2, <2>3, <2>4, TypeParts, TypePartsAfter
  <2> QED  BY <1>0, <1>1, <1>14, <2>2, <2>5, RecordsPlanned DEF IInv
<1>15. CASE Apply \/ Recover \/ Abandon
  <2>1. /\ UNCHANGED <<history, choices, evidence, session, built, unmarked, under>>
        /\ plan.state \in Offered
        /\ \/ plan' = [plan EXCEPT !.state = "ended"]
           \/ plan' = [plan EXCEPT !.state = "interrupted"]
        /\ done' \in {done, done \cup plan.items}
        /\ \/ UNCHANGED taken
           \/ taken' = [s \in Sources |-> IF s \in plan.items THEN plan.heads[s] ELSE taken[s]]
    BY <1>15 DEF Apply, Recover, Abandon, RunEnds, Offered
  <2>2. /\ plan' \in PlanType /\ plan'.items = plan.items /\ plan'.heads = plan.heads
        /\ done' \subseteq Sources /\ taken' \in [Sources -> Nat]
    BY <1>1, <2>1, TypeParts DEF PlanType
  <2>3. TypeOK'
    BY <1>1, <2>1, <2>2, TypeParts, TypePartsAfter
  <2> QED  BY <1>0, <1>1, <2>1, <2>2, <2>3, RecordsKept, Undisturbed DEF IInv
<1>16. ASSUME NEW s \in Sources, LoseDestination(s) PROVE IInv'
  <2>1. /\ UNCHANGED <<history, choices, evidence, session, plan, built, taken, unmarked, under>>
        /\ done' = done \ {s}
    BY <1>16 DEF LoseDestination
  <2>2. TypeOK'
    BY <1>1, <2>1, TypeParts, TypePartsAfter
  <2> QED  BY <1>0, <1>1, <2>1, <2>2, RecordsKept, Undisturbed DEF IInv
<1>17. ASSUME NEW s \in Sources, NEW e \in Evidence, EvidenceChanges(s, e) PROVE IInv'
  <2>1. /\ UNCHANGED <<history, choices, session, plan, built, taken, done, unmarked, under>>
        /\ evidence' = [evidence EXCEPT ![s] = e]
    BY <1>17 DEF EvidenceChanges
  <2>2. TypeOK'
    BY <1>1, <2>1, TypeParts, TypePartsAfter
  <2> QED  BY <1>0, <1>1, <2>1, <2>2, RecordsKept, Undisturbed DEF IInv
<1>18. CASE Die
  <2>1. Same /\ session' = Idle
    BY <1>18 DEF Die
  <2> QED  BY <1>1, <1>2, <2>1, WithoutReview
<1>19. CASE UNCHANGED vars
  <2>1. Same /\ UNCHANGED session
    BY <1>19 DEF vars
  <2>2. Kept
    BY <1>1, <2>1, TypeParts, Undisturbed
  <2> QED  BY <1>2, <2>1, <2>2
<1>20. CASE Answers
  <2>1. \/ NextSource \/ QuitReview \/ DeclineAcceptance \/ ConfirmBatch \/ EndBatch \/ EndMarking
        \/ Deciding \/ BatchAccept \/ MarkNext
        \/ \E f \in Fields : Editing(f)
        \/ \E r \in Runs : ChooseRun(r)
    BY <1>20 DEF Answers, Deciding, Editing, Fields
  <2> QED  BY <1>7, <1>8, <1>9, <1>10, <1>11, <1>12, <2>1
<1>21. CASE Planning
  BY <1>13, <1>14, <1>15, <1>16, <1>17, <1>21 DEF Planning
<1> QED  BY <1>4, <1>5, <1>6, <1>18, <1>19, <1>20, <1>21 DEF Next

LEMMA Inductive == Spec => []IInv
BY InitHolds, StepHolds, PTL DEF Spec

----------------------------------------------------------------------------
(* Every row, every plan and the session are of their types in every       *)
(* reachable state, for any number of sources, rows and plans.             *)
THEOREM TypeCorrect == Spec => []TypeOK
<1>1. IInv => TypeOK
  BY DEF IInv
<1> QED  BY <1>1, Inductive, PTL

(* Whatever was accepted in a completed review is in the plan it ends in   *)
(* (resolution.resolve_explicit_identity, PlanBuilder.build), unless it    *)
(* was accepted after the run was chosen, in spite of that choice, or the  *)
(* choice has not looked at its decision: no run chosen later and no year  *)
(* an issue needs leaves one out.                                          *)
THEOREM PlansAll == Spec => []CompleteReviewPlansAll
<1>1. IInv => CompleteReviewPlansAll
  <2> SUFFICES ASSUME IInv, NEW s \in session.items \ unmarked, LatestIs(s, Authorizing)
               PROVE  Resolves(history[s]) /\ (s \in Plannable \/ under[s] = Len(choices))
    BY DEF CompleteReviewPlansAll
  <2>1. s \in Sources /\ history[s] \in Histories
    BY TypeParts DEF IInv, SessionType
  <2>2. history[s] # <<>> /\ Latest(history[s]).type \in Authorizing
    BY DEF LatestIs
  <2>3. /\ Authorizations(history[s]) # {} /\ InForce(history[s])
        /\ Identity(history[s]).as = Standing(s)
    BY <2>1, <2>2, LatestStands DEF Standing
  <2>4. Identity(history[s]).edits = Edits(history[s])
    BY DEF Identity
  <2>5. Unblocked(Identity(history[s]))
    BY <2>1, <2>3, <2>4 DEF IInv, Records, Answerable, Unblocked
  <2>6. RunAgrees(RunChosenFor(s), Identity(history[s])) \/ under[s] = Len(choices)
    <3>1. CASE s \in Comics
      BY <2>3, <3>1 DEF IInv, Records, MarkedAgree, RunAgrees, RunChosenFor
    <3>2. CASE s \notin Comics
      BY <3>2 DEF RunAgrees, RunChosenFor
    <3> QED  BY <3>1, <3>2
  <2> QED  BY <2>1, <2>3, <2>5, <2>6 DEF Plannable, Resolves
<1> QED  BY <1>1, Inductive, PTL

(* Resuming leads to a plan, or to the recovery of a run, only if no later *)
(* decision contradicts it, and says there is nothing to do only if apply  *)
(* runs took every present authorization (detect_resume_state,             *)
(* _reviewed_without_plan).                                                *)
THEOREM ResumeTrue == Spec => []ResumeIsTrue
<1>1. IInv => ResumeIsTrue
  <2> SUFFICES ASSUME IInv PROVE ResumeIsTrue
    OBVIOUS
  <2>1. Resume \in {"draft", "recovery"} =>
          \A s \in plan.items :
            /\ plan.heads[s] = HeadId(s)
            /\ RunAgrees(RunChosenFor(s), Identity(history[s]))
    BY DEF IInv, Records, DraftCurrent, Resume, Offered
  <2>2. ASSUME Resume = "nothing", NEW s \in Sources, Resolves(history[s])
        PROVE  taken[s] = HeadId(s)
    <3>1. ReadyToPlan = {}
      BY <2>2 DEF Resume
    <3>2. Latest(history[s]).type \in DecisionTypes
      <4>1. history[s] \in Seq(Decision(Evidence)) /\ history[s] # <<>>
        BY <2>2, TypeParts DEF IInv, Histories, Resolves, InForce
      <4>2. Len(history[s]) \in Nat /\ Len(history[s]) # 0
        BY <4>1, LenProperties, EmptySeq
      <4>3. Latest(history[s]) \in Decision(Evidence)
        BY <4>1, <4>2, ElementOfSeq DEF Latest
      <4> QED  BY <4>3 DEF Decision
    <3>3. \/ LatestIs(s, Authorizing)
          \/ LatestIs(s, {"manual_override"}) /\ Authorizations(history[s]) # {}
      BY <2>2, <3>2 DEF Resolves, InForce, LatestIs, DecisionTypes
    <3>4. Consumed(s)
      BY <3>1, <3>3 DEF ReadyToPlan
    <3> QED  BY <3>4 DEF Consumed
  <2> QED  BY <2>1, <2>2 DEF ResumeIsTrue
<1> QED  BY <1>1, Inductive, PTL

(* Only planning builds a plan. *)
LEMMA BuiltBy ==
  ASSUME [Next]_vars, built' # built
  PROVE  BuildPlan
<1>1. ~UNCHANGED vars
  BY DEF vars
<1>2. ~Starting /\ ~Passes /\ ~Die
  BY DEF Starting, UseSaved, ReviewAgain, Reprocess, ResumeReviewed, ResumeReview, Passes,
     BeginPass, EndPass, AfterPass, ReturnToReview, PlanApprovedOnly, DeclinePartialPlan,
     SaveAndQuit, ToPlan, Goto, Die
<1>3. ~Reopening
  BY DEF Reopening, Reopen, Add, UseSaved, ReviewAgain, Reprocess, Goto
<1>4. ~Answers
  BY DEF Answers, NextSource, QuitReview, EnterIdentity, ConfirmAcceptance, DeclineAcceptance,
     ConfirmBatch, BatchAccept, EndBatch, MarkNext, EndMarking, EditField, AcceptShown,
     ConfirmYear, Reject, LeaveOut, ChooseRun, Add, Goto
<1> QED  BY <1>1, <1>2, <1>3, <1>4
         DEF Next, Planning, NoActionableItems, Goto, Apply, Recover, Abandon, RunEnds,
             LoseDestination, EvidenceChanges

(* A completed review plans only explicit outcomes on the evidence it      *)
(* showed, newer than the baseline it began with.                          *)
THEOREM ReviewIsFresh == Spec => CompleteReviewIsFresh
<1> DEFINE Fresh ==
      built' # built /\ session.items # {} /\ session.left = {} =>
        \A s \in plan'.items \cap session.items :
          LET d == Latest(history[s]) IN
            /\ d.type \in Authorizing
            /\ d.evidence = session.seen[s]
            /\ session.heads[s] = 0 \/ HeadId(s) > session.heads[s]
<1>1. IInv /\ [Next]_vars => [Fresh]_vars
  <2> SUFFICES ASSUME IInv, [Next]_vars, built' # built, session.left = {},
                      NEW s \in plan'.items \cap session.items
               PROVE  /\ Latest(history[s]).type \in Authorizing
                      /\ Latest(history[s]).evidence = session.seen[s]
                      /\ session.heads[s] = 0 \/ HeadId(s) > session.heads[s]
    OBVIOUS
  <2>1. BuildPlan
    BY BuiltBy
  <2>2. s \in Plannable /\ session.pc = "plan"
    BY <2>1 DEF BuildPlan
  <2>3. ~Open(s)
    BY <2>2 DEF IInv, Session, NothingOpen
  <2>4. Latest(history[s]).type \in Authorizing /\ Latest(history[s]).evidence = session.seen[s]
    BY <2>2, <2>3 DEF Open, NeedsReview, Plannable, Resolves, InForce, ReviewComplete
  <2>5. s \in Sources /\ session.heads[s] \in Nat /\ HeadId(s) \in Nat
        /\ session.heads[s] <= HeadId(s)
    BY <2>2, AtHand DEF Plannable, IInv, Session, HeadsBehind
  <2>6. session.heads[s] = 0 \/ HeadId(s) # session.heads[s]
    BY <2>3 DEF Open, NeedsReview, HeadId
  <2> QED  BY <2>4, <2>5, <2>6
<1> QED  BY <1>1, Inductive, PTL DEF Spec, CompleteReviewIsFresh

(* Only an answer at the item itself overrules an explicit outcome: a      *)
(* batch decides what still is to be reviewed and no rejected candidate    *)
(* (batch_eligible_items), a reopened review what is unresolved            *)
(* (_reopen_unresolved_review), the choice of a run an acceptance of       *)
(* another (mark_incompatible), whatever was recorded in between.          *)
THEOREM OutcomesStand == Spec => ExplicitOutcomesStand
<1> DEFINE Stand(s) ==
      \/ session.pc \in {"item", "confirm"} /\ s = At
      \/ /\ session.pc = "batch"
         /\ NeedsReview(history[s], session.seen[s], session.heads[s])
         /\ ~Suppressed(history[s], Latest(history'[s]).subject, session.seen[s])
      \/ session.pc = "reopen" /\ LatestIs(s, {"unresolved"})
      \/ /\ session.pc = "mark" /\ LatestIs(s, {"accepted", "work_accepted"})
         /\ RunOf[Latest(history[s]).subject] # SelectedRun
<1>1. IInv /\ [Next]_vars => [\A s \in Sources : history'[s] # history[s] => Stand(s)]_vars
  <2> SUFFICES ASSUME IInv, [Next]_vars, NEW t \in Sources, history'[t] # history[t]
               PROVE  Stand(t)
    OBVIOUS
  <2>0. TypeOK /\ Records /\ Session
    BY DEF IInv
  <2>1. ASSUME NEW s \in Sources, NEW d, Add(s, d) PROVE t = s
    BY <2>0, <2>1, OtherSources
  <2>2. CASE Reopen
    <3>1. PICK s \in Sources : s = Least(session.rest) /\ s \in session.rest
      BY <2>0, <2>2, AtHand DEF Reopen
    <3>2. Add(s, Reopened(Latest(history[s]).evidence, "review_reopened"))
      BY <2>2, <3>1 DEF Reopen
    <3>3. t = s /\ session.pc = "reopen"
      BY <2>1, <2>2, <3>2 DEF Reopen
    <3> QED  BY <2>0, <3>1, <3>3 DEF Session, PassOpen
  <2>3. CASE MarkNext
    <3>1. PICK s \in Sources : s = Least(session.rest)
      BY <2>0, <2>3, AtHand DEF MarkNext
    <3>2. Incompatible(s) /\ Add(s, Reopened(session.seen[s], "run_group_changed"))
      BY <2>3, <3>1 DEF MarkNext
    <3>3. t = s /\ session.pc = "mark"
      BY <2>1, <2>3, <3>2 DEF MarkNext
    <3> QED  BY <3>2, <3>3 DEF Incompatible
  <2>4. CASE Deciding
    <3>1. PICK s \in Sources : s = At /\ \E d : Add(s, d)
      BY <2>0, <2>4, DecidingAdds, AtHand
    <3>2. session.pc \in {"item", "confirm"}
      BY <2>0, <2>4, DecidingAdds
    <3> QED  BY <2>1, <3>1, <3>2
  <2>5. ASSUME NEW f \in Fields, Editing(f) PROVE Stand(t)
    <3>1. PICK s \in Sources : s = At /\ \E d : Add(s, d)
      BY <2>0, <2>5, EditingAdds, AtHand DEF AtItem
    <3>2. session.pc \in {"item", "confirm"}
      BY <2>0, <2>5, EditingAdds DEF AtItem
    <3> QED  BY <2>1, <3>1, <3>2
  <2>6. CASE BatchAccept
    <3>1. PICK s \in Sources, d \in Decision(Evidence) :
            /\ Add(s, d) /\ s \in session.items /\ Open(s) /\ session.pc = "batch"
            /\ d.subject \in Candidates /\ <<s, d.subject>> \notin session.rejected
      BY <2>0, <2>6, BatchAdds
    <3>2. t = s /\ history'[s] = Append(history[s], d) /\ history[s] \in Histories
      BY <2>0, <2>1, <3>1, OtherSources, AtHand
    <3>3. Latest(history'[t]) = d
      BY <3>2, Appended
    <3>4. ~Suppressed(history[s], d.subject, session.seen[s])
      BY <2>0, <3>1 DEF Session, RejectionsKnown, Current
    <3> QED  BY <3>1, <3>2, <3>3, <3>4 DEF Open
  <2>7. ~UNCHANGED history
    OBVIOUS
  <2>8. ~Starting /\ ~Passes /\ ~Die /\ ~UNCHANGED vars
    BY <2>7 DEF Starting, UseSaved, ReviewAgain, Reprocess, ResumeReviewed, ResumeReview, Passes,
       BeginPass, EndPass, AfterPass, ReturnToReview, PlanApprovedOnly, DeclinePartialPlan,
       SaveAndQuit, ToPlan, Goto, Die, vars
  <2>9. ~Planning
    BY <2>7 DEF Planning, NoActionableItems, BuildPlan, Goto, Apply, Recover, Abandon, RunEnds,
       LoseDestination, EvidenceChanges
  <2>10. Reopening => Reopen
    BY <2>7 DEF Reopening, UseSaved, ReviewAgain, Reprocess, Goto
  <2>11. Answers => \/ Deciding \/ BatchAccept \/ MarkNext
                    \/ \E f \in Fields : Editing(f)
    BY <2>7 DEF Answers, Deciding, Editing, Fields, NextSource, QuitReview, DeclineAcceptance,
       ConfirmBatch, EndBatch, EndMarking, ChooseRun, Goto
  <2> QED  BY <2>2, <2>3, <2>4, <2>5, <2>6, <2>8, <2>9, <2>10, <2>11 DEF Next
<1> QED  BY <1>1, Inductive, PTL DEF Spec, ExplicitOutcomesStand
=============================================================================
