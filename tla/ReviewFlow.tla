----------------------------- MODULE ReviewFlow -----------------------------
(***************************************************************************)
(* The guided review: wizard._run_new, review.interactive_review and the   *)
(* resume paths, over the decision histories of the sources of one         *)
(* directory.                                                              *)
(*                                                                         *)
(* One action is one answer of the operator with every row it commits, so  *)
(* a process death may come between any two rows: between the override and *)
(* the acceptance of one [A]ccept, between the items of a batch, between   *)
(* the choice of a run and the marking of each earlier decision.  What the *)
(* session keeps in memory (what the audit saw, what was decided in this   *)
(* pass, the baseline of a re-review) is the variable session and is lost. *)
(* Planning is one step here; PlanStore has its reads apart.               *)
(***************************************************************************)
EXTENDS Decisions, FiniteSets

CONSTANTS
  Sources,        \* the sources of the directory, numbered in scan order
  Comics,         \* the comics among them, all of one local series
  Offers,         \* the identity candidates providers know for each source
  Strong,         \* candidates that score as eligible when ranked first
  LocalYear,      \* sources whose file names a year the user may confirm
  Evidence,       \* local evidence hashes a source can have
  FirstEvidence,  \* the hash every source starts with
  MaxRows,        \* bound: decisions, of sources and of the run group
  MaxPlans        \* bound: plans built

ASSUME ReviewFlowAssumption ==
  /\ Sources \subseteq Nat /\ Comics \subseteq Sources /\ LocalYear \subseteq Comics
  /\ Offers \in [Sources -> Seq(Candidates)]
  /\ Strong \subseteq Candidates \ Yearless
  /\ Manual \notin Yearless   \* the wizard asks for the year of a typed issue
  /\ FirstEvidence \in Evidence
  /\ MaxRows \in Nat /\ MaxPlans \in Nat

VARIABLES
  history,    \* the decision rows of each source
  choices,    \* the run-group decisions of the series
  evidence,   \* the local evidence hash a scan would compute now
  session,    \* the wizard's memory
  plan,       \* the newest plan
  built,      \* how many plans were built
  taken,      \* the newest decision of each source an apply run was started on
  done,       \* sources published by a complete run, destination intact
  unmarked,   \* comics whose decisions the last run choice has not looked at
  under       \* history: the run choices there were at the latest decision

vars == <<history, choices, evidence, session, plan, built, taken, done, unmarked, under>>

NoPlan == [items |-> {}, heads |-> [s \in Sources |-> 0], group |-> 0, state |-> "none"]

NoHeads == [s \in Sources |-> 0]

Idle ==
  [pc |-> "idle", reprocess |-> FALSE, items |-> {}, seen |-> [s \in Sources |-> FirstEvidence],
   shown |-> NoRun, rejected |-> {}, heads |-> NoHeads, group |-> 0, scope |-> {},
   todo |-> {}, decided |-> {}, cand |-> Nobody, rest |-> {}, left |-> {}]

Init ==
  /\ history = [s \in Sources |-> <<>>]
  /\ choices = <<>>
  /\ evidence = [s \in Sources |-> FirstEvidence]
  /\ session = Idle
  /\ plan = NoPlan /\ built = 0
  /\ taken = NoHeads /\ under = NoHeads
  /\ done = {} /\ unmarked = {}

----------------------------------------------------------------------------
SelectedRun == IF choices = <<>> THEN NoRun ELSE choices[Len(choices)]

Least(S) == CHOOSE s \in S : \A t \in S : s <= t

At == Least(session.todo)

HeadId(s) == Len(history[s])

Rows == Len(choices) + Cardinality(UNION {{s} \X (1..HeadId(s)) : s \in Sources})

LatestIs(s, types) == history[s] # <<>> /\ Latest(history[s]).type \in types

(* A decision, or a run choice the plan was not built from, invalidates    *)
(* the plan; of one whose run has ended nobody asks any more.              *)
Touch(s) ==
  plan' = IF plan.state = "draft" /\ s \in plan.items
          THEN [plan EXCEPT !.state = "invalid"] ELSE plan

(* Mutant: <> NULL is never true. *)
TouchGroupOrNull ==
  plan' = IF plan.state = "draft" /\ plan.items \cap Comics # {} /\ plan.group # 0
          THEN [plan EXCEPT !.state = "invalid"] ELSE plan

TouchGroup ==
  plan' = IF plan.state = "draft" /\ plan.items \cap Comics # {}
          THEN [plan EXCEPT !.state = "invalid"] ELSE plan

Add(s, d) ==
  /\ Rows < MaxRows
  /\ history' = [history EXCEPT ![s] = Append(@, d)]
  /\ under' = [under EXCEPT ![s] = Len(choices)]
  /\ Touch(s)
  /\ UNCHANGED <<choices, evidence, built, taken, done>>

Goto(changed) ==
  /\ session' = changed
  /\ UNCHANGED <<history, choices, evidence, plan, built, taken, done, unmarked, under>>

----------------------------------------------------------------------------
(* What the audit computes, from a snapshot of the database.               *)

(* The places, best first, of what the audit finds among the offers: with a *)
(* selected run the issues of that run, or, when that search brings none,  *)
(* what the relaxed search for an issue brings, of whatever run.           *)
Ranked(s, run) ==
  LET ofRun == {i \in DOMAIN Offers[s] : RunOf[Offers[s][i]] = run}
  IN  IF s \in Comics /\ run # NoRun /\ ofRun # {} THEN ofRun ELSE DOMAIN Offers[s]

(* [S]earch and [V] do not ask which run is selected.                      *)
Displayed(s) == {Offers[s][i] : i \in DOMAIN Offers[s]}

Top(s) == Offers[s][Least(Ranked(s, session.shown))]

(* batch_eligible_items over the scores of the audit. *)
BatchEligible(s) ==
  /\ Ranked(s, session.shown) # {}
  /\ Top(s) \in Strong /\ <<s, Top(s)>> \notin session.rejected

Audited(old) ==
  [old EXCEPT
     !.pc = "check", !.group = 0, !.left = {}, !.seen = evidence, !.shown = SelectedRun,
     !.rejected = {sc \in Sources \X Candidates :
                     Suppressed(history[sc[1]], sc[2], evidence[sc[1]])}]

(* Mutant: the baseline of a re-review is forgotten. *)
IncompleteAnyAge ==
  {s \in session.items : NeedsReview(history[s], session.seen[s], 0)}

Incomplete ==
  {s \in session.items : NeedsReview(history[s], session.seen[s], session.heads[s])}

----------------------------------------------------------------------------
(* Starting and resuming.                                                  *)

(* _reusable_decision_heads: explicit outcomes except unresolved.          *)
Reusable(s) == LatestIs(s, Authorizing \cup {"rejected", "skipped"})

ReusableHeads(items) ==
  [s \in Sources |-> IF s \in items /\ Reusable(s) THEN HeadId(s) ELSE 0]

AllHeads(items) == [s \in Sources |-> IF s \in items THEN HeadId(s) ELSE 0]

(* With an interrupted run the wizard offers nothing but its recovery.     *)
StartsFrom(pcs) == session.pc \in pcs /\ plan.state # "interrupted"

(* Discovery and selection: the new and changed work, or the completed     *)
(* sources for an explicit reprocess.                                      *)
UseSaved(pcs) ==
  /\ StartsFrom(pcs) /\ Sources \ done # {}
  /\ Goto(Audited([Idle EXCEPT !.items = Sources \ done]))

ReviewAgain(pcs) ==
  /\ StartsFrom(pcs) /\ \E s \in Sources \ done : Reusable(s)
  /\ Goto(Audited([Idle EXCEPT !.items = Sources \ done,
                               !.heads = ReusableHeads(Sources \ done)]))

Reprocess(pcs) ==
  /\ StartsFrom(pcs) /\ done # {}
  /\ Goto(Audited([Idle EXCEPT !.items = done, !.reprocess = TRUE,
                               !.heads = AllHeads(done)]))

(* _reviewed_without_plan: a source whose newest decision authorizes it    *)
(* and which no apply run was started on, however that run ended.          *)
Consumed(s) == taken[s] = HeadId(s)

ReadyToPlan ==
  {s \in Sources :
     /\ \/ LatestIs(s, Authorizing)
        \/ LatestIs(s, {"manual_override"}) /\ Authorizations(history[s]) # {}
     /\ ~Consumed(s)}

Unresolved == {s \in Sources : LatestIs(s, {"unresolved"})}

Resume ==
  IF plan.state = "interrupted" THEN "recovery"
  ELSE IF plan.state = "draft" THEN "draft"
  ELSE IF ReadyToPlan # {} THEN "reviewed"
  ELSE IF Unresolved # {} THEN "review" ELSE "nothing"

ResumeReviewed ==
  /\ session.pc = "idle" /\ Resume = "reviewed"
  /\ Goto([Idle EXCEPT !.pc = "plan"])

ResumeReview ==
  /\ session.pc = "idle" /\ Resume = "review"
  /\ Goto([Idle EXCEPT !.pc = "reopen", !.rest = Unresolved])

(* _reopen_unresolved_review: one row per source, then a new ingest.       *)
Reopen ==
  /\ session.pc = "reopen" /\ session.rest # {}
  /\ LET s == Least(session.rest) IN
       /\ Add(s, Reopened(Latest(history[s]).evidence, "review_reopened"))
       /\ session' = [session EXCEPT !.rest = @ \ {s}]
  /\ UNCHANGED unmarked

Reopenings == session.pc = "reopen" /\ session.rest = {}

----------------------------------------------------------------------------
(* The review loop of _run_new.                                            *)

ToPlan(left) ==
  Goto([session EXCEPT !.pc = "plan", !.left = left, !.shown = NoRun, !.rejected = {},
                       !.group = 0])

PassOver ==
  [session EXCEPT !.pc = "after", !.scope = {}, !.todo = {}, !.decided = {}, !.rest = {}]

BeginPass ==
  /\ session.pc = "check"
  /\ IF Incomplete = {} THEN ToPlan({})
     ELSE Goto([session EXCEPT !.pc = "item", !.scope = Incomplete, !.todo = Incomplete,
                               !.decided = {}, !.group = Len(choices)])

EndPass ==
  /\ session.pc = "item" /\ session.todo = {}
  /\ Goto(PassOver)

(* A changed run choice asks for another audit before anything else.       *)
AfterPass ==
  /\ session.pc = "after"
  /\ IF Len(choices) # session.group THEN Goto(Audited(session))
     ELSE IF Incomplete = {} THEN ToPlan({})
     ELSE Goto([session EXCEPT !.pc = "prompt", !.left = Incomplete])

ReturnToReview == session.pc = "prompt" /\ Goto(Audited(session))

PlanApprovedOnly == session.pc = "prompt" /\ ToPlan(session.left)

(* [P] and then no: the pass begins again with the old audit.              *)
DeclinePartialPlan ==
  session.pc = "prompt" /\ Goto([session EXCEPT !.pc = "check", !.group = 0, !.left = {}])

SaveAndQuit == session.pc = "prompt" /\ Goto(Idle)

----------------------------------------------------------------------------
(* interactive_review: the answers at one item.                            *)

AtItem == session.pc = "item" /\ session.todo # {}

Decided(s) ==
  session' = [session EXCEPT !.pc = "item", !.todo = @ \ {s}, !.cand = Nobody,
                             !.decided = @ \cup {s}]

NextSource == AtItem /\ Goto([session EXCEPT !.todo = @ \ {At}])

QuitReview == AtItem /\ Goto(PassOver)

EditField(f) ==
  /\ AtItem
  /\ Add(At, Override(session.seen[At], Edits(history[At]) \cup {f}, {}))
  /\ UNCHANGED <<session, unmarked>>

EnterIdentity ==
  /\ AtItem
  /\ Add(At, Decide("manual_identity", Manual, session.seen[At]))
  /\ Decided(At) /\ UNCHANGED unmarked

(* Mutant: the name of the run-group decision type. *)
AcceptedAsGroup(s) == IF s \in Comics THEN "selected" ELSE "work_accepted"

AcceptedAs(s) == IF s \in Comics THEN "accepted" ELSE "work_accepted"

(* [A]ccept, with every confirmation given and the detail hydrated; a      *)
(* refused confirmation or a conflict changes nothing.                     *)
AcceptShown(c) ==
  /\ AtItem /\ c \in Displayed(At) \ Yearless
  /\ Add(At, Decide(AcceptedAs(At), c, session.seen[At]))
  /\ Decided(At) /\ UNCHANGED unmarked

(* A candidate without the run start year: the local year is recorded as   *)
(* an override first ...                                                   *)
ConfirmYear(c) ==
  /\ AtItem /\ c \in Displayed(At) \cap Yearless /\ At \in LocalYear
  /\ Add(At, Override(session.seen[At], Edits(history[At]) \cup {"run_start_year"}, {}))
  /\ session' = [session EXCEPT !.pc = "confirm", !.cand = c]
  /\ UNCHANGED unmarked

(* ... and the acceptance may then be confirmed, declined or fail.         *)
ConfirmAcceptance ==
  /\ session.pc = "confirm"
  /\ Add(At, Decide(AcceptedAs(At), session.cand, session.seen[At]))
  /\ Decided(At) /\ UNCHANGED unmarked

DeclineAcceptance ==
  /\ session.pc = "confirm"
  /\ Goto([session EXCEPT !.pc = "item", !.cand = Nobody])

Reject(c) ==
  /\ AtItem /\ c \in Displayed(At)
  /\ Add(At, Decide("rejected", c, session.seen[At]))
  /\ Decided(At) /\ UNCHANGED unmarked

LeaveOut(type) ==
  /\ AtItem /\ type \in {"unresolved", "skipped"}
  /\ Add(At, Decide(type, Nobody, session.seen[At]))
  /\ Decided(At) /\ UNCHANGED unmarked

----------------------------------------------------------------------------
(* [B]atch and [Y]: the eligible items of the series or of the whole pass  *)
(* that were not decided in this pass, accepted one row at a time.         *)

Group(s) == IF s \in Comics THEN Comics ELSE {s}

(* Mutant: what was decided in this pass is forgotten. *)
BatchItemsAgain(scope) ==
  {s \in scope \cap session.scope : BatchEligible(s)}

BatchItems(scope) ==
  {s \in scope \cap session.scope : BatchEligible(s) /\ s \notin session.decided}

ConfirmBatch ==
  /\ AtItem
  /\ \E scope \in {Group(At), Sources} :
       /\ BatchItems(scope) # {}
       /\ Goto([session EXCEPT !.pc = "batch", !.rest = BatchItems(scope)])

BatchAccept ==
  /\ session.pc = "batch" /\ session.rest # {}
  /\ LET s == Least(session.rest) IN
       /\ Add(s, Decide("accepted", Top(s), session.seen[s]))
       /\ session' = [session EXCEPT !.rest = @ \ {s}]
  /\ UNCHANGED unmarked

EndBatch ==
  /\ session.pc = "batch" /\ session.rest = {}
  /\ Goto(PassOver)

----------------------------------------------------------------------------
(* [G]roup run: the choice, then every audited item of the series.         *)

ChooseRun(r) ==
  /\ AtItem /\ At \in Comics /\ Rows < MaxRows
  /\ choices' = Append(choices, r)
  /\ TouchGroup
  /\ session' = [session EXCEPT !.pc = "mark", !.rest = session.items \cap Comics]
  /\ unmarked' = Comics
  /\ UNCHANGED <<history, evidence, built, taken, done, under>>

(* Mutant: compared with the run the audit was made in. *)
IncompatibleWithAudit(s) ==
  /\ LatestIs(s, {"accepted", "work_accepted"})
  /\ session.shown # NoRun /\ RunOf[Latest(history[s]).subject] # session.shown

(* An acceptance of another run, or of none, is set back to pending.       *)
Incompatible(s) ==
  /\ LatestIs(s, {"accepted", "work_accepted"})
  /\ RunOf[Latest(history[s]).subject] # SelectedRun

MarkNext ==
  /\ session.pc = "mark" /\ session.rest # {}
  /\ LET s == Least(session.rest) IN
       /\ session' = [session EXCEPT !.rest = @ \ {s}]
       /\ unmarked' = unmarked \ {s}
       /\ \/ /\ Incompatible(s)
             /\ Add(s, Reopened(session.seen[s], "run_group_changed"))
          \/ /\ ~Incompatible(s)
             /\ UNCHANGED <<history, choices, evidence, plan, built, taken, done, under>>

EndMarking ==
  /\ session.pc = "mark" /\ session.rest = {}
  /\ Goto(PassOver)

----------------------------------------------------------------------------
(* _plan_reviewed: PlanBuilder.build over the directory, PlanStore.add.    *)

RunChosenFor(s) == IF s \in Comics THEN SelectedRun ELSE NoRun

Plannable ==
  {s \in Sources :
     Resolves(history[s]) /\ RunAgrees(RunChosenFor(s), Identity(history[s]))}

NoActionableItems ==
  /\ session.pc = "plan" /\ Plannable = {}
  /\ Goto(Idle)

BuildPlan ==
  /\ session.pc = "plan" /\ Plannable # {} /\ built < MaxPlans
  /\ plan' = [items |-> Plannable, heads |-> [s \in Sources |-> HeadId(s)],
              group |-> Len(choices), state |-> "draft"]
  /\ built' = built + 1
  /\ session' = Idle
  /\ UNCHANGED <<history, choices, evidence, taken, done, unmarked, under>>

(* Approve and apply: the run takes the decisions the plan was built on.   *)
(* It may complete, fail with some of the items (a destination that exists,*)
(* a source that changed) or be interrupted.  What a run that did not      *)
(* complete has published does not count as completed work.                *)
Apply ==
  /\ session.pc = "idle" /\ plan.state = "draft"
  /\ taken' = [s \in Sources |-> IF s \in plan.items THEN plan.heads[s] ELSE taken[s]]
  /\ \/ plan' = [plan EXCEPT !.state = "ended"] /\ done' \in {done, done \cup plan.items}
     \/ plan' = [plan EXCEPT !.state = "interrupted"] /\ UNCHANGED done
  /\ UNCHANGED <<history, choices, evidence, session, built, unmarked, under>>

RunEnds(published) ==
  /\ session.pc = "idle" /\ plan.state = "interrupted"
  /\ plan' = [plan EXCEPT !.state = "ended"]
  /\ done' = done \cup published
  /\ UNCHANGED <<history, choices, evidence, session, built, taken, unmarked, under>>

(* [R]: the recovered run completes or fails, or stays interrupted.        *)
Recover == RunEnds(plan.items) \/ RunEnds({})

(* [A]: the run is closed as failed.                                       *)
Abandon == RunEnds({})

(* assess_completed_sources: a published file that is gone or changed      *)
(* makes its source current work again.                                    *)
LoseDestination(s) ==
  /\ session.pc = "idle" /\ s \in done
  /\ done' = done \ {s}
  /\ UNCHANGED <<history, choices, evidence, session, plan, built, taken, unmarked, under>>

(* The file is renamed or its metadata reads differently: same bytes, new  *)
(* local evidence.  Bound: it happens once.                                *)
EvidenceChanges(s, e) ==
  /\ session.pc = "idle" /\ e # FirstEvidence
  /\ \A t \in Sources : evidence[t] = FirstEvidence
  /\ evidence' = [evidence EXCEPT ![s] = e]
  /\ UNCHANGED <<history, choices, session, plan, built, taken, done, unmarked, under>>

(* Interrupt or process death: the rows stay, the session does not.        *)
Die ==
  /\ session.pc # "idle"
  /\ session' = Idle
  /\ UNCHANGED <<history, choices, evidence, plan, built, taken, done, unmarked, under>>

----------------------------------------------------------------------------
Starting ==
  LET pcs == {"idle"} IN
    UseSaved(pcs) \/ ReviewAgain(pcs) \/ Reprocess(pcs) \/ ResumeReviewed \/ ResumeReview

Reopening ==
  \/ Reopen
  \/ /\ Reopenings
     /\ LET pcs == {"reopen"} IN UseSaved(pcs) \/ ReviewAgain(pcs) \/ Reprocess(pcs)

Passes ==
  \/ BeginPass \/ EndPass \/ AfterPass \/ ReturnToReview \/ PlanApprovedOnly
  \/ DeclinePartialPlan \/ SaveAndQuit

Answers ==
  \/ NextSource \/ QuitReview \/ EnterIdentity \/ ConfirmAcceptance \/ DeclineAcceptance
  \/ ConfirmBatch \/ BatchAccept \/ EndBatch \/ MarkNext \/ EndMarking
  \/ \E f \in Fields : EditField(f)
  \/ \E c \in Candidates : AcceptShown(c) \/ ConfirmYear(c) \/ Reject(c)
  \/ \E type \in {"unresolved", "skipped"} : LeaveOut(type)
  \/ \E r \in Runs : ChooseRun(r)

Planning ==
  \/ NoActionableItems \/ BuildPlan \/ Apply \/ Recover \/ Abandon
  \/ \E s \in Sources : LoseDestination(s)
  \/ \E s \in Sources, e \in Evidence : EvidenceChanges(s, e)

Next == Starting \/ Reopening \/ Passes \/ Answers \/ Planning \/ Die

Spec == Init /\ [][Next]_vars

----------------------------------------------------------------------------
TypeOK ==
  /\ history \in [Sources -> Seq(Decision(Evidence))]
  /\ choices \in Seq(Runs)
  /\ evidence \in [Sources -> Evidence]
  /\ session \in
       [pc : {"idle", "reopen", "check", "item", "confirm", "batch", "mark", "after",
              "prompt", "plan"},
        reprocess : BOOLEAN, items : SUBSET Sources, seen : [Sources -> Evidence],
        shown : Runs \cup {NoRun}, rejected : SUBSET (Sources \X Candidates),
        heads : [Sources -> Nat], group : Nat, scope : SUBSET Sources,
        todo : SUBSET Sources, decided : SUBSET Sources,
        cand : Candidates \cup {Nobody}, rest : SUBSET Sources, left : SUBSET Sources]
  /\ plan \in [items : SUBSET Sources, heads : [Sources -> Nat], group : Nat,
               state : {"none", "draft", "invalid", "interrupted", "ended"}]
  /\ built \in 0..MaxPlans /\ done \subseteq Sources /\ unmarked \subseteq Comics
  /\ taken \in [Sources -> Nat] /\ under \in [Sources -> Nat]

(* A row is added to the history of a source only by the operator's answer *)
(* at that item, or by the wizard for what still waited: a batch confirmed *)
(* for many items decides none that was no longer to be reviewed and takes *)
(* no candidate rejected on the same evidence, however old the audit       *)
(* behind it is; reopening a review touches unresolved sources only; and a *)
(* change of the run sets back no decision but an acceptance of another    *)
(* run, or of none.                                                        *)
ExplicitOutcomesStand ==
  [][\A s \in Sources : history'[s] # history[s] =>
       \/ session.pc \in {"item", "confirm"} /\ s = At
       \/ /\ session.pc = "batch"
          /\ NeedsReview(history[s], session.seen[s], session.heads[s])
          /\ ~Suppressed(history[s], Latest(history'[s]).subject, session.seen[s])
       \/ session.pc = "reopen" /\ LatestIs(s, {"unresolved"})
       \/ /\ session.pc = "mark" /\ LatestIs(s, {"accepted", "work_accepted"})
          /\ RunOf[Latest(history[s]).subject] # SelectedRun]_vars

(* A review that ended with nothing left undecided plans only what was     *)
(* decided in view of the evidence the review showed: an explicit outcome  *)
(* on that evidence, newer than the heads a re-review or a reprocess       *)
(* started from, and not set aside by a change of the run.                 *)
CompleteReviewIsFresh ==
  [][built' # built /\ session.items # {} /\ session.left = {} =>
       \A s \in plan'.items \cap session.items :
         LET d == Latest(history[s]) IN
           /\ d.type \in Authorizing
           /\ d.evidence = session.seen[s]
           /\ session.heads[s] = 0 \/ HeadId(s) > session.heads[s]]_vars

(* ... and it plans all of it, but for what the operator accepted after    *)
(* choosing the run, in spite of it (the relaxed search and [S]earch offer *)
(* issues of other runs; planning reports them as run_changed): nothing is *)
(* left out because a run chosen after the acceptance contradicts it, and  *)
(* nothing because its run year is missing.  Decisions the choice of the   *)
(* run has not looked at are excepted: those of sources outside the audit, *)
(* and those a process death kept from being marked.                       *)
CompleteReviewPlansAll ==
  session.pc = "plan" /\ session.left = {} =>
    \A s \in session.items \ unmarked : LatestIs(s, Authorizing) =>
      /\ Resolves(history[s])
      /\ s \in Plannable \/ under[s] = Len(choices)

(* Resuming never leads away from work, and never into work that cannot    *)
(* go on: while an accepted decision no apply run was started on, or an    *)
(* unresolved source, waits, the wizard offers something; and no later     *)
(* decision contradicts the plan it offers to approve, or the plan of the  *)
(* interrupted run it offers to recover, which the engine would refuse.    *)
ResumeIsTrue ==
  session.pc = "idle" =>
    /\ Resume \in {"draft", "recovery"} =>
         \A s \in plan.items :
           /\ plan.heads[s] = HeadId(s)
           /\ RunAgrees(RunChosenFor(s), Identity(history[s]))
    /\ Resume = "nothing" =>
         \A s \in Sources : Resolves(history[s]) => taken[s] = HeadId(s)

(* README.md, guided workflow: a later wizard run recognizes a completed   *)
(* source and excludes it; only an explicit Reprocess returns it through   *)
(* review and planning.                                                    *)
CompletedNotReplanned ==
  [][built' # built /\ session.items # {} /\ ~session.reprocess
       => plan'.items \cap done = {}]_vars
=============================================================================
