------------------------------ MODULE PlanStore ------------------------------
(***************************************************************************)
(* The life of plans in the state database: decisions and run choices are  *)
(* recorded, a builder drafts a plan from them, the plan is stored,        *)
(* approved, applied, recovered or abandoned, while other processes keep   *)
(* recording decisions.                                                    *)
(*                                                                         *)
(* One action is one SQLite transaction, or one read whose result is used  *)
(* after another process may have written: PlanBuilder.build reads head,   *)
(* identity and run choice of each source separately and the plan is       *)
(* stored later; PlanStore.approve checks before it updates; apply checks  *)
(* eligibility before it creates the run.  Review and plan creation take   *)
(* no process lock; apply, recover and abandon do.                         *)
(***************************************************************************)
EXTENDS Decisions, Integers, FiniteSets

CONSTANTS
  Sources,        \* reviewed sources under the planning scope, numbered by path
  Comics,         \* the comics among them, all of one local series
  Documents,      \* plans to import; names: whether they name decisions, any
  MaxRows,        \* bound: decisions, of sources and run groups, and plans stored
  MaxPlans,       \* bound: plans stored
  MaxImports      \* bound: documents imported

ASSUME PlanStoreAssumption ==
  /\ Sources \subseteq Nat /\ Comics \subseteq Sources
  /\ Documents \subseteq
       [source : Sources, as : Subjects, edits : SUBSET Fields,
        content : {"sound", "legacy"}, names : BOOLEAN]
  /\ MaxRows \in Nat /\ MaxPlans \in Nat /\ MaxImports \in Nat

VARIABLES
  history,    \* decisions: the decision rows of each source
  recorded,   \* how many decisions of both kinds there are
  choices,    \* run_group_decisions of the series: a run, or NoRun once cleared
  plans,      \* plans with what was derived from or recorded about each
  builder,    \* the plan builder's progress
  approving,  \* the plan whose approval has passed its checks, or 0
  lock        \* what the holder of the process lock does, to which plan

vars == <<history, recorded, choices, plans, builder, approving, lock>>

Evidence == {"scan"}

(* A plan item.  head and group are the ids the plan's precondition names, *)
(* 0 for none; keyed says the item names a run group at all.  A document   *)
(* that is imported may name a decision about another source.              *)
Elsewhere == -1

Item ==
  [head : Nat \cup {Elsewhere}, as : Subjects \cup {Nobody}, edits : SUBSET Fields, keyed : BOOLEAN, group : Nat]

(* A source the plan leaves out. *)
NoItem == [head |-> 0, as |-> Nobody, edits |-> {}, keyed |-> FALSE, group |-> 0]

RunStates == {"none", "open", "failed", "complete"}

(* content: blocked when a destination exists or two items collide, legacy *)
(* under an older planning policy.  unsafe: the run has an item abandon    *)
(* must refuse (STAGING .. COMMITTED).  Only a property asks whether a     *)
(* plan was imported.                                                      *)
Plan ==
  [items : [Sources -> Item], content : {"sound", "blocked", "legacy"},
   status : {"draft", "approved"}, invalid : BOOLEAN, superseded : BOOLEAN,
   run : RunStates, unsafe : BOOLEAN, imported : BOOLEAN]

EmptyDraft == [s \in Sources |-> NoItem]

NobodyYet == [as |-> Nobody, edits |-> {}]

Idle == [pc |-> "idle", todo |-> {}, at |-> {}, head |-> 0,
         id |-> NobodyYet, draft |-> EmptyDraft]

Free == [by |-> "nobody", plan |-> 0]

Ids == 1..Len(plans)

PlanItems(p) == {s \in Sources : p.items[s] # NoItem}

HasPrecondition(p, s) == p.items[s].head # 0

SelectedRun == IF choices = <<>> THEN NoRun ELSE choices[Len(choices)]

Init ==
  /\ history = [s \in Sources |-> <<>>]
  /\ recorded = 0
  /\ choices = <<>>
  /\ plans = <<>>
  /\ builder = Idle
  /\ approving = 0
  /\ lock = Free

----------------------------------------------------------------------------
(* Decisions.                                                              *)

(* Mutant: each decision decides validity afresh. *)
RecordAfresh(s, d) ==
  /\ recorded + Len(plans) < MaxRows
  /\ recorded' = recorded + 1
  /\ history' = [history EXCEPT ![s] = Append(@, d)]
  /\ plans' = [p \in Ids |->
       [plans[p] EXCEPT !.invalid =
          HasPrecondition(plans[p], s) /\ plans[p].items[s].head # Len(history[s]) + 1]]
  /\ UNCHANGED <<choices, builder, approving, lock>>

(* The INSERT and the invalidations it causes are one transaction.         *)
Record(s, d) ==
  /\ recorded + Len(plans) < MaxRows
  /\ recorded' = recorded + 1
  /\ history' = [history EXCEPT ![s] = Append(@, d)]
  /\ plans' = [p \in Ids |->
       [plans[p] EXCEPT !.invalid =
          @ \/ (HasPrecondition(plans[p], s)
                 /\ plans[p].items[s].head # Len(history[s]) + 1)]]
  /\ UNCHANGED <<choices, builder, approving, lock>>

Accept(s, c) == Record(s, Decide("accepted", c, "scan"))

GiveIdentity(s) == Record(s, Decide("manual_identity", Manual, "scan"))

Exclude(s) == Record(s, Decide("rejected", Nobody, "scan"))

AddOverride(s, f) == Record(s, Override("scan", Edits(history[s]) \cup {f}, {}))

ClearOverride(s, f) ==
  /\ f \in Edits(history[s])
  /\ Record(s, Override("scan", {}, {f}))

(* RunGroupRepository._add.  IS NOT: an item without a group id is         *)
(* invalidated too.                                                        *)
AddChoice(r) ==
  /\ recorded + Len(plans) < MaxRows
  /\ recorded' = recorded + 1
  /\ choices' = Append(choices, r)
  /\ plans' = [p \in Ids |->
       [plans[p] EXCEPT !.invalid =
          @ \/ \E s \in Sources :
                  /\ HasPrecondition(plans[p], s)
                  /\ plans[p].items[s].keyed
                  /\ plans[p].items[s].group # Len(choices) + 1]]
  /\ UNCHANGED <<history, builder, approving, lock>>

ChooseRun(r) == AddChoice(r)

ClearRun == choices # <<>> /\ AddChoice(NoRun)

----------------------------------------------------------------------------
(* PlanBuilder.build, then PlanStore.add.                                  *)

Build(b) ==
  /\ builder' = b
  /\ UNCHANGED <<history, recorded, choices, plans, approving, lock>>

RoomForPlan == Len(plans) < MaxPlans /\ recorded + Len(plans) < MaxRows

BeginBuild ==
  /\ builder.pc = "idle" /\ RoomForPlan
  /\ Build([Idle EXCEPT !.pc = "next", !.todo = Sources])

(* latest: a source without a decision, or whose latest decision excludes  *)
(* it, stays out of the plan.                                              *)
ReadHead ==
  /\ builder.pc = "next"
  /\ \E s \in builder.todo :
       /\ \A t \in builder.todo : s <= t
       /\ LET rest == [builder EXCEPT !.todo = @ \ {s}]
              h    == history[s]
          IN \/ ~InForce(h) /\ Build(rest)
             \/ /\ InForce(h)
                /\ Build([rest EXCEPT !.pc = "identity", !.at = {s}, !.head = Len(h)])

(* The source is gone or changed since its review: excluded.               *)
SkipChangedSource ==
  /\ builder.pc = "identity"
  /\ Build([builder EXCEPT !.pc = "next"])

(* resolve_explicit_identity reads the history again.                      *)
ReadIdentity ==
  /\ builder.pc = "identity"
  /\ \E s \in builder.at : LET h == history[s] IN
       \/ ~Resolves(h) /\ Build([builder EXCEPT !.pc = "next"])
       \/ /\ Resolves(h)
          /\ Build([builder EXCEPT !.pc = "group", !.id = Identity(h)])

AddItem(s, keyed, group) ==
  LET item == [head |-> builder.head, as |-> builder.id.as, edits |-> builder.id.edits,
               keyed |-> keyed, group |-> group]
  IN Build([builder EXCEPT
              !.pc = "next",
              !.draft[s] = item])

ReadGroup ==
  /\ builder.pc = "group"
  /\ \E s \in builder.at :
       \/ s \notin Comics /\ AddItem(s, FALSE, 0)
       \/ /\ s \in Comics /\ RunAgrees(SelectedRun, builder.id)
          /\ AddItem(s, TRUE, Len(choices))
       \/ /\ s \in Comics /\ ~RunAgrees(SelectedRun, builder.id)
          /\ Build([builder EXCEPT !.pc = "next"])

NothingActionable ==
  /\ builder.pc = "next" /\ builder.todo = {} /\ builder.draft = EmptyDraft
  /\ Build(Idle)

(* Mutant: only drafts are superseded. *)
SupersededDraft(p, items) ==
  /\ plans[p].run = "none" /\ plans[p].status = "draft"
  /\ \E s \in Sources : plans[p].items[s] # NoItem /\ items[s] # NoItem

(* import_bytes: row, indexes, preconditions and supersessions in one      *)
(* transaction.  Every stored plan that shares a source and has no run is  *)
(* superseded, whatever its status.                                        *)
Superseded(p, items) ==
  /\ plans[p].run = "none"
  /\ \E s \in Sources : plans[p].items[s] # NoItem /\ items[s] # NoItem

Store(items, content, imported) ==
  plans' = Append([p \in Ids |->
             [plans[p] EXCEPT !.superseded = @ \/ Superseded(p, items)]],
             [items |-> items, content |-> content,
              status |-> "draft", invalid |-> FALSE, superseded |-> FALSE,
              run |-> "none", unsafe |-> FALSE,
              imported |-> imported])

StoreDraft ==
  /\ builder.pc = "next" /\ builder.todo = {} /\ builder.draft # EmptyDraft
  /\ \E content \in {"sound", "blocked"} : Store(builder.draft, content, FALSE)
  /\ builder' = Idle
  /\ UNCHANGED <<history, recorded, choices, approving, lock>>

(* The decisions a document may name for its source: none, or any that is  *)
(* recorded, be it about another source (the column refers to the whole    *)
(* table).                                                                 *)
NamedHeads(doc) ==
  {0} \cup {h \in 1..Len(history[doc.source]) : doc.names}
      \cup {h \in {Elsewhere} :
             doc.names /\ \E t \in Sources \ {doc.source} : history[t] # <<>>}

(* Without a decision no precondition is kept, so no run group either.     *)
NamedGroups(head) ==
  {[keyed |-> FALSE, group |-> 0]}
    \cup {g \in [keyed : {TRUE}, group : 0..Len(choices)] : head # 0}

(* plan import: any canonical document whose items claim approval.  The    *)
(* decision and the run choice it rests on are what the document says, and *)
(* nothing ever compares the identity it claims with anything.  Bound: one *)
(* item.                                                                   *)
ImportFile ==
  /\ RoomForPlan /\ Cardinality({p \in Ids : plans[p].imported}) < MaxImports
  /\ \E doc \in Documents : \E head \in NamedHeads(doc) : \E g \in NamedGroups(head) :
       Store([EmptyDraft EXCEPT ![doc.source] = [head |-> head, as |-> doc.as, edits |-> doc.edits,
                                                 keyed |-> g.keyed, group |-> g.group]],
             doc.content, TRUE)
  /\ UNCHANGED <<history, recorded, choices, builder, approving, lock>>

----------------------------------------------------------------------------
(* PlanStore.approve.                                                      *)

CheckApproval(p) ==
  /\ approving = 0 /\ plans[p].status = "draft"
  /\ ~plans[p].invalid /\ ~plans[p].superseded
  /\ plans[p].content = "sound"
  /\ approving' = p
  /\ UNCHANGED <<history, recorded, choices, plans, builder, lock>>

(* A plan of an older policy is marked incompatible instead.               *)
RefuseLegacy(p) ==
  /\ approving = 0
  /\ ~plans[p].invalid /\ ~plans[p].superseded /\ plans[p].content = "legacy"
  /\ plans' = [plans EXCEPT ![p].invalid = TRUE]
  /\ UNCHANGED <<history, recorded, choices, builder, approving, lock>>

(* UPDATE ... WHERE status='draft': no second look at the checks.          *)
Approve ==
  /\ approving # 0
  /\ plans' = [plans EXCEPT ![approving].status = "approved"]
  /\ approving' = 0
  /\ UNCHANGED <<history, recorded, choices, builder, lock>>

----------------------------------------------------------------------------
(* The engine, as far as plans are concerned.                              *)

(* A comparison with the newest of no decisions refuses nothing.           *)
HeadsCurrent(p) ==
  \A s \in Sources :
     HasPrecondition(p, s) /\ history[s] # <<>> => p.items[s].head = Len(history[s])

(* Mutant: <> NULL is never true. *)
GroupsCurrentOrNull(p) ==
  \A s \in Sources :
     HasPrecondition(p, s) /\ p.items[s].keyed /\ p.items[s].group # 0
       => p.items[s].group = Len(choices)

GroupsCurrent(p) ==
  \A s \in Sources :
     HasPrecondition(p, s) /\ p.items[s].keyed => p.items[s].group = Len(choices)

(* _eligible_plan. *)
Eligible(p) ==
  /\ plans[p].status = "approved"
  /\ ~plans[p].invalid /\ ~plans[p].superseded
  /\ HeadsCurrent(plans[p]) /\ GroupsCurrent(plans[p])
  /\ plans[p].content = "sound"
  /\ PlanItems(plans[p]) # {}

Engine(newPlans, newLock) ==
  /\ plans' = newPlans
  /\ lock' = newLock
  /\ UNCHANGED <<history, recorded, choices, builder, approving>>

CheckApply(p) ==
  /\ lock = Free /\ Eligible(p) /\ plans[p].run = "none"
  /\ Engine(plans, [by |-> "apply", plan |-> p])

(* create_run, in a transaction of its own. *)
CreateRun ==
  /\ lock.by = "apply"
  /\ Engine([plans EXCEPT ![lock.plan].run = "open"], [by |-> "run", plan |-> lock.plan])

(* What a process leaves behind when it lets go of the lock; only then can *)
(* anybody else look at the items of the run.                              *)
Leave(outcome, unsafe) ==
  /\ plans' = [plans EXCEPT ![lock.plan].run = outcome, ![lock.plan].unsafe = unsafe]
  /\ lock' = Free
  /\ UNCHANGED <<history, recorded, choices, builder, approving>>

(* _finalize, or a preflight that failed; a run left open needs recovery.  *)
EndRun ==
  /\ lock.by = "run"
  /\ Leave("complete", FALSE) \/ Leave("failed", FALSE) \/ Leave("open", TRUE)

Die ==
  \/ lock.by = "apply" /\ Leave("none", FALSE)
  \/ lock.by = "run" /\ \E unsafe \in BOOLEAN : Leave("open", unsafe)

(* recover also refuses a run with stale items: ApplyEngine has the items. *)
Recover(p) ==
  /\ lock = Free /\ Eligible(p)
  /\ plans[p].run \in {"open", "failed"}
  /\ Engine([plans EXCEPT ![p].run = "open"], [by |-> "run", plan |-> p])

(* Mutant: a run state of its own for abandoned runs. *)
AbandonByName(p) ==
  /\ lock = Free
  /\ plans[p].run \in {"open", "failed"} /\ ~plans[p].unsafe
  /\ Engine([plans EXCEPT ![p].invalid = TRUE, ![p].run = "abandoned"], Free)

(* Invalidation and the closing of the run are two transactions under one  *)
(* lock; ApplyEngine has them apart.                                       *)
Abandon(p) ==
  /\ lock = Free
  /\ plans[p].run \in {"open", "failed"} /\ ~plans[p].unsafe
  /\ Engine([plans EXCEPT ![p].invalid = TRUE, ![p].run = "failed"], Free)

----------------------------------------------------------------------------
Deciding ==
  \E s \in Sources :
     \/ \E c \in Candidates : Accept(s, c)
     \/ GiveIdentity(s)
     \/ Exclude(s)
     \/ \E f \in Fields : AddOverride(s, f) \/ ClearOverride(s, f)

Choosing == ClearRun \/ \E r \in Runs : ChooseRun(r)

Building ==
  \/ BeginBuild \/ ReadHead \/ SkipChangedSource \/ ReadIdentity \/ ReadGroup
  \/ NothingActionable \/ StoreDraft \/ ImportFile

Applying ==
  \/ Approve \/ CreateRun \/ EndRun \/ Die
  \/ \E p \in Ids :
       CheckApproval(p) \/ RefuseLegacy(p) \/ CheckApply(p) \/ Recover(p) \/ Abandon(p)

Next == Deciding \/ Choosing \/ Building \/ Applying

Spec == Init /\ [][Next]_vars

----------------------------------------------------------------------------
TypeOK ==
  /\ history \in [Sources -> Seq(Decision(Evidence))]
  /\ recorded \in 0..MaxRows
  /\ choices \in Seq(Runs \cup {NoRun})
  /\ plans \in Seq(Plan)
  /\ builder \in [pc : {"idle", "next", "identity", "group"}, todo : SUBSET Sources,
                  at : SUBSET Sources, head : Nat,
                  id : [as : Subjects \cup {Nobody}, edits : SUBSET Fields],
                  draft : [Sources -> Item]]
  /\ approving \in Nat
  /\ lock \in [by : {"nobody", "apply", "run"}, plan : Nat]

(* A plan built here that the engine would apply says, for every item,     *)
(* exactly what the user decided last: the newest authorizing decision     *)
(* with the current overrides, not excluded since, and in agreement with   *)
(* the run selected for the series.  The builder's reads, the storing and  *)
(* the approval may each have missed any decision.  Not so a document that *)
(* was imported: it may name the current decisions and claim another       *)
(* identity, and nothing compares the two.                                 *)
EligibleIsCurrent ==
  \A p \in Ids : Eligible(p) /\ ~plans[p].imported =>
    \A s \in PlanItems(plans[p]) :
      LET i == plans[p].items[s] IN
        /\ Resolves(history[s])
        /\ [as |-> i.as, edits |-> i.edits] = Identity(history[s])
        /\ s \in Comics => RunAgrees(SelectedRun, i)

(* Of two stored plans that share a source at most the newer one can still *)
(* be applied for the first time, drafts and imported files included.      *)
OneLivePlan ==
  \A p, q \in Ids :
    p < q /\ PlanItems(plans[p]) \cap PlanItems(plans[q]) # {}
      => plans[p].superseded \/ plans[p].run # "none"

(* A refusal is final: an approved plan the engine refuses once is never   *)
(* accepted again, so a user who withdrew from a plan by any decision      *)
(* cannot find it applied later.                                           *)
RefusalIsFinal ==
  [][\A p \in Ids : plans[p].status = "approved" /\ ~Eligible(p) => ~Eligible(p)']_vars
=============================================================================
