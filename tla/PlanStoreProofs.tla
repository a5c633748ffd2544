--------------------------- MODULE PlanStoreProofs ---------------------------
(***************************************************************************)
(* What holds of plans and decisions for any sources, candidates, runs and *)
(* number of decisions and plans, in every interleaving of deciding,       *)
(* building, approving and applying: an applicable plan states the newest  *)
(* decisions, a source has one live plan, and a refusal is final.          *)
(***************************************************************************)
EXTENDS PlanStore, WellFoundedInduction, SequenceTheorems, TLAPS

-----------------------------------------------------------------------------
(* What a history says.                                                    *)

(* A nonempty set of positions in a history has a last one. *)
LEMMA LastPosition ==
  ASSUME NEW n \in Nat, NEW A \in SUBSET (1..n), A # {}
  PROVE  \E i \in A : \A j \in A : j <= i
<1> DEFINE R == OpToRel(<, Nat)
           T == {n - i : i \in A}
<1>1. T \subseteq Nat /\ T # {}
  <2>1. PICK i : i \in A
    OBVIOUS
  <2>2. n - i \in T
    BY <2>1
  <2>3. \A j \in A : n - j \in Nat
    OBVIOUS
  <2> QED
    BY <2>2, <2>3
<1>2. PICK x \in T : \A y \in T : <<y, x>> \notin R
  <2>1. IsWellFoundedOn(R, Nat)
    BY NatLessThanWellFounded
  <2> HIDE DEF R, T
  <2> QED
    BY <1>1, <2>1, WFMin
<1>3. \A y \in T : ~(y < x)
  BY <1>1, <1>2 DEF OpToRel
<1>4. PICK i \in A : x = n - i
  BY <1>2
<1>5. ASSUME NEW j \in A PROVE j <= i
  <2>1. n - j \in T
    OBVIOUS
  <2>2. ~(n - j < n - i)
    BY <2>1, <1>3, <1>4
  <2> QED
    BY <2>2
<1> QED
  BY <1>5

Histories == Seq(Decision(Evidence))

(* An identity a history resolves to is one of the subjects. *)
LEMMA IdentityType ==
  ASSUME NEW h \in Histories, Resolves(h)
  PROVE  /\ Identity(h) = [as |-> Identity(h).as, edits |-> Identity(h).edits]
         /\ Identity(h).as \in Subjects \cup {Nobody}
         /\ Identity(h).edits \in SUBSET Fields
<1>1. Len(h) \in Nat /\ \A i \in 1..Len(h) : h[i] \in Decision(Evidence)
  BY LenProperties, ElementOfSeq DEF Histories
<1>2. Authorizations(h) \in SUBSET (1..Len(h)) /\ Authorizations(h) # {}
  BY DEF Authorizations, Resolves
<1>3. Authorization(h) \in 1..Len(h)
  <2>1. \E i \in Authorizations(h) : \A j \in Authorizations(h) : j <= i
    BY <1>1, <1>2, LastPosition
  <2> QED
    BY <1>2, <2>1 DEF Authorization
<1>4. h[Authorization(h)].subject \in Subjects \cup {Nobody}
  BY <1>1, <1>3 DEF Decision
<1>5. Edits(h) \in SUBSET Fields
  BY DEF Edits
<1> QED
  BY <1>4, <1>5 DEF Identity

(* A history in force is not empty. *)
LEMMA InForceLength ==
  ASSUME NEW h \in Histories, InForce(h)
  PROVE  Len(h) \in Nat \ {0}
BY LenProperties, EmptySeq DEF Histories, InForce

(* A row appended makes the history longer by one. *)
LEMMA Longer ==
  ASSUME NEW S, NEW h \in Seq(S), NEW d \in S
  PROVE  Append(h, d) \in Seq(S) /\ Len(Append(h, d)) = Len(h) + 1 /\ Len(h) \in Nat
BY AppendProperties, LenProperties

(* The rows the operations append. *)
LEMMA DecisionType ==
  ASSUME NEW type \in DecisionTypes \ {"manual_override"}, NEW c \in Subjects \cup {Nobody}
  PROVE  Decide(type, c, "scan") \in Decision(Evidence)
BY DEF Decide, Decision, Evidence, Reasons

LEMMA OverrideType ==
  ASSUME NEW S \in SUBSET Fields, NEW T \in SUBSET Fields
  PROVE  Override("scan", S, T) \in Decision(Evidence)
BY DEF Override, Decide, Decision, Evidence, Reasons, DecisionTypes

-----------------------------------------------------------------------------
(* Types.                                                                  *)

PlansOK == plans \in Seq(Plan)

BuilderType ==
  [pc : {"idle", "next", "identity", "group"}, todo : SUBSET Sources,
   at : SUBSET Sources, head : Nat,
   id : [as : Subjects \cup {Nobody}, edits : SUBSET Fields],
   draft : [Sources -> Item]]

LockType == [by : {"nobody", "apply", "run"}, plan : Nat]

LEMMA TypeParts ==
  TypeOK <=> /\ history \in [Sources -> Histories]
             /\ recorded \in 0..MaxRows
             /\ choices \in Seq(Runs \cup {NoRun})
             /\ plans \in Seq(Plan)
             /\ builder \in BuilderType
             /\ approving \in Nat
             /\ lock \in LockType
BY DEF TypeOK, Histories, BuilderType, LockType

LEMMA TypePartsAfter ==
  TypeOK' <=> /\ history' \in [Sources -> Histories]
              /\ recorded' \in 0..MaxRows
              /\ choices' \in Seq(Runs \cup {NoRun})
              /\ plans' \in Seq(Plan)
              /\ builder' \in BuilderType
              /\ approving' \in Nat
              /\ lock' \in LockType
BY DEF TypeOK, Histories, BuilderType, LockType

(* Plans rewritten one by one are as many plans as before. *)
LEMMA Mapped ==
  ASSUME PlansOK, NEW f, f \in [Ids -> Plan]
  PROVE  f \in Seq(Plan) /\ Len(f) = Len(plans) /\ DOMAIN f = Ids
<1>1. Len(plans) \in Nat
  BY LenProperties DEF PlansOK
<1>2. f \in Seq(Plan)
  BY <1>1, SeqDef DEF Ids
<1>3. DOMAIN f = 1..Len(f) /\ Len(f) \in Nat
  BY <1>2, LenProperties
<1>4. Len(f) = Len(plans)
  BY <1>1, <1>3 DEF Ids
<1> QED
  BY <1>2, <1>3, <1>4 DEF Ids

LEMMA PlanType ==
  ASSUME PlansOK, NEW p \in Ids
  PROVE  plans[p] \in Plan
BY ElementOfSeq DEF PlansOK, Ids

(* Flags of a plan. *)
LEMMA Flagged ==
  ASSUME NEW p \in Plan, NEW b \in BOOLEAN
  PROVE  /\ [p EXCEPT !.invalid = b] \in Plan
         /\ [p EXCEPT !.superseded = b] \in Plan
BY DEF Plan

-----------------------------------------------------------------------------
(* What any step may do to plans and histories: everything the engine      *)
(* holds against a plan stays, the plan's text does not change, histories  *)
(* only grow.                                                              *)

Grows ==
  /\ \A s \in Sources : history'[s] = history[s] \/ Len(history'[s]) > Len(history[s])
  /\ choices' = choices \/ Len(choices') > Len(choices)

(* The plan keeps its text and whatever was held against it. *)
Follows(q, p) ==
  /\ q.items = p.items /\ q.content = p.content /\ q.imported = p.imported
  /\ p.status = "approved" => q.status = "approved"
  /\ p.invalid => q.invalid
  /\ p.superseded => q.superseded

(* Marking a plan keeps its text and what is held against it. *)
LEMMA Marked ==
  ASSUME NEW p \in Plan, NEW r \in RunStates, NEW u \in BOOLEAN
  PROVE  /\ [p EXCEPT !.status = "approved"] \in Plan
         /\ Follows([p EXCEPT !.status = "approved"], p)
         /\ [p EXCEPT !.status = "approved"].run = p.run
         /\ [p EXCEPT !.invalid = TRUE] \in Plan
         /\ Follows([p EXCEPT !.invalid = TRUE], p)
         /\ [p EXCEPT !.invalid = TRUE].run = p.run
         /\ [p EXCEPT !.run = r] \in Plan
         /\ Follows([p EXCEPT !.run = r], p)
         /\ [p EXCEPT !.run = r].run = r
         /\ [[p EXCEPT !.run = r] EXCEPT !.unsafe = u] \in Plan
         /\ Follows([[p EXCEPT !.run = r] EXCEPT !.unsafe = u], p)
         /\ [[p EXCEPT !.run = r] EXCEPT !.unsafe = u].run = r
         /\ [[p EXCEPT !.invalid = TRUE] EXCEPT !.run = r] \in Plan
         /\ Follows([[p EXCEPT !.invalid = TRUE] EXCEPT !.run = r], p)
         /\ [[p EXCEPT !.invalid = TRUE] EXCEPT !.run = r].run = r
<1>1. /\ [p EXCEPT !.status = "approved"] \in Plan
      /\ Follows([p EXCEPT !.status = "approved"], p)
      /\ [p EXCEPT !.status = "approved"].run = p.run
  BY DEF Plan, Follows
<1>2. /\ [p EXCEPT !.invalid = TRUE] \in Plan
      /\ Follows([p EXCEPT !.invalid = TRUE], p)
      /\ [p EXCEPT !.invalid = TRUE].run = p.run
  BY DEF Plan, Follows
<1>3. /\ [p EXCEPT !.run = r] \in Plan
      /\ Follows([p EXCEPT !.run = r], p)
      /\ [p EXCEPT !.run = r].run = r
  BY DEF Plan, Follows
<1>4. /\ [[p EXCEPT !.run = r] EXCEPT !.unsafe = u] \in Plan
      /\ Follows([[p EXCEPT !.run = r] EXCEPT !.unsafe = u], p)
      /\ [[p EXCEPT !.run = r] EXCEPT !.unsafe = u].run = r
  BY DEF Plan, Follows
<1>5. /\ [[p EXCEPT !.invalid = TRUE] EXCEPT !.run = r] \in Plan
      /\ Follows([[p EXCEPT !.invalid = TRUE] EXCEPT !.run = r], p)
      /\ [[p EXCEPT !.invalid = TRUE] EXCEPT !.run = r].run = r
  BY DEF Plan, Follows
<1> QED
  BY <1>1, <1>2, <1>3, <1>4, <1>5

Preserved ==
  /\ Len(plans) \in Nat /\ Len(plans') \in Nat /\ Len(plans) <= Len(plans')
  /\ \A p \in Ids : Follows(plans'[p], plans[p])

SamePlans == Len(plans') = Len(plans)

SameRuns == \A p \in Ids : plans'[p].run = plans[p].run

LEMMA NoLess == \A n \in Nat : n <= n /\ n + 1 \in Nat /\ n <= n + 1
OBVIOUS

LEMMA Reflexive ==
  ASSUME PlansOK, plans' = plans
  PROVE  Preserved /\ SamePlans /\ SameRuns
BY LenProperties DEF PlansOK, Preserved, SamePlans, SameRuns, Follows

(* Plans that are invalidated, or were before. *)
LEMMA Invalidating ==
  ASSUME PlansOK, NEW b \in [Ids -> BOOLEAN],
         plans' = [p \in Ids |-> [plans[p] EXCEPT !.invalid = @ \/ b[p]]]
  PROVE  plans' \in Seq(Plan) /\ SamePlans /\ Preserved /\ SameRuns
<1> DEFINE mapped == [p \in Ids |-> [plans[p] EXCEPT !.invalid = @ \/ b[p]]]
<1>1. mapped \in [Ids -> Plan]
  <2>1. ASSUME NEW p \in Ids PROVE [plans[p] EXCEPT !.invalid = @ \/ b[p]] \in Plan
    <3> DEFINE flag == plans[p].invalid \/ b[p]
    <3>1. flag \in BOOLEAN
      OBVIOUS
    <3>2. [plans[p] EXCEPT !.invalid = flag] \in Plan
      <4> HIDE DEF flag
      <4> QED
        BY <3>1, PlanType, Flagged
    <3> QED
      BY <3>2
  <2> QED
    BY <2>1
<1>2. plans' \in Seq(Plan) /\ SamePlans
  <2> HIDE DEF mapped
  <2>1. plans' = mapped
    BY DEF mapped
  <2> QED
    BY <1>1, <2>1, Mapped DEF SamePlans
<1>3. ASSUME NEW p \in Ids
      PROVE  Follows(plans'[p], plans[p]) /\ plans'[p].run = plans[p].run
  BY PlanType DEF Follows, Plan
<1>4. Len(plans) \in Nat
  BY LenProperties DEF PlansOK
<1> HIDE DEF mapped
<1>5. Len(plans') \in Nat /\ Len(plans) <= Len(plans')
  BY <1>2, <1>4, NoLess, Zenon DEF SamePlans
<1> QED
  BY <1>2, <1>3, <1>4, <1>5, Zenon DEF Preserved, SameRuns

(* A decision. *)
LEMMA RecordStep ==
  ASSUME TypeOK, NEW s \in Sources, NEW d \in Decision(Evidence), Record(s, d)
  PROVE  TypeOK' /\ Grows /\ Preserved /\ SamePlans /\ SameRuns
<1> DEFINE changed == [p \in Ids |-> /\ HasPrecondition(plans[p], s)
                                     /\ plans[p].items[s].head # Len(history[s]) + 1]
<1>1. PlansOK /\ history \in [Sources -> Histories] /\ recorded \in 0..MaxRows
  BY TypeParts DEF PlansOK
<1>2. /\ Append(history[s], d) \in Histories
      /\ Len(Append(history[s], d)) > Len(history[s])
  <2>1. history[s] \in Seq(Decision(Evidence))
    BY <1>1 DEF Histories
  <2>2. /\ Append(history[s], d) \in Seq(Decision(Evidence))
        /\ Len(Append(history[s], d)) = Len(history[s]) + 1 /\ Len(history[s]) \in Nat
    BY <2>1, Longer
  <2> QED
    BY <2>2 DEF Histories
<1>3. /\ history' = [history EXCEPT ![s] = Append(@, d)]
      /\ recorded' = recorded + 1 /\ recorded + Len(plans) < MaxRows
      /\ plans' = [p \in Ids |-> [plans[p] EXCEPT !.invalid = @ \/ changed[p]]]
      /\ UNCHANGED <<choices, builder, approving, lock>>
  BY DEF Record
<1>4. changed \in [Ids -> BOOLEAN]
  BY DEF HasPrecondition
<1>5. plans' \in Seq(Plan) /\ SamePlans /\ Preserved /\ SameRuns
  <2> HIDE DEF changed
  <2> QED
    BY <1>1, <1>3, <1>4, Invalidating
<1>6. recorded' \in 0..MaxRows
  BY <1>1, <1>3, LenProperties, PlanStoreAssumption DEF PlansOK
<1>7. history' \in [Sources -> Histories] /\ Grows
  BY <1>1, <1>2, <1>3 DEF Grows
<1> QED
  BY <1>3, <1>5, <1>6, <1>7, TypeParts, TypePartsAfter

(* A run choice. *)
LEMMA ChoiceStep ==
  ASSUME TypeOK, NEW r \in Runs \cup {NoRun}, AddChoice(r)
  PROVE  TypeOK' /\ Grows /\ Preserved /\ SamePlans /\ SameRuns
<1> DEFINE changed == [p \in Ids |-> \E s \in Sources :
                         /\ HasPrecondition(plans[p], s)
                         /\ plans[p].items[s].keyed
                         /\ plans[p].items[s].group # Len(choices) + 1]
<1>1. PlansOK /\ choices \in Seq(Runs \cup {NoRun}) /\ recorded \in 0..MaxRows
  BY TypeParts DEF PlansOK
<1>2. /\ Append(choices, r) \in Seq(Runs \cup {NoRun})
      /\ Len(Append(choices, r)) > Len(choices)
  <2>1. /\ Append(choices, r) \in Seq(Runs \cup {NoRun})
        /\ Len(Append(choices, r)) = Len(choices) + 1 /\ Len(choices) \in Nat
    BY <1>1, Longer
  <2> QED
    BY <2>1
<1>3. /\ choices' = Append(choices, r)
      /\ recorded' = recorded + 1 /\ recorded + Len(plans) < MaxRows
      /\ plans' = [p \in Ids |-> [plans[p] EXCEPT !.invalid = @ \/ changed[p]]]
      /\ UNCHANGED <<history, builder, approving, lock>>
  BY DEF AddChoice
<1>4. changed \in [Ids -> BOOLEAN]
  OBVIOUS
<1>5. plans' \in Seq(Plan) /\ SamePlans /\ Preserved /\ SameRuns
  <2> HIDE DEF changed
  <2> QED
    BY <1>1, <1>3, <1>4, Invalidating
<1>6. recorded' \in 0..MaxRows
  BY <1>1, <1>3, LenProperties, PlanStoreAssumption DEF PlansOK
<1>7. Grows
  BY <1>1, <1>2, <1>3 DEF Grows
<1> QED
  BY <1>2, <1>3, <1>5, <1>6, <1>7, TypeParts, TypePartsAfter

(* Deciding and choosing, as a whole. *)
LEMMA DecidingStep ==
  ASSUME TypeOK, Deciding \/ Choosing
  PROVE  TypeOK' /\ Grows /\ Preserved /\ SamePlans /\ SameRuns /\ UNCHANGED <<builder, lock>>
<1> DEFINE Goal == TypeOK' /\ Grows /\ Preserved /\ SamePlans /\ SameRuns /\ UNCHANGED <<builder, lock>>
<1>1. ASSUME NEW s \in Sources, NEW d \in Decision(Evidence), Record(s, d) PROVE Goal
  BY <1>1, RecordStep DEF Record
<1>2. ASSUME NEW r \in Runs \cup {NoRun}, AddChoice(r) PROVE Goal
  BY <1>2, ChoiceStep DEF AddChoice
<1> SUFFICES Goal
  OBVIOUS
<1> HIDE DEF Goal
<1>3. ASSUME NEW s \in Sources, NEW c \in Candidates, Accept(s, c) PROVE Goal
  <2>1. Decide("accepted", c, "scan") \in Decision(Evidence)
    BY DecisionType DEF DecisionTypes, Authorizing, Subjects
  <2> QED
    BY <1>1, <1>3, <2>1 DEF Accept
<1>4. ASSUME NEW s \in Sources, GiveIdentity(s) \/ Exclude(s) PROVE Goal
  <2>1. /\ Decide("manual_identity", Manual, "scan") \in Decision(Evidence)
        /\ Decide("rejected", Nobody, "scan") \in Decision(Evidence)
    BY DecisionType DEF DecisionTypes, Authorizing, Excluding, Subjects
  <2> QED
    BY <1>1, <1>4, <2>1 DEF GiveIdentity, Exclude
<1>5. ASSUME NEW s \in Sources, NEW f \in Fields, AddOverride(s, f) \/ ClearOverride(s, f)
      PROVE Goal
  <2>1. Edits(history[s]) \in SUBSET Fields
    BY DEF Edits
  <2>2. /\ Override("scan", Edits(history[s]) \cup {f}, {}) \in Decision(Evidence)
        /\ Override("scan", {}, {f}) \in Decision(Evidence)
    BY <2>1, OverrideType
  <2> QED
    BY <1>1, <1>5, <2>2 DEF AddOverride, ClearOverride
<1>6. CASE Deciding
  <2>1. PICK s \in Sources :
          \/ \E c \in Candidates : Accept(s, c)
          \/ GiveIdentity(s)
          \/ Exclude(s)
          \/ \E f \in Fields : AddOverride(s, f) \/ ClearOverride(s, f)
    BY <1>6 DEF Deciding
  <2> QED
    BY <1>3, <1>4, <1>5, <2>1
<1>7. CASE Choosing
  <2>1. PICK r \in Runs \cup {NoRun} : AddChoice(r)
    BY <1>7 DEF Choosing, ClearRun, ChooseRun
  <2> QED
    BY <1>2, <2>1
<1> QED
  BY <1>6, <1>7

-----------------------------------------------------------------------------
(* The builder changes nothing but itself until it stores a draft.         *)

LEMMA BuildStep ==
  ASSUME TypeOK, NEW b \in BuilderType, Build(b)
  PROVE  TypeOK' /\ Grows /\ Preserved /\ SamePlans /\ SameRuns
<1>1. UNCHANGED <<history, recorded, choices, plans, approving, lock>> /\ builder' = b
  BY DEF Build
<1>2. PlansOK
  BY TypeParts DEF PlansOK
<1> QED
  BY <1>1, <1>2, Reflexive, TypeParts, TypePartsAfter DEF Grows

LEMMA NoItemType ==
  NoItem \in Item /\ EmptyDraft \in [Sources -> Item] /\ Idle \in BuilderType
BY DEF NoItem, Item, EmptyDraft, Idle, BuilderType, NobodyYet

(* A new draft supersedes and is appended. *)
LEMMA StoreType ==
  ASSUME PlansOK, NEW items \in [Sources -> Item], NEW content \in {"sound", "blocked", "legacy"},
         NEW imported \in BOOLEAN, Store(items, content, imported)
  PROVE  /\ plans' \in Seq(Plan) /\ Preserved
         /\ Len(plans') = Len(plans) + 1
         /\ SameRuns
         /\ \A p \in Ids : Superseded(p, items) => plans'[p].superseded
         /\ LET q == plans'[Len(plans) + 1] IN q.items = items /\ q.imported = imported
<1> DEFINE mapped == [p \in Ids |-> [plans[p] EXCEPT !.superseded = @ \/ Superseded(p, items)]]
           new == [items |-> items, content |-> content,
                   status |-> "draft", invalid |-> FALSE, superseded |-> FALSE,
                   run |-> "none", unsafe |-> FALSE, imported |-> imported]
<1>1. plans' = Append(mapped, new)
  BY DEF Store
<1>2. new \in Plan
  BY DEF Plan, RunStates
<1>3. mapped \in [Ids -> Plan]
  <2>1. ASSUME NEW p \in Ids
        PROVE  [plans[p] EXCEPT !.superseded = @ \/ Superseded(p, items)] \in Plan
    <3> DEFINE flag == plans[p].superseded \/ Superseded(p, items)
    <3>1. flag \in BOOLEAN
      OBVIOUS
    <3>2. [plans[p] EXCEPT !.superseded = flag] \in Plan
      <4> HIDE DEF flag
      <4> QED
        BY <3>1, PlanType, Flagged
    <3> QED
      BY <3>2
  <2> QED
    BY <2>1
<1>4. \A p \in Ids : mapped[p] = [plans[p] EXCEPT !.superseded = @ \/ Superseded(p, items)]
  OBVIOUS
<1>5. new.items = items /\ new.imported = imported
  OBVIOUS
<1> HIDE DEF mapped, new
<1>6. mapped \in Seq(Plan) /\ Len(mapped) = Len(plans) /\ Len(plans) \in Nat
  BY <1>3, Mapped, LenProperties DEF PlansOK
<1>7. /\ plans' \in Seq(Plan) /\ Len(plans') = Len(plans) + 1
      /\ \A p \in Ids : plans'[p] = mapped[p]
      /\ plans'[Len(plans) + 1] = new
  BY <1>1, <1>2, <1>6, AppendProperties DEF Ids
<1>8. ASSUME NEW p \in Ids
      PROVE  /\ Follows(plans'[p], plans[p])
             /\ plans'[p].run = plans[p].run
             /\ Superseded(p, items) => plans'[p].superseded
  <2> DEFINE flag == plans[p].superseded \/ Superseded(p, items)
  <2>1. plans'[p] = [plans[p] EXCEPT !.superseded = flag]
    BY <1>4, <1>7
  <2>2. flag \in BOOLEAN /\ (plans[p].superseded => flag) /\ (Superseded(p, items) => flag)
    OBVIOUS
  <2>3. plans[p] \in Plan
    BY PlanType
  <2> HIDE DEF flag
  <2>4. plans'[p].superseded = flag /\ plans'[p].run = plans[p].run
    BY <2>1, <2>3 DEF Plan
  <2>5. /\ plans'[p].items = plans[p].items /\ plans'[p].content = plans[p].content
        /\ plans'[p].status = plans[p].status /\ plans'[p].invalid = plans[p].invalid
        /\ plans'[p].imported = plans[p].imported
    BY <2>1, <2>3 DEF Plan
  <2> QED
    BY <2>2, <2>4, <2>5, Zenon DEF Follows
<1>9. Len(plans') \in Nat /\ Len(plans) <= Len(plans')
  BY <1>6, <1>7, NoLess, Zenon
<1>10. Preserved
  BY <1>6, <1>8, <1>9, Zenon DEF Preserved
<1> QED
  BY <1>5, <1>7, <1>8, <1>10 DEF SameRuns

(* What is stated about the past by a document that is imported: it names  *)
(* only rows there are, or one of another source.                          *)
Known(s, i) == i.head <= Len(history[s]) /\ i.group <= Len(choices)

LEMMA Imported ==
  ASSUME TypeOK, ImportFile
  PROVE  \E items \in [Sources -> Item], content \in {"sound", "legacy"} :
           Store(items, content, TRUE) /\ \A s \in Sources : Known(s, items[s])
<1>1. PICK doc \in Documents : \E head \in NamedHeads(doc) : \E g \in NamedGroups(head) :
        Store([EmptyDraft EXCEPT ![doc.source] =
                 [head |-> head, as |-> doc.as, edits |-> doc.edits,
                  keyed |-> g.keyed, group |-> g.group]],
              doc.content, TRUE)
  BY DEF ImportFile
<1>0. PICK head \in NamedHeads(doc) : \E g \in NamedGroups(head) :
        Store([EmptyDraft EXCEPT ![doc.source] =
                 [head |-> head, as |-> doc.as, edits |-> doc.edits,
                  keyed |-> g.keyed, group |-> g.group]],
              doc.content, TRUE)
  BY <1>1
<1>2. PICK g \in NamedGroups(head) :
        Store([EmptyDraft EXCEPT ![doc.source] =
                 [head |-> head, as |-> doc.as, edits |-> doc.edits,
                  keyed |-> g.keyed, group |-> g.group]],
              doc.content, TRUE)
  BY <1>0
<1> DEFINE item == [head |-> head, as |-> doc.as, edits |-> doc.edits,
                    keyed |-> g.keyed, group |-> g.group]
           items == [EmptyDraft EXCEPT ![doc.source] = item]
<1>3. /\ doc.source \in Sources /\ doc.as \in Subjects /\ doc.edits \in SUBSET Fields
      /\ doc.content \in {"sound", "legacy"}
  BY PlanStoreAssumption DEF PlanStoreAssumption
<1>4. /\ \A s \in Sources : Len(history[s]) \in Nat
      /\ Len(choices) \in Nat
  <2>1. \A s \in Sources : history[s] \in Seq(Decision(Evidence))
    BY DEF TypeOK
  <2>2. choices \in Seq(Runs \cup {NoRun})
    BY DEF TypeOK
  <2> QED
    BY <2>1, <2>2, LenProperties
<1>5. /\ head \in Nat \cup {Elsewhere} /\ head <= Len(history[doc.source])
      /\ g.keyed \in BOOLEAN /\ g.group \in Nat /\ g.group <= Len(choices)
  <2>1. head = 0 \/ head \in 1..Len(history[doc.source]) \/ head = Elsewhere
    BY DEF NamedHeads
  <2>2. \/ g = [keyed |-> FALSE, group |-> 0]
        \/ g \in [keyed : {TRUE}, group : 0..Len(choices)]
    BY DEF NamedGroups
  <2>3. g.keyed \in BOOLEAN /\ g.group \in 0..Len(choices)
    <3>1. CASE g = [keyed |-> FALSE, group |-> 0]
      <4>1. g.keyed = FALSE /\ g.group = 0
        BY <3>1
      <4>2. g.keyed \in BOOLEAN
        BY <4>1, Zenon
      <4>3. g.group \in 0..Len(choices)
        BY <1>4, <4>1
      <4> QED
        BY <4>2, <4>3
    <3>2. CASE g \in [keyed : {TRUE}, group : 0..Len(choices)]
      <4>1. g.keyed \in {TRUE} /\ g.group \in 0..Len(choices)
        BY <3>2
      <4> QED
        BY <4>1
    <3> QED
      BY <2>2, <3>1, <3>2
  <2> QED
    BY <1>3, <1>4, <2>1, <2>3 DEF Elsewhere
<1>6. item \in Item
  BY <1>3, <1>5 DEF Item
<1>7. items \in [Sources -> Item]
  <2> HIDE DEF item
  <2> QED
    BY <1>6, NoItemType
<1>8. ASSUME NEW s \in Sources PROVE Known(s, items[s])
  <2>1. CASE s = doc.source
    <3>1. items[s] = item
      <4> HIDE DEF item
      <4> QED
        BY <2>1, NoItemType
    <3>2. item.head = head /\ item.group = g.group
      OBVIOUS
    <3> QED
      BY <1>5, <2>1, <3>1, <3>2 DEF Known
  <2>2. CASE s # doc.source
    <3>1. items[s] = NoItem
      BY <2>2 DEF EmptyDraft
    <3> HIDE DEF items
    <3> QED
      BY <1>4, <3>1 DEF Known, NoItem
  <2> QED
    BY <2>1, <2>2
<1> HIDE DEF item, items
<1> QED
  BY <1>2, <1>3, <1>7, <1>8 DEF item, items

LEMMA StoreStep ==
  ASSUME TypeOK, StoreDraft \/ ImportFile
  PROVE  TypeOK' /\ Grows /\ Preserved /\ SameRuns
<1>1. PlansOK /\ builder \in BuilderType
  BY TypeParts DEF PlansOK
<1>2. CASE StoreDraft
  <2>1. builder.draft \in [Sources -> Item]
    BY <1>1 DEF BuilderType
  <2>2. plans' \in Seq(Plan) /\ Preserved /\ SameRuns
    BY <1>1, <1>2, <2>1, StoreType DEF StoreDraft
  <2> QED
    BY <1>2, <2>2, NoItemType, TypeParts, TypePartsAfter DEF StoreDraft, Grows
<1>3. CASE ImportFile
  <2>1. PICK items \in [Sources -> Item], content \in {"sound", "legacy"} :
          Store(items, content, TRUE)
    BY <1>3, Imported, TypeParts
  <2>2. plans' \in Seq(Plan) /\ Preserved /\ SameRuns
    BY <1>1, <2>1, StoreType
  <2> QED
    BY <1>3, <2>2, TypeParts, TypePartsAfter DEF ImportFile, Grows
<1> QED
  BY <1>2, <1>3

-----------------------------------------------------------------------------
(* Approval and the engine set flags of one plan.                          *)

(* The plan is replaced by one that follows it. *)
LEMMA FlagStep ==
  ASSUME TypeOK, NEW q \in Nat, NEW new \in Plan,
         plans' = [plans EXCEPT ![q] = new],
         q \in Ids => Follows(new, plans[q]),
         UNCHANGED <<history, recorded, choices, builder>>,
         approving' \in Nat, lock' \in LockType
  PROVE  TypeOK' /\ Grows /\ Preserved /\ SamePlans
<1>1. PlansOK
  BY TypeParts DEF PlansOK
<1>2. Len(plans) \in Nat /\ plans \in [Ids -> Plan]
  BY <1>1, LenProperties DEF PlansOK, Ids
<1> DEFINE mapped == [plans EXCEPT ![q] = new]
<1>3. mapped \in [Ids -> Plan]
  BY <1>2
<1>4. \A p \in Ids : mapped[p] = IF p = q THEN new ELSE plans[p]
  BY <1>2
<1> HIDE DEF mapped
<1>5. plans' = mapped
  BY DEF mapped
<1>6. plans' \in Seq(Plan) /\ SamePlans
  BY <1>1, <1>3, <1>5, Mapped DEF SamePlans
<1>7. Len(plans') \in Nat /\ Len(plans) <= Len(plans')
  BY <1>2, <1>6, NoLess, Zenon DEF SamePlans
<1>8. \A p \in Ids : Follows(plans'[p], plans[p])
  BY <1>4, <1>5 DEF Follows
<1>9. Preserved
  BY <1>2, <1>7, <1>8, Zenon DEF Preserved
<1> QED
  BY <1>6, <1>9, TypeParts, TypePartsAfter DEF Grows

(* Approval and the lock refer to stored plans, and a plan that apply has  *)
(* checked has no run yet.                                                 *)
Checked ==
  /\ approving # 0 => approving \in Ids
  /\ lock.by # "nobody" => lock.plan \in Ids
  /\ lock.by = "apply" => plans[lock.plan].run = "none"

(* A plan that has a run keeps one. *)
Started == \A p \in Ids : plans[p].run # "none" => plans'[p].run # "none"

LEMMA ApprovalStep ==
  ASSUME TypeOK, Checked, Approve \/ \E p \in Ids : CheckApproval(p) \/ RefuseLegacy(p)
  PROVE  TypeOK' /\ Grows /\ Preserved /\ SamePlans /\ SameRuns /\ Checked' /\ UNCHANGED builder
<1>1. PlansOK /\ lock \in LockType /\ approving \in Nat
  BY TypeParts DEF PlansOK
<1>2. Len(plans) \in Nat /\ plans \in [Ids -> Plan] /\ Ids \subseteq Nat
  BY <1>1, LenProperties DEF PlansOK, Ids
<1>3. CASE Approve
  <2> DEFINE new == [plans[approving] EXCEPT !.status = "approved"]
  <2>1. approving \in Ids /\ plans[approving] \in Plan
    BY <1>2, <1>3 DEF Approve, Checked
  <2>2. new \in Plan /\ Follows(new, plans[approving]) /\ new.run = plans[approving].run
    BY <2>1, Marked DEF RunStates
  <2>3. /\ plans' = [plans EXCEPT ![approving] = new]
        /\ approving' = 0
        /\ UNCHANGED <<history, recorded, choices, builder, lock>>
    BY <1>3 DEF Approve
  <2> HIDE DEF new
  <2>4. TypeOK' /\ Grows /\ Preserved /\ SamePlans
    BY <1>1, <2>1, <2>2, <2>3, <1>2, FlagStep
  <2>5. SameRuns
    BY <1>2, <2>1, <2>2, <2>3 DEF SameRuns
  <2>6. Checked'
    BY <2>3, <2>4, <2>5 DEF Checked, SamePlans, SameRuns, Ids
  <2> QED
    BY <2>3, <2>4, <2>5, <2>6
<1>4. ASSUME NEW p \in Ids, CheckApproval(p)
      PROVE  TypeOK' /\ Grows /\ Preserved /\ SamePlans /\ SameRuns /\ Checked' /\ UNCHANGED builder
  <2>1. UNCHANGED <<history, recorded, choices, plans, builder, lock>> /\ approving' = p
    BY <1>4 DEF CheckApproval
  <2>2. TypeOK'
    BY <1>2, <2>1, TypeParts, TypePartsAfter
  <2> QED
    BY <1>1, <2>1, <2>2, Reflexive DEF Checked, Grows, Ids
<1>5. ASSUME NEW p \in Ids, RefuseLegacy(p)
      PROVE  TypeOK' /\ Grows /\ Preserved /\ SamePlans /\ SameRuns /\ Checked' /\ UNCHANGED builder
  <2> DEFINE new == [plans[p] EXCEPT !.invalid = TRUE]
  <2>1. new \in Plan /\ Follows(new, plans[p]) /\ new.run = plans[p].run
    BY PlanType, <1>1, Marked DEF RunStates
  <2>2. /\ plans' = [plans EXCEPT ![p] = new]
        /\ UNCHANGED <<history, recorded, choices, builder, approving, lock>>
    BY <1>5 DEF RefuseLegacy
  <2> HIDE DEF new
  <2>3. TypeOK' /\ Grows /\ Preserved /\ SamePlans
    BY <1>1, <1>2, <2>1, <2>2, FlagStep
  <2>4. SameRuns
    BY <1>2, <2>1, <2>2 DEF SameRuns
  <2>5. Checked'
    BY <2>2, <2>3, <2>4 DEF Checked, SamePlans, SameRuns, Ids
  <2> QED
    BY <2>2, <2>3, <2>4, <2>5
<1> QED
  BY <1>3, <1>4, <1>5

LEMMA EngineStep ==
  ASSUME TypeOK, Checked,
         CreateRun \/ EndRun \/ Die \/ \E p \in Ids : CheckApply(p) \/ Recover(p) \/ Abandon(p)
  PROVE  TypeOK' /\ Grows /\ Preserved /\ SamePlans /\ Started /\ Checked' /\ UNCHANGED builder
<1> DEFINE Goal == TypeOK' /\ Grows /\ Preserved /\ SamePlans /\ Started /\ Checked' /\ UNCHANGED builder
<1>1. PlansOK /\ lock \in LockType /\ approving \in Nat
  BY TypeParts DEF PlansOK
<1>2. Len(plans) \in Nat /\ plans \in [Ids -> Plan] /\ Ids \subseteq Nat
  BY <1>1, LenProperties DEF PlansOK, Ids
<1>3. ASSUME NEW q \in Ids, NEW new \in Plan, plans' = [plans EXCEPT ![q] = new],
             Follows(new, plans[q]), plans[q].run # "none" => new.run # "none",
             UNCHANGED <<history, recorded, choices, builder, approving>>,
             lock' \in LockType, lock'.by # "nobody" => lock'.plan = q,
             lock'.by = "apply" => new.run = "none"
      PROVE  Goal
  <2>1. TypeOK' /\ Grows /\ Preserved /\ SamePlans
    BY <1>1, <1>2, <1>3, FlagStep
  <2>2. Started
    BY <1>2, <1>3 DEF Started
  <2>3. plans'[q] = new
    BY <1>2, <1>3
  <2>4. Checked'
    BY <1>3, <2>1, <2>3 DEF Checked, SamePlans, Ids
  <2> QED
    BY <1>3, <2>1, <2>2, <2>4
<1> SUFFICES Goal
  OBVIOUS
<1> HIDE DEF Goal
<1>4. CASE CreateRun
  <2> DEFINE q == lock.plan
             new == [plans[q] EXCEPT !.run = "open"]
  <2>1. q \in Ids /\ plans[q] \in Plan
    BY <1>2, <1>4 DEF CreateRun, Checked
  <2>2. new \in Plan /\ Follows(new, plans[q]) /\ new.run = "open"
    BY <2>1, Marked DEF RunStates
  <2>3. /\ plans' = [plans EXCEPT ![q] = new] /\ lock' = [by |-> "run", plan |-> q]
        /\ UNCHANGED <<history, recorded, choices, builder, approving>>
    BY <1>4 DEF CreateRun, Engine
  <2>4. lock' \in LockType /\ lock'.plan = q /\ lock'.by = "run"
    BY <1>2, <2>1, <2>3 DEF LockType
  <2> HIDE DEF q, new
  <2> QED
    BY <1>3, <2>1, <2>2, <2>3, <2>4
<1>5. ASSUME NEW outcome \in RunStates, NEW unsafe \in BOOLEAN, Leave(outcome, unsafe),
             lock.by # "nobody", outcome = "none" => lock.by = "apply"
      PROVE  Goal
  <2> DEFINE q == lock.plan
             new == [[plans[q] EXCEPT !.run = outcome] EXCEPT !.unsafe = unsafe]
  <2>1. q \in Ids /\ plans[q] \in Plan
    BY <1>2, <1>5 DEF Checked
  <2>2. new \in Plan /\ Follows(new, plans[q]) /\ new.run = outcome
    <3> DEFINE old == plans[q]
    <3>1. old \in Plan /\ outcome \in RunStates /\ unsafe \in BOOLEAN
      BY <1>5, <2>1
    <3> HIDE DEF old, q
    <3>2. [[old EXCEPT !.run = outcome] EXCEPT !.unsafe = unsafe] \in Plan
      BY <3>1, Marked
    <3>3. Follows([[old EXCEPT !.run = outcome] EXCEPT !.unsafe = unsafe], old)
      BY <3>1, Marked
    <3>4. [[old EXCEPT !.run = outcome] EXCEPT !.unsafe = unsafe].run = outcome
      BY <3>1 DEF Plan
    <3> QED
      BY <3>2, <3>3, <3>4 DEF old
  <2>3. /\ plans' = [plans EXCEPT ![q] = new] /\ lock' = Free
        /\ UNCHANGED <<history, recorded, choices, builder, approving>>
    BY <1>2, <1>5, <2>1 DEF Leave
  <2>4. lock' \in LockType /\ lock'.by = "nobody"
    BY <2>3 DEF LockType, Free
  <2>5. plans[q].run # "none" => outcome # "none"
    BY <1>5 DEF Checked
  <2> HIDE DEF q, new
  <2> QED
    BY <1>3, <2>1, <2>2, <2>3, <2>4, <2>5
<1>6. CASE EndRun \/ Die
  BY <1>5, <1>6 DEF EndRun, Die, RunStates
<1>7. ASSUME NEW p \in Ids, CheckApply(p) PROVE Goal
  <2>1. /\ plans' = [plans EXCEPT ![p] = plans[p]] /\ lock' = [by |-> "apply", plan |-> p]
        /\ UNCHANGED <<history, recorded, choices, builder, approving>>
        /\ plans[p].run = "none"
    BY <1>2, <1>7 DEF CheckApply, Engine
  <2>2. lock' \in LockType /\ lock'.plan = p /\ plans[p] \in Plan /\ Follows(plans[p], plans[p])
    BY <1>2, <2>1 DEF LockType, Follows
  <2> QED
    BY <1>3, <2>1, <2>2
<1>8. ASSUME NEW p \in Ids, Recover(p) PROVE Goal
  <2> DEFINE new == [plans[p] EXCEPT !.run = "open"]
  <2>1. new \in Plan /\ Follows(new, plans[p]) /\ new.run = "open"
    <3>1. plans[p] \in Plan /\ "open" \in RunStates
      BY PlanType, <1>1 DEF RunStates
    <3> QED
      BY <3>1, Marked
  <2>2. /\ plans' = [plans EXCEPT ![p] = new] /\ lock' = [by |-> "run", plan |-> p]
        /\ UNCHANGED <<history, recorded, choices, builder, approving>>
    BY <1>8 DEF Recover, Engine
  <2>3. lock' \in LockType /\ lock'.plan = p /\ lock'.by = "run"
    BY <1>2, <2>2 DEF LockType
  <2> HIDE DEF new
  <2> QED
    BY <1>3, <2>1, <2>2, <2>3
<1>9. ASSUME NEW p \in Ids, Abandon(p) PROVE Goal
  <2> DEFINE new == [[plans[p] EXCEPT !.invalid = TRUE] EXCEPT !.run = "failed"]
  <2>1. new \in Plan /\ Follows(new, plans[p]) /\ new.run = "failed"
    BY PlanType, <1>1, Marked DEF RunStates
  <2>2. /\ plans' = [plans EXCEPT ![p] = new] /\ lock' = Free
        /\ UNCHANGED <<history, recorded, choices, builder, approving>>
    BY <1>2, <1>9 DEF Abandon, Engine
  <2>3. lock' \in LockType /\ lock'.by = "nobody"
    BY <2>2 DEF LockType, Free
  <2> HIDE DEF new
  <2> QED
    BY <1>3, <2>1, <2>2, <2>3
<1> QED
  BY <1>4, <1>6, <1>7, <1>8, <1>9

-----------------------------------------------------------------------------
(* What a plan, or a draft, states.                                        *)

(* An item tells nothing newer than the histories; if it names the newest  *)
(* decision and choice, it says what they say.                             *)
Stated(s, i) ==
  /\ Known(s, i)
  /\ i # NoItem => i.head > 0
  /\ i.head # 0 /\ i.head = Len(history[s]) =>
       Resolves(history[s]) /\ [as |-> i.as, edits |-> i.edits] = Identity(history[s])
  /\ i.head # 0 /\ s \in Comics => i.keyed
  /\ i.head # 0 /\ s \in Comics /\ i.group = Len(choices) => RunAgrees(SelectedRun, i)

(* The identity the builder has read, and the items of its draft.          *)
Reading ==
  /\ \A s \in Sources : Stated(s, builder.draft[s])
  /\ builder.pc \in {"identity", "group"} =>
       \E s \in Sources : builder.at = {s} /\ builder.head \in 1..Len(history[s])
  /\ builder.pc = "group" =>
       \A s \in builder.at : builder.head = Len(history[s]) =>
         Resolves(history[s]) /\ builder.id = Identity(history[s])

(* Of an imported plan no more is known than that it names nothing newer.  *)
Kept ==
  \A p \in Ids : \A s \in Sources :
    /\ Known(s, plans[p].items[s])
    /\ ~plans[p].imported => Stated(s, plans[p].items[s])

IInv == TypeOK /\ Reading /\ Kept /\ Checked /\ OneLivePlan

LEMMA LengthsAre ==
  ASSUME TypeOK
  PROVE  /\ \A s \in Sources : Len(history[s]) \in Nat
         /\ Len(choices) \in Nat /\ Len(plans) \in Nat
<1>1. \A s \in Sources : history[s] \in Seq(Decision(Evidence))
  BY DEF TypeOK
<1>2. \A s \in Sources : Len(history[s]) \in Nat
  BY <1>1, LenProperties
<1>3. choices \in Seq(Runs \cup {NoRun}) /\ plans \in Seq(Plan)
  BY DEF TypeOK
<1> QED
  BY <1>2, <1>3, LenProperties

LEMMA LengthsWillBe ==
  ASSUME TypeOK'
  PROVE  /\ \A s \in Sources : Len(history'[s]) \in Nat
         /\ Len(choices') \in Nat /\ Len(plans') \in Nat
<1>1. \A s \in Sources : history'[s] \in Seq(Decision(Evidence))
  BY DEF TypeOK
<1>2. \A s \in Sources : Len(history'[s]) \in Nat
  BY <1>1, LenProperties
<1>3. choices' \in Seq(Runs \cup {NoRun}) /\ plans' \in Seq(Plan)
  BY DEF TypeOK
<1> QED
  BY <1>2, <1>3, LenProperties

(* A statement about the past stays one: whoever names the newest row      *)
(* after a step named it before.                                           *)
LEMMA KnownStays ==
  ASSUME TypeOK, TypeOK', Grows, NEW s \in Sources, NEW i \in Item, Known(s, i)
  PROVE  Known(s, i)'
<1>1. /\ Len(history[s]) \in Nat /\ Len(history'[s]) \in Nat
      /\ Len(choices) \in Nat /\ Len(choices') \in Nat
      /\ i.head \in Int /\ i.group \in Nat
  BY LengthsAre, LengthsWillBe DEF Item, Elsewhere
<1>2. history'[s] = history[s] \/ Len(history'[s]) > Len(history[s])
  BY DEF Grows
<1>3. choices' = choices \/ Len(choices') > Len(choices)
  BY DEF Grows
<1>4. i.head <= Len(history'[s])
  BY <1>1, <1>2 DEF Known
<1>5. i.group <= Len(choices')
  BY <1>1, <1>3 DEF Known
<1> QED
  BY <1>4, <1>5 DEF Known

LEMMA StatedStays ==
  ASSUME TypeOK, TypeOK', Grows, NEW s \in Sources, NEW i \in Item, Stated(s, i)
  PROVE  Stated(s, i)'
<1>1. /\ Len(history[s]) \in Nat /\ Len(history'[s]) \in Nat
      /\ Len(choices) \in Nat /\ Len(choices') \in Nat
      /\ i.head \in Int /\ i.group \in Nat
  BY LengthsAre, LengthsWillBe DEF Item, Elsewhere
<1>2. history'[s] = history[s] \/ Len(history'[s]) > Len(history[s])
  BY DEF Grows
<1>3. choices' = choices \/ Len(choices') > Len(choices)
  BY DEF Grows
<1>4. Known(s, i)'
  BY KnownStays DEF Stated
<1>5. i.head = Len(history'[s]) => history'[s] = history[s]
  BY <1>1, <1>2 DEF Stated, Known
<1>7. i.group = Len(choices') => choices' = choices
  BY <1>1, <1>3 DEF Stated, Known
<1>8. choices' = choices => SelectedRun' = SelectedRun
  BY DEF SelectedRun
<1>9. i.head # 0 /\ i.head = Len(history'[s]) =>
        Resolves(history'[s]) /\ [as |-> i.as, edits |-> i.edits] = Identity(history'[s])
  BY <1>5 DEF Stated
<1>10. i.head # 0 /\ s \in Comics /\ i.group = Len(choices') => RunAgrees(SelectedRun', i)
  BY <1>7, <1>8 DEF Stated
<1> QED
  BY <1>4, <1>9, <1>10 DEF Stated

(* Deciding, choosing, approving and applying leave the builder alone.     *)
LEMMA ReadingStays ==
  ASSUME TypeOK, TypeOK', Grows, Reading, UNCHANGED builder
  PROVE  Reading'
<1>1. \A s \in Sources : Len(history[s]) \in Nat /\ Len(history'[s]) \in Nat
  BY LengthsAre, LengthsWillBe
<1>2. builder \in BuilderType /\ builder' = builder
  BY TypeParts
<1>3. \A s \in Sources : Stated(s, builder.draft[s])'
  <2>1. ASSUME NEW s \in Sources PROVE Stated(s, builder.draft[s])'
    <3> DEFINE i == builder.draft[s]
    <3>1. i \in Item /\ Stated(s, i)
      BY <1>2 DEF BuilderType, Reading
    <3>2. i' = i
      BY <1>2
    <3> HIDE DEF i
    <3>3. \A j \in Item : Stated(s, j) => Stated(s, j)'
      BY StatedStays
    <3> QED
      BY <3>1, <3>2, <3>3 DEF i, Stated, Known
  <2> QED
    BY <2>1
<1>4. \A s \in Sources : history'[s] = history[s] \/ Len(history'[s]) > Len(history[s])
  BY DEF Grows
<1>5. builder.at \in SUBSET Sources /\ builder.head \in Nat
  BY <1>2 DEF BuilderType
<1>6. ASSUME builder.pc \in {"identity", "group"}, NEW s \in builder.at
      PROVE  /\ builder.head \in 1..Len(history'[s])
             /\ builder.head = Len(history'[s]) => history'[s] = history[s]
  BY <1>1, <1>4, <1>5, <1>6 DEF Reading
<1> QED
  BY <1>2, <1>3, <1>6 DEF Reading

-----------------------------------------------------------------------------
(* What the builder reads.                                                 *)

(* The invariant of the builder, of the state it moves to. *)
Reads(b) ==
  /\ b \in BuilderType
  /\ \A s \in Sources : Stated(s, b.draft[s])
  /\ b.pc \in {"identity", "group"} =>
       \E s \in Sources : b.at = {s} /\ b.head \in 1..Len(history[s])
  /\ b.pc = "group" =>
       \A s \in b.at : b.head = Len(history[s]) =>
         Resolves(history[s]) /\ b.id = Identity(history[s])

LEMMA ReadingBuilt ==
  ASSUME NEW b, Reads(b), Build(b)
  PROVE  Reading'
<1>1. /\ builder' = b /\ history' = history /\ choices' = choices
  BY DEF Build
<1>2. ASSUME NEW s \in Sources PROVE Stated(s, b.draft[s])'
  BY <1>1 DEF Reads, Stated, Known, SelectedRun, Build
<1> QED
  BY <1>1, <1>2 DEF Reads, Reading, Stated, Known, SelectedRun

LEMMA EmptyStated ==
  ASSUME TypeOK, NEW s \in Sources
  PROVE  Stated(s, EmptyDraft[s])
BY LengthsAre DEF Stated, Known, EmptyDraft, NoItem

(* The builder's own steps. *)
LEMMA BuilderStep ==
  ASSUME TypeOK, Reading,
         BeginBuild \/ ReadHead \/ SkipChangedSource \/ ReadIdentity \/ ReadGroup
           \/ NothingActionable
  PROVE  \E b : Reads(b) /\ Build(b)
<1>1. builder \in BuilderType
  BY TypeParts
<1>2. history \in [Sources -> Histories]
  BY TypeParts
<1>3. \A s \in Sources : Len(history[s]) \in Nat
  BY LengthsAre
<1>4. Reads(Idle)
  BY NoItemType, EmptyStated DEF Reads, Idle
<1>5. CASE BeginBuild
  <2> DEFINE b == [Idle EXCEPT !.pc = "next", !.todo = Sources]
  <2>1. b \in BuilderType
    BY NoItemType DEF BuilderType, Idle
  <2>2. Reads(b)
    BY <2>1, EmptyStated DEF Reads, Idle
  <2> QED
    BY <1>5, <2>2 DEF BeginBuild
<1>6. CASE ReadHead
  <2>1. PICK s \in builder.todo :
          \/ Build([builder EXCEPT !.todo = @ \ {s}])
          \/ /\ InForce(history[s])
             /\ Build([builder EXCEPT !.todo = @ \ {s}, !.pc = "identity", !.at = {s},
                                      !.head = Len(history[s])])
    BY <1>6 DEF ReadHead
  <2>2. s \in Sources
    BY <1>1 DEF BuilderType
  <2>3. CASE Build([builder EXCEPT !.todo = @ \ {s}])
    <3> DEFINE b == [builder EXCEPT !.todo = @ \ {s}]
    <3>1. b \in BuilderType
      BY <1>1 DEF BuilderType
    <3>2. Reads(b)
      BY <1>1, <3>1 DEF Reads, Reading, BuilderType
    <3> QED
      BY <2>3, <3>2
  <2>4. CASE /\ InForce(history[s])
             /\ Build([builder EXCEPT !.todo = @ \ {s}, !.pc = "identity", !.at = {s},
                                      !.head = Len(history[s])])
    <3> DEFINE b == [builder EXCEPT !.todo = @ \ {s}, !.pc = "identity", !.at = {s},
                                      !.head = Len(history[s])]
    <3>1. Len(history[s]) \in Nat \ {0}
      BY <1>2, <2>2, <2>4, InForceLength
    <3>2. b \in BuilderType
      BY <1>1, <2>2, <3>1 DEF BuilderType
    <3>3. b.pc = "identity" /\ b.at = {s} /\ b.head = Len(history[s]) /\ b.draft = builder.draft
      BY <1>1 DEF BuilderType
    <3> HIDE DEF b
    <3>4. b.head \in 1..Len(history[s])
      BY <3>1, <3>3
    <3>5. Reads(b)
      BY <2>2, <3>2, <3>3, <3>4 DEF Reads, Reading
    <3> QED
      BY <2>4, <3>5 DEF b
  <2> QED
    BY <2>1, <2>3, <2>4
<1>7. ASSUME Build([builder EXCEPT !.pc = "next"])
      PROVE  \E b : Reads(b) /\ Build(b)
  <2> DEFINE b == [builder EXCEPT !.pc = "next"]
  <2>1. b \in BuilderType /\ b.pc = "next" /\ b.draft = builder.draft
    BY <1>1 DEF BuilderType
  <2>2. Reads(b)
    BY <2>1 DEF Reads, Reading
  <2> QED
    BY <1>7, <2>2
<1>8. CASE SkipChangedSource
  BY <1>7, <1>8 DEF SkipChangedSource
<1>9. CASE ReadIdentity
  <2>1. PICK s \in builder.at :
          \/ Build([builder EXCEPT !.pc = "next"])
          \/ /\ Resolves(history[s])
             /\ Build([builder EXCEPT !.pc = "group", !.id = Identity(history[s])])
    BY <1>9 DEF ReadIdentity
  <2>2. CASE /\ Resolves(history[s])
             /\ Build([builder EXCEPT !.pc = "group", !.id = Identity(history[s])])
    <3> DEFINE b == [builder EXCEPT !.pc = "group", !.id = Identity(history[s])]
    <3>1. s \in Sources /\ builder.pc = "identity"
      BY <1>1, <1>9 DEF BuilderType, ReadIdentity
    <3>2. Identity(history[s]) \in [as : Subjects \cup {Nobody}, edits : SUBSET Fields]
      BY <1>2, <2>2, <3>1, IdentityType
    <3>3. b \in BuilderType
      BY <1>1, <3>2 DEF BuilderType
    <3>4. /\ b.pc = "group" /\ b.at = builder.at /\ b.head = builder.head
          /\ b.draft = builder.draft /\ b.id = Identity(history[s])
      BY <1>1 DEF BuilderType
    <3>5. builder.at = {s}
      BY <3>1 DEF Reading
    <3> HIDE DEF b
    <3>6. Reads(b)
      BY <2>2, <3>1, <3>3, <3>4, <3>5 DEF Reads, Reading
    <3> QED
      BY <2>2, <3>6 DEF b
  <2> QED
    BY <1>7, <2>1, <2>2
<1>10. CASE ReadGroup
  <2>1. PICK s \in builder.at :
          \/ s \notin Comics /\ AddItem(s, FALSE, 0)
          \/ /\ s \in Comics /\ RunAgrees(SelectedRun, builder.id)
             /\ AddItem(s, TRUE, Len(choices))
          \/ Build([builder EXCEPT !.pc = "next"])
    BY <1>10 DEF ReadGroup
  <2>2. s \in Sources /\ builder.pc = "group" /\ builder.head \in 1..Len(history[s])
    BY <1>1, <1>10 DEF BuilderType, ReadGroup, Reading
  <2>3. ASSUME NEW keyed \in BOOLEAN, NEW group \in Nat, AddItem(s, keyed, group),
               group <= Len(choices), s \in Comics => keyed /\ RunAgrees(SelectedRun, builder.id)
        PROVE  \E b : Reads(b) /\ Build(b)
    <3> DEFINE item == [head |-> builder.head, as |-> builder.id.as, edits |-> builder.id.edits,
                        keyed |-> keyed, group |-> group]
               b == [builder EXCEPT !.pc = "next", !.draft[s] = item]
    <3>1. item \in Item
      BY <1>1 DEF BuilderType, Item
    <3>2. b \in BuilderType
      BY <1>1, <3>1 DEF BuilderType
    <3>3. RunAgrees(SelectedRun, builder.id) => RunAgrees(SelectedRun, item)
      BY DEF RunAgrees
    <3>4. [as |-> item.as, edits |-> item.edits] = builder.id
      BY <1>1 DEF BuilderType
    <3>5. builder.head = Len(history[s]) =>
            Resolves(history[s]) /\ builder.id = Identity(history[s])
      BY <2>2 DEF Reading
    <3>6. item.head = builder.head /\ item.keyed = keyed /\ item.group = group
      OBVIOUS
    <3>7. b.pc = "next" /\ \A t \in Sources : b.draft[t] = IF t = s THEN item ELSE builder.draft[t]
      BY <1>1 DEF BuilderType
    <3>8. Build(b)
      BY <2>3 DEF AddItem
    <3> HIDE DEF item, b
    <3>9. Stated(s, item)
      BY <1>3, <2>2, <2>3, <3>3, <3>4, <3>5, <3>6 DEF Stated, Known
    <3>10. Reads(b)
      BY <3>2, <3>7, <3>9 DEF Reads, Reading
    <3> QED
      BY <3>8, <3>10
  <2>4. /\ Len(choices) \in Nat /\ Len(choices) <= Len(choices)
        /\ 0 \in Nat /\ 0 <= Len(choices)
        /\ TRUE \in BOOLEAN /\ FALSE \in BOOLEAN
    BY LengthsAre
  <2>5. CASE s \notin Comics /\ AddItem(s, FALSE, 0)
    BY <2>3, <2>4, <2>5, Zenon
  <2>6. CASE /\ s \in Comics /\ RunAgrees(SelectedRun, builder.id)
             /\ AddItem(s, TRUE, Len(choices))
    BY <2>3, <2>4, <2>6, Zenon
  <2> QED
    BY <1>7, <2>1, <2>5, <2>6
<1>11. CASE NothingActionable
  BY <1>4, <1>11 DEF NothingActionable
<1> QED
  BY <1>5, <1>6, <1>8, <1>9, <1>10, <1>11

-----------------------------------------------------------------------------
(* Plans, old and new.                                                     *)

LEMMA ItemType ==
  ASSUME PlansOK, NEW p \in Ids, NEW s \in Sources
  PROVE  plans[p].items[s] \in Item
BY PlanType DEF Plan

(* What stored plans state stays stated. *)
LEMMA OldPlans ==
  ASSUME TypeOK, TypeOK', Grows, Preserved, Kept, NEW p \in Ids, NEW s \in Sources
  PROVE  /\ Known(s, plans[p].items[s])'
         /\ ~plans'[p].imported => Stated(s, plans[p].items[s])'
<1>1. /\ plans[p].items[s] \in Item /\ Known(s, plans[p].items[s])
      /\ ~plans[p].imported => Stated(s, plans[p].items[s])
  BY ItemType, TypeParts DEF PlansOK, Kept
<1>2. plans'[p].items = plans[p].items /\ plans'[p].imported = plans[p].imported
  BY DEF Preserved, Follows
<1>3. \A i \in Item : Stated(s, i) => Stated(s, i)'
  BY StatedStays
<1>4. \A i \in Item : Known(s, i) => Known(s, i)'
  BY KnownStays
<1> DEFINE i == plans[p].items[s]
<1>5. i' = i
  BY <1>2
<1> HIDE DEF i
<1>6. Known(s, i)'
  BY <1>1, <1>4, <1>5 DEF i, Known
<1>7. ~plans[p].imported => Stated(s, i)'
  BY <1>1, <1>3, <1>5 DEF i, Stated, Known
<1> QED
  BY <1>2, <1>6, <1>7 DEF i

LEMMA KeptStays ==
  ASSUME TypeOK, TypeOK', Grows, Preserved, Kept, SamePlans
  PROVE  Kept'
BY OldPlans DEF Kept, SamePlans, Ids

(* Of two plans that share a source the older stays out. *)
LEMMA OneLiveOld ==
  ASSUME Preserved, Started, OneLivePlan, NEW p \in Ids, NEW q \in Ids, p < q,
         PlanItems(plans'[p]) \cap PlanItems(plans'[q]) # {}
  PROVE  plans'[p].superseded \/ plans'[p].run # "none"
<1>1. plans'[p].items = plans[p].items /\ plans'[q].items = plans[q].items
  BY DEF Preserved, Follows
<1>2. PlanItems(plans[p]) \cap PlanItems(plans[q]) # {}
  BY <1>1 DEF PlanItems
<1>3. plans[p].superseded \/ plans[p].run # "none"
  BY <1>2 DEF OneLivePlan
<1> QED
  BY <1>3 DEF Preserved, Follows, Started

LEMMA OneLiveStays ==
  ASSUME Preserved, SamePlans, Started, OneLivePlan
  PROVE  OneLivePlan'
<1>1. Ids' = Ids
  BY DEF Ids, SamePlans
<1> QED
  BY <1>1, OneLiveOld DEF OneLivePlan, PlanItems

(* A step that changes neither the lock nor runs. *)
LEMMA CheckedStays ==
  ASSUME TypeOK, Checked, Preserved, SameRuns, UNCHANGED <<approving, lock>>
  PROVE  Checked'
<1>1. Ids \subseteq Ids'
  BY DEF Ids, Preserved
<1> QED
  BY <1>1 DEF Checked, SameRuns

LEMMA StartedBySame ==
  ASSUME SameRuns
  PROVE  Started
BY DEF SameRuns, Started

(* A plan stored supersedes what it shares a source with. *)
LEMMA StoreKeeps ==
  ASSUME TypeOK, TypeOK', Grows, Preserved, Started, Kept, OneLivePlan,
         NEW items \in [Sources -> Item], NEW content \in {"sound", "blocked", "legacy"},
         NEW imported \in BOOLEAN, Store(items, content, imported),
         UNCHANGED <<history, choices>>,
         \A s \in Sources : Known(s, items[s]) /\ (~imported => Stated(s, items[s]))
  PROVE  Kept' /\ OneLivePlan'
<1>1. PlansOK
  BY TypeParts DEF PlansOK
<1>2. /\ Len(plans') = Len(plans) + 1
      /\ SameRuns
      /\ \A p \in Ids : Superseded(p, items) => plans'[p].superseded
      /\ plans'[Len(plans) + 1].items = items
      /\ plans'[Len(plans) + 1].imported = imported
  BY <1>1, StoreType
<1>3. Len(plans) \in Nat
  BY LengthsAre
<1>0. PICK n : n = Len(plans) + 1
  OBVIOUS
<1>4. Ids' = Ids \cup {n} /\ n \notin Ids /\ Ids \subseteq Nat /\ \A p \in Ids : p < n
  BY <1>0, <1>2, <1>3 DEF Ids
<1>5. plans'[n].items = items /\ plans'[n].imported = imported
  BY <1>0, <1>2
<1>6. Kept'
  <2>1. ASSUME NEW s \in Sources
        PROVE  /\ Known(s, plans[n].items[s])'
               /\ ~plans'[n].imported => Stated(s, plans[n].items[s])'
    <3>1. Known(s, items[s]) /\ (~imported => Stated(s, items[s]))
      OBVIOUS
    <3>2. plans'[n].items[s] = items[s] /\ plans'[n].imported = imported
      BY <1>5
    <3>3. SelectedRun' = SelectedRun
      BY DEF SelectedRun
    <3> QED
      BY <3>1, <3>2, <3>3 DEF Stated, Known
  <2>2. ASSUME NEW p \in Ids, NEW s \in Sources
        PROVE  /\ Known(s, plans[p].items[s])'
               /\ ~plans'[p].imported => Stated(s, plans[p].items[s])'
    BY OldPlans
  <2> QED
    BY <1>4, <2>1, <2>2 DEF Kept
<1>7. ASSUME NEW p \in Ids, PlanItems(plans'[p]) \cap PlanItems(plans'[n]) # {}
      PROVE  plans'[p].superseded \/ plans'[p].run # "none"
  <2>1. plans'[p].items = plans[p].items
    BY DEF Preserved, Follows
  <2>2. PICK s \in Sources : plans[p].items[s] # NoItem /\ items[s] # NoItem
    BY <1>5, <1>7, <2>1 DEF PlanItems
  <2>3. CASE plans[p].run = "none"
    BY <1>2, <2>2, <2>3 DEF Superseded
  <2>4. CASE plans[p].run # "none"
    BY <2>4 DEF Started
  <2> QED
    BY <2>3, <2>4
<1>8. ASSUME NEW p \in Ids', NEW q \in Ids', p < q,
             PlanItems(plans'[p]) \cap PlanItems(plans'[q]) # {}
      PROVE  plans'[p].superseded \/ plans'[p].run # "none"
  <2>1. p \in Ids
    BY <1>0, <1>3, <1>4, <1>8 DEF Ids
  <2>2. CASE q \in Ids
    BY <1>8, <2>1, <2>2, OneLiveOld
  <2>3. CASE q = n
    BY <1>7, <1>8, <2>1, <2>3
  <2> QED
    BY <1>4, <2>2, <2>3
<1>9. OneLivePlan'
  BY <1>8 DEF OneLivePlan, PlanItems
<1> QED
  BY <1>6, <1>9

-----------------------------------------------------------------------------
(* Every step.                                                             *)

LEMMA Initially ==
  ASSUME Init
  PROVE  IInv
<1>1. plans = <<>> /\ Ids = {}
  BY DEF Init, Ids
<1>2. TypeOK
  <2>1. /\ <<>> \in Histories /\ <<>> \in Seq(Runs \cup {NoRun}) /\ <<>> \in Seq(Plan)
    BY DEF Histories
  <2>2. 0 \in 0..MaxRows /\ Free \in LockType
    BY PlanStoreAssumption DEF Free, LockType
  <2> QED
    BY <2>1, <2>2, NoItemType, TypeParts DEF Init
<1>3. Reading
  BY <1>2, EmptyStated DEF Reading, Init, Idle
<1>4. Kept /\ Checked /\ OneLivePlan
  BY <1>1 DEF Kept, Checked, OneLivePlan, Init, Free
<1> QED
  BY <1>2, <1>3, <1>4 DEF IInv

LEMMA EveryStep ==
  ASSUME IInv, [Next]_vars
  PROVE  IInv' /\ Grows /\ Preserved
<1> DEFINE Goal == IInv' /\ Grows /\ Preserved
<1>1. TypeOK /\ Reading /\ Kept /\ Checked /\ OneLivePlan /\ PlansOK
  BY TypeParts DEF IInv, PlansOK
<1>2. ASSUME TypeOK', Grows, Preserved, SamePlans, SameRuns, UNCHANGED <<builder, approving, lock>>
      PROVE  Goal
  BY <1>1, <1>2, ReadingStays, KeptStays, CheckedStays, StartedBySame, OneLiveStays DEF IInv
<1>3. ASSUME TypeOK', Grows, Preserved, SamePlans, Started, Checked', UNCHANGED builder
      PROVE  Goal
  BY <1>1, <1>3, ReadingStays, KeptStays, OneLiveStays DEF IInv
<1>4. CASE Deciding \/ Choosing
  <2>1. UNCHANGED approving
    BY <1>4 DEF Deciding, Choosing, Accept, GiveIdentity, Exclude, AddOverride, ClearOverride,
                Record, ClearRun, ChooseRun, AddChoice
  <2> QED
    BY <1>1, <1>2, <1>4, <2>1, DecidingStep
<1>5. CASE BeginBuild \/ ReadHead \/ SkipChangedSource \/ ReadIdentity \/ ReadGroup
             \/ NothingActionable
  <2>1. PICK b : Reads(b) /\ Build(b)
    BY <1>1, <1>5, BuilderStep
  <2>2. TypeOK' /\ Grows /\ Preserved /\ SamePlans /\ SameRuns
    BY <1>1, <2>1, BuildStep DEF Reads
  <2>3. Reading' /\ UNCHANGED <<approving, lock>>
    BY <2>1, ReadingBuilt DEF Build
  <2> QED
    BY <1>1, <2>2, <2>3, KeptStays, CheckedStays, StartedBySame, OneLiveStays DEF IInv
<1>6. CASE StoreDraft \/ ImportFile
  <2>1. TypeOK' /\ Grows /\ Preserved /\ SameRuns /\ Started
    BY <1>1, <1>6, StoreStep, StartedBySame
  <2>2. Checked'
    BY <1>1, <1>6, <2>1, CheckedStays DEF StoreDraft, ImportFile
  <2>3. CASE StoreDraft
    <3>1. PICK content \in {"sound", "blocked"} : Store(builder.draft, content, FALSE)
      BY <2>3 DEF StoreDraft
    <3>2. /\ builder.draft \in [Sources -> Item]
          /\ \A s \in Sources : Known(s, builder.draft[s]) /\ Stated(s, builder.draft[s])
      BY <1>1, TypeParts DEF BuilderType, Reading, Stated
    <3>3. UNCHANGED <<history, choices>> /\ builder' = Idle
      BY <2>3 DEF StoreDraft
    <3>4. Kept' /\ OneLivePlan'
      BY <1>1, <2>1, <3>1, <3>2, <3>3, StoreKeeps
    <3>5. Reading'
      <4>1. ASSUME NEW s \in Sources PROVE Stated(s, EmptyDraft[s])'
        BY <2>1, LengthsWillBe DEF Stated, Known, EmptyDraft, NoItem
      <4> QED
        BY <3>3, <4>1 DEF Reading, Idle, EmptyDraft
    <3> QED
      BY <2>1, <2>2, <3>4, <3>5 DEF IInv
  <2>4. CASE ImportFile
    <3>1. PICK items \in [Sources -> Item], content \in {"sound", "legacy"} :
            Store(items, content, TRUE) /\ \A s \in Sources : Known(s, items[s])
      BY <1>1, <2>4, Imported
    <3>2. UNCHANGED <<history, choices, builder>>
      BY <2>4 DEF ImportFile
    <3>3. Kept' /\ OneLivePlan'
      BY <1>1, <2>1, <3>1, <3>2, StoreKeeps
    <3>4. Reading'
      BY <1>1, <2>1, <3>2, ReadingStays
    <3> QED
      BY <2>1, <2>2, <3>3, <3>4 DEF IInv
  <2> QED
    BY <1>6, <2>3, <2>4
<1>7. CASE Approve \/ \E p \in Ids : CheckApproval(p) \/ RefuseLegacy(p)
  BY <1>1, <1>3, <1>7, ApprovalStep, StartedBySame
<1>8. CASE CreateRun \/ EndRun \/ Die \/ \E p \in Ids : CheckApply(p) \/ Recover(p) \/ Abandon(p)
  BY <1>1, <1>3, <1>8, EngineStep
<1>9. CASE UNCHANGED vars
  <2>1. /\ UNCHANGED <<history, recorded, choices, plans, builder, approving, lock>>
    BY <1>9 DEF vars
  <2>2. TypeOK'
    BY <1>1, <2>1, TypeParts, TypePartsAfter
  <2> QED
    BY <1>1, <1>2, <2>1, <2>2, Reflexive DEF Grows
<1>10. CASE Next
  BY <1>4, <1>5, <1>6, <1>7, <1>8, <1>10 DEF Next, Building, Applying
<1> QED
  BY <1>9, <1>10

LEMMA Invariance == Spec => []IInv
<1>1. Init => IInv
  BY Initially
<1>2. IInv /\ [Next]_vars => IInv'
  BY EveryStep
<1> QED
  BY <1>1, <1>2, PTL DEF Spec

-----------------------------------------------------------------------------
(* The state of plans, decisions, builder, approval and lock keeps its     *)
(* type: the indexes the operations use name stored rows.                  *)
THEOREM TypeCorrect == Spec => []TypeOK
<1>1. IInv => TypeOK
  BY DEF IInv
<1> QED
  BY <1>1, Invariance, PTL

(* A plan built here that the engine would apply says of every item what   *)
(* the user decided last, however many sessions decided between the reads  *)
(* of the builder, the storing, the approval and its check.                *)
THEOREM EligibleCurrent == Spec => []EligibleIsCurrent
<1>1. ASSUME IInv PROVE EligibleIsCurrent
  <2> SUFFICES ASSUME NEW p \in Ids, Eligible(p), ~plans[p].imported,
                      NEW s \in Sources, plans[p].items[s] # NoItem
               PROVE  /\ Resolves(history[s])
                      /\ [as |-> plans[p].items[s].as, edits |-> plans[p].items[s].edits]
                           = Identity(history[s])
                      /\ s \in Comics => RunAgrees(SelectedRun, plans[p].items[s])
    BY DEF EligibleIsCurrent, PlanItems
  <2> DEFINE i == plans[p].items[s]
  <2>1. TypeOK /\ Stated(s, i) /\ i \in Item
    BY <1>1, ItemType, TypeParts DEF IInv, Kept, PlansOK
  <2>2. i.head # 0 /\ i.head \in 1..Len(history[s])
    <3>1. i.head > 0 /\ i.head <= Len(history[s])
      BY <2>1 DEF Stated, Known
    <3>2. i.head \in Int /\ Len(history[s]) \in Nat
      BY <2>1, LengthsAre DEF Item, Elsewhere
    <3> HIDE DEF i
    <3> QED
      BY <3>1, <3>2
  <2>3. i.head = Len(history[s])
    <3>1. history[s] # <<>>
      BY <2>2
    <3> QED
      BY <2>2, <3>1 DEF Eligible, HeadsCurrent, HasPrecondition
  <2>4. i.keyed => i.group = Len(choices)
    BY <2>2 DEF Eligible, GroupsCurrent, HasPrecondition
  <2> HIDE DEF i
  <2>5. /\ Resolves(history[s]) /\ [as |-> i.as, edits |-> i.edits] = Identity(history[s])
        /\ s \in Comics => RunAgrees(SelectedRun, i)
    BY <2>1, <2>2, <2>3, <2>4 DEF Stated
  <2> QED
    BY <2>5 DEF i
<1> QED
  BY <1>1, Invariance, PTL

(* A source has at most one stored plan that can still be applied for the  *)
(* first time, and it is the newest.                                       *)
THEOREM OneLive == Spec => []OneLivePlan
<1>1. IInv => OneLivePlan
  BY DEF IInv
<1> QED
  BY <1>1, Invariance, PTL

(* An approved plan the engine refuses once is refused for good.           *)
THEOREM RefusalFinal == Spec => RefusalIsFinal
<1>1. ASSUME IInv, [Next]_vars, NEW p \in Ids, plans[p].status = "approved", Eligible(p)'
      PROVE  Eligible(p)
  <2>1. IInv' /\ Grows /\ Preserved
    BY <1>1, EveryStep
  <2>2. TypeOK /\ TypeOK' /\ Kept
    BY <1>1, <2>1 DEF IInv
  <2>3. Follows(plans'[p], plans[p])
    BY <2>1 DEF Preserved
  <2>4. ASSUME NEW s \in Sources, HasPrecondition(plans[p], s)
        PROVE  /\ history[s] # <<>> => plans[p].items[s].head = Len(history[s])
               /\ plans[p].items[s].keyed => plans[p].items[s].group = Len(choices)
    <3> DEFINE i == plans[p].items[s]
    <3>1. i \in Item /\ Known(s, i)
      BY <2>2, ItemType, TypeParts DEF PlansOK, Kept
    <3>2. /\ history'[s] # <<>> => i.head = Len(history'[s])
          /\ i.keyed => i.group = Len(choices')
      BY <1>1, <2>3, <2>4 DEF Eligible, HeadsCurrent, GroupsCurrent, HasPrecondition, Follows
    <3>3. /\ history'[s] = history[s] \/ Len(history'[s]) > Len(history[s])
          /\ choices' = choices \/ Len(choices') > Len(choices)
      BY <2>1 DEF Grows
    <3> HIDE DEF i
    <3>4. i.head \in Int /\ i.group \in Nat /\ i.head <= Len(history[s]) /\ i.group <= Len(choices)
      BY <3>1 DEF Item, Known, Elsewhere
    <3>5. /\ Len(history[s]) \in Nat /\ Len(history'[s]) \in Nat
          /\ Len(choices) \in Nat /\ Len(choices') \in Nat
      BY <2>2, LengthsAre, LengthsWillBe
    <3>6. Len(history'[s]) > Len(history[s]) => history'[s] # <<>>
      BY <3>5, EmptySeq
    <3>7. i.keyed => i.group = Len(choices)
      BY <3>2, <3>3, <3>4, <3>5
    <3>8. history[s] # <<>> => i.head = Len(history[s])
      BY <3>2, <3>3, <3>4, <3>5, <3>6
    <3> QED
      BY <3>7, <3>8 DEF i
  <2>5. HeadsCurrent(plans[p]) /\ GroupsCurrent(plans[p])
    BY <2>4 DEF HeadsCurrent, GroupsCurrent
  <2>6. /\ ~plans[p].invalid /\ ~plans[p].superseded /\ plans[p].content = "sound"
        /\ PlanItems(plans[p]) # {}
    BY <1>1, <2>3 DEF Eligible, Follows, PlanItems
  <2> QED
    BY <1>1, <2>5, <2>6 DEF Eligible
<1>2. IInv /\ [Next]_vars
        => [\A p \in Ids : plans[p].status = "approved" /\ ~Eligible(p) => ~Eligible(p)']_vars
  BY <1>1
<1> QED
  BY <1>2, Invariance, PTL DEF Spec, RefusalIsFinal
=============================================================================
