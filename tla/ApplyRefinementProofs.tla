------------------------ MODULE ApplyRefinementProofs ------------------------
(***************************************************************************)
(* The apply engine implements Publication for a plan of any length and    *)
(* any number of process deaths, failing operations and changes by others, *)
(* as long as the machine does not lose power.                             *)
(***************************************************************************)
EXTENDS ApplyRefinement, ApplyEngineTruthProofs

-----------------------------------------------------------------------------
(* A closed run stays closed: what refuses it to recover is already true   *)
(* at the steps that close it.                                             *)

SomeStale == \E i \in Items : item[i] = "stale"

Shut ==
  /\ pc = "mark_stale" => \E i \in errs : i >= cur \/ item[i] = "stale"
  /\ pc = "fail_run" => SomeStale
  /\ pc = "close_run" => invalid
  /\ run = "failed" => invalid \/ SomeStale
  /\ run = "complete" => pc \in {"idle", "report"} /\ \A i \in Items : item[i] = "complete"

(* The states of an item that the journal never leaves. *)
LEMMA NoWayOut ==
  Allowed["complete"] = {} /\ Allowed["stale"] = {} /\ Allowed["recovery_required"] = {}
<1>1. Allowed["complete"] = {}
  BY DEF Allowed, ItemStates
<1>2. Allowed["stale"] = {}
  BY DEF Allowed, ItemStates
<1>3. Allowed["recovery_required"] = {}
  BY DEF Allowed, ItemStates
<1> QED
  BY <1>1, <1>2, <1>3

(* A turn touches neither the plan nor the run. *)
LEMMA TurnUnmoved ==
  ASSUME Turn \/ RecoverTurn \/ StepFails
  PROVE  UNCHANGED <<policy, run, invalid, meddled>>
<1> USE DEF TurnFrame, world
<1>1. CASE BeginStaging \/ WriteStage \/ JournalStaged \/ VerifyStage
  BY <1>1 DEF BeginStaging, WriteStage, JournalStaged, VerifyStage
<1>2. CASE SealStage
  BY <1>2 DEF SealStage
<1>3. CASE IntendCommit \/ Link \/ SyncDest \/ Unstage \/ CheckDest
  BY <1>3 DEF IntendCommit, Link, SyncDest, Unstage, CheckDest
<1>4. CASE BeginLifecycle \/ RecheckSource \/ CopyArchive \/ LinkArchive \/ SyncArchive
  BY <1>4 DEF BeginLifecycle, RecheckSource, CopyArchive, LinkArchive, SyncArchive
<1>5. CASE CheckArchive \/ UnlinkSource \/ SyncSource \/ JournalCleaned \/ JournalComplete
  BY <1>5 DEF CheckArchive, UnlinkSource, SyncSource, JournalCleaned, JournalComplete
<1>6. CASE RecoveryPreflight \/ RecoverSettled \/ RecoverCleaned \/ RecoverCommitted
           \/ RecoverLinked \/ RecoverUnlinked
  BY <1>6 DEF RecoveryPreflight, RecoverSettled, RecoverCleaned, RecoverCommitted,
     RecoverLinked, RecoverUnlinked
<1>7. CASE RecoverStaged \/ RecoverStaging \/ RecoverUnstaged \/ DropStage \/ RecoverSource
           \/ RecoverMove \/ RecoverArchive
  BY <1>7 DEF RecoverStaged, RecoverStaging, RecoverUnstaged, DropStage, RecoverSource,
     RecoverMove, RecoverArchive
<1>8. CASE StepFails
  BY <1>8 DEF StepFails
<1> QED
  BY <1>1, <1>2, <1>3, <1>4, <1>5, <1>6, <1>7, <1>8 DEF Turn, RecoverTurn

(* A change by somebody else leaves the journal and the process alone. *)
LEMMA MeddlingUnmoved ==
  ASSUME Meddling
  PROVE  UNCHANGED <<policy, run, item, process>> /\ (invalid => invalid')
<1>1. ASSUME NEW i, NEW p, NEW c, Meddle(i, p, c)
      PROVE  UNCHANGED <<policy, run, item, process>> /\ (invalid => invalid')
  BY <1>1 DEF Meddle, journal
<1>2. CASE InvalidatePlan
  BY <1>2 DEF InvalidatePlan
<1> QED
  BY <1>1, <1>2 DEF Meddling, EditSource, RemoveSource, RestoreSource, ReplaceDest,
     ReplaceArchive, LoseStage

(* No step forgets an invalidation or a stale item. *)
LEMMA Lasting ==
  ASSUME Typed, Legal, [Next]_vars
  PROVE  /\ SomeStale => SomeStale'
         /\ invalid => invalid'
<1>1. SomeStale => SomeStale'
  BY NoWayOut DEF SomeStale, Legal, Typed, ProcessType
<1>2. CASE UNCHANGED vars
  BY <1>1, <1>2 DEF vars
<1>3. CASE Turn \/ RecoverTurn \/ StepFails
  BY <1>1, <1>3, TurnUnmoved
<1>4. CASE Head
  BY <1>1, <1>4 DEF Head, TurnFrame, Preflight, CheckSpace, MarkStale, FailRun, MarkOK,
     StartRun, journal
<1>5. CASE Tail
  BY <1>1, <1>5 DEF Tail, Finalize, WriteReport, CloseRun
<1>6. CASE Commands \/ Kill \/ PowerLoss
  BY <1>1, <1>6 DEF Commands, StartApply, StartRecover, Abandon, Backfill, Kill, PowerLoss,
     journal
<1>7. CASE Meddling
  BY <1>1, <1>7, MeddlingUnmoved
<1> QED
  BY <1>2, <1>3, <1>4, <1>5, <1>6, <1>7 DEF Next, Progress

(* Steps of a turn, a failing one included. *)
LEMMA TurnsShut ==
  ASSUME Typed, Legal, Shut, [Next]_vars, Turn \/ RecoverTurn \/ StepFails
  PROVE  Shut'
<1>1. TurnShape
  <2>1. CASE StepFails
    BY <2>1, RaiseShape, TurnUnmoved DEF StepFails, Typed, FallibleSteps, TurnSteps
  <2> QED
    BY <2>1, TurnsShape, RecoverTurnsShape
<1>2. pc' \in TurnSteps \cup {"finalize"} /\ run' = run /\ pc \in TurnSteps
  BY <1>1 DEF TurnShape, EndTurn, NextItem, TurnStart, Goto, TurnSteps
<1>3. {"idle", "report", "mark_stale", "fail_run", "close_run"}
        \cap (TurnSteps \cup {"finalize"}) = {}
  BY DEF TurnSteps
<1>4. run # "complete"
  BY <1>2, <1>3 DEF Shut
<1> QED
  BY <1>2, <1>3, <1>4, Lasting DEF Shut

(* Before the turns. *)
LEMMA HeadShut ==
  ASSUME Typed, Legal, Control, Shut, [Next]_vars, Head
  PROVE  Shut'
<1>c. cur \in Nat /\ N \in Nat /\ 1 <= cur /\ cur <= N /\ Items = 1..N /\ errs \subseteq 1..N
  BY PlanAssumption DEF Typed, ProcessType, Items
<1>r. run # "complete"
  BY DEF Head, Preflight, CheckSpace, MarkStale, FailRun, MarkOK, StartRun, Shut
<1>l. (run = "failed" => invalid \/ SomeStale) => (run = "failed" => invalid' \/ SomeStale')
  BY Lasting
<1>1. CASE Preflight
  BY <1>1, <1>r, <1>l DEF Preflight, NextItem, journal, Shut
<1>2. CASE CheckSpace
  <2>1. /\ pc' = "mark_ok" \/ (pc' = "mark_stale" /\ errs' # {} /\ errs' \subseteq 1..N /\ cur' = 1)
        /\ run' = run
    BY <1>2, <1>c DEF CheckSpace, journal, Control
  <2> QED
    BY <2>1, <1>r, <1>l DEF Shut
<1>3. CASE MarkStale
  <2>0. run' = run /\ errs' = errs /\ pc = "mark_stale"
    BY <1>3 DEF MarkStale, TurnFrame
  <2>1. PICK i \in errs : i >= cur \/ item[i] = "stale"
    BY <2>0 DEF Shut
  <2>2. i >= cur + 1 \/ item'[i] = "stale"
    <3>1. CASE i >= cur /\ i # cur
      BY <3>1, <1>c
    <3>2. CASE i = cur
      <4>1. item' = [item EXCEPT ![cur] = "stale"] /\ item \in [Items -> ItemStates] /\ cur \in Items
        BY <1>3, <3>2, <2>1 DEF MarkStale, Typed, ProcessType
      <4> QED
        BY <4>1, <3>2
    <3>3. CASE item[i] = "stale"
      <4>1. i \in Items /\ Allowed[item[i]] = {}
        BY <3>3, <2>1, <1>c, NoWayOut
      <4> QED
        BY <4>1, <3>3 DEF Legal
    <3> QED
      BY <2>1, <3>1, <3>2, <3>3, <1>c
  <2>3. CASE cur < N
    <3>1. pc' = "mark_stale" /\ cur' = cur + 1
      BY <1>3, <2>3 DEF MarkStale, NextItem
    <3> QED
      BY <3>1, <2>0, <2>1, <2>2, <1>r, <1>l DEF Shut
  <2>4. CASE ~(cur < N)
    <3>1. pc' = "fail_run"
      BY <1>3, <2>4 DEF MarkStale, NextItem
    <3>2. SomeStale'
      BY <2>1, <2>2, <2>4, <1>c DEF SomeStale
    <3> QED
      BY <3>1, <3>2, <2>0, <1>r DEF Shut
  <2> QED
    BY <2>3, <2>4
<1>4. CASE FailRun
  BY <1>4, Lasting DEF FailRun, Release, Shut
<1>5. CASE MarkOK
  BY <1>5, <1>r, <1>l DEF MarkOK, NextItem, TurnFrame, Shut
<1>6. CASE StartRun
  BY <1>6 DEF StartRun, Goto, Shut
<1> QED
  BY <1>1, <1>2, <1>3, <1>4, <1>5, <1>6 DEF Head

(* After the turns, and around a run. *)
LEMMA AroundShut ==
  ASSUME Typed, Legal, Closing, Shut, [Next]_vars, Tail \/ Commands \/ Kill \/ Meddling
  PROVE  Shut'
<1>1. CASE Finalize
  <2>1. UNCHANGED item /\ pc' \in {"report", "idle"} /\ run' = FinalState
    BY <1>1 DEF Finalize, Goto, Release
  <2>2. CASE FinalState = "complete"
    <3>1. \A i \in Items : item[i] = "complete"
      BY <2>2 DEF FinalState
    <3> QED
      BY <2>1, <2>2, <3>1 DEF Shut
  <2>3. CASE FinalState = "failed"
    <3>1. PICK i \in Items : item[i] # "complete"
      BY <2>3 DEF FinalState
    <3>2. item[i] \notin {"recovery_required", "failed", "committing", "committed",
                         "cleanup_pending"}
      BY <2>3 DEF FinalState
    <3>3. item[i] = "stale"
      BY <1>1, <3>1, <3>2 DEF Finalize, Closing, Turned
    <3> QED
      BY <2>1, <2>3, <3>3 DEF Shut, SomeStale
  <2>4. CASE FinalState \notin {"complete", "failed"}
    BY <2>1, <2>4 DEF Shut
  <2> QED
    BY <2>2, <2>3, <2>4
<1>2. CASE WriteReport
  BY <1>2 DEF WriteReport, Release, Shut, SomeStale
<1>3. CASE CloseRun
  BY <1>3 DEF CloseRun, Release, Shut, SomeStale
<1>4. CASE StartApply \/ StartRecover
  BY <1>4 DEF StartApply, StartRecover, Shut
<1>5. CASE Abandon
  BY <1>5 DEF Abandon, Shut, SomeStale
<1>6. CASE Backfill
  BY <1>6 DEF Backfill, process, Shut, SomeStale
<1>7. CASE Kill
  BY <1>7 DEF Kill, Release, journal, Shut, SomeStale
<1>8. CASE Meddling
  BY <1>8, MeddlingUnmoved DEF process, Shut, SomeStale
<1> QED
  BY <1>1, <1>2, <1>3, <1>4, <1>5, <1>6, <1>7, <1>8 DEF Tail, Commands

(* Shut is inductive, with the invariants of the other theorems.           *)
LEMMA NextShut ==
  MaxPowerLosses = 0 /\ Typed /\ Control /\ Closing /\ Shut /\ [Next]_vars => Shut'
<1> SUFFICES ASSUME MaxPowerLosses = 0, Typed, Control, Closing, Shut, [Next]_vars
             PROVE  Shut'
  OBVIOUS
<1>1. Legal
  BY NextControl
<1>2. CASE UNCHANGED vars
  BY <1>2 DEF vars, Shut, SomeStale
<1>3. ~PowerLoss
  BY DEF PowerLoss, Typed, RecordsType
<1> QED
  BY <1>1, <1>2, <1>3, TurnsShut, HeadShut, AroundShut DEF Next, Progress

LEMMA InitShut == Init => Shut
  BY DEF Init, Shut

-----------------------------------------------------------------------------
(* Every step is a step of the contract or none of it.                     *)

Step == Contract!Next \/ UNCHANGED Contract!vars

CopiesNow == [i \in Items |-> Copies(i)]
ToldNow == [i \in Items |-> Told(i)]

(* The places the contract speaks of; a staging file is none of them.      *)
Quiet == \A i \in Items, p \in Places \ {"stage"} : fs'[i][p] = fs[i][p]

(* Quiet steps leave every copy in place. *)
LEMMA QuietCopies ==
  ASSUME Quiet, UNCHANGED meddled
  PROVE  UNCHANGED CopiesNow
<1>1. ASSUME NEW i \in Items PROVE Copies(i)' = Copies(i)
  <2>1. fs'[i]["source"] = fs[i]["source"] /\ fs'[i]["dest"] = fs[i]["dest"]
        /\ fs'[i]["archive"] = fs[i]["archive"]
    BY DEF Quiet, Places
  <2> QED
    BY <2>1 DEF Copies, Held, Good
<1> QED
  BY <1>1 DEF CopiesNow

(* What the journal may say is what Promise says of the files.             *)
LEMMA WordIsTrue ==
  ASSUME NEW i \in Items \ meddled, Kept(i)', policy \in [Items -> Lifecycles],
         UNCHANGED <<policy, meddled, CopiesNow>>
  PROVE  /\ item'[i] = "complete" => Contract!Finished(i)
         /\ item'[i] = "stale" => Contract!AsFound(i)
         /\ item'[i] = "recovery_required" => "source" \in Copies(i) \/ Contract!Finished(i)
<1>1. Copies(i)' = Copies(i) /\ meddled' = meddled /\ i \notin meddled
  <2>1. CopiesNow'[i] = Copies(i)' /\ CopiesNow[i] = Copies(i)
    BY DEF CopiesNow
  <2> QED
    BY <2>1
<1>2. /\ "source" \in Copies(i) <=> fs'[i]["source"] = "planned"
      /\ "library" \in Copies(i) <=> fs'[i]["dest"] = "output"
      /\ "archive" \in Copies(i) <=> fs'[i]["archive"] = "planned"
  BY <1>1 DEF Copies, Held, Good
<1>3. policy[i] \in Lifecycles /\ policy' = policy
  OBVIOUS
<1> QED
  BY <1>2, <1>3 DEF Kept, Promise, Archived, Contract!Finished, Contract!Published,
     Contract!AsFound, CopiesNow

(* A step that at most journals one item says something true, or nothing.  *)
LEMMA SayStep ==
  ASSUME Typed, Typed', Truth', Legal, NEW c \in Items,
         \A i \in Items \ {c} : item'[i] = item[i],
         UNCHANGED <<policy, run, meddled, CopiesNow>>,
         Verdict = "open"
  PROVE  Step
<1>v. Verdict' = Verdict /\ UNCHANGED <<policy, meddled, CopiesNow>>
  BY DEF Verdict
<1>o. \A i \in Items \ {c} : Told(i)' = Told(i)
  BY DEF Told
<1>1. CASE Told(c)' = Told(c)
  <2>1. UNCHANGED ToldNow
    BY <1>1, <1>o DEF ToldNow
  <2> QED
    BY <1>v, <2>1 DEF Step, Contract!vars, CopiesNow, ToldNow
<1>2. CASE Told(c)' # Told(c)
  <2>1. item'[c] # item[c] /\ Allowed[item[c]] # {}
    BY <1>2 DEF Told, Legal
  <2>2. Told(c) = "open"
    BY <2>1, NoWayOut DEF Told
  <2>3. PICK word \in {"complete", "stale", "manual"} : Told(c)' = word
    BY <1>2, <2>2 DEF Told
  <2>4. /\ word = "complete" => item'[c] = "complete"
        /\ word = "stale" => item'[c] = "stale"
        /\ word = "manual" => item'[c] = "recovery_required"
    BY <2>3 DEF Told
  <2>5. c \notin meddled =>
          /\ word = "complete" => Contract!Finished(c)
          /\ word = "stale" => Contract!AsFound(c)
          /\ word = "manual" => "source" \in CopiesNow[c] \/ Contract!Finished(c)
    <3>1. CASE c \notin meddled
      <4>1. Kept(c)' /\ policy \in [Items -> Lifecycles]
        BY <3>1 DEF Truth, Typed, RecordsType
      <4> QED
        BY <2>4, <3>1, <4>1, WordIsTrue DEF CopiesNow
    <3> QED
      BY <3>1
  <2>6. ToldNow' = [ToldNow EXCEPT ![c] = word]
    BY <1>o, <2>3 DEF ToldNow
  <2>7. Contract!Tell(c, word)
    BY <1>v, <2>2, <2>5, <2>6 DEF Contract!Tell, CopiesNow, ToldNow
  <2> QED
    BY <2>7 DEF Step, Contract!Next
<1> QED
  BY <1>1, <1>2

(* The three changes of a turn that the contract speaks of.                *)
Links == pc = "link" /\ ~Exists(cur, "dest") /\ Write(cur, "dest", fs[cur]["stage"])

Archives ==
  /\ pc \in {"link_archive", "relink_archive"} /\ ~Exists(cur, "archive")
  /\ Write(cur, "archive", "planned")

Unlinks ==
  pc = "unlink_source" /\ Exists(cur, "source") /\ Write(cur, "source", "none")

(* A step of a turn is quiet, or one of the three.                         *)
LEMMA TurnMoves ==
  ASSUME Typed, Turn \/ RecoverTurn \/ StepFails
  PROVE  Quiet \/ ((Links \/ Archives \/ Unlinks) /\ UNCHANGED item)
<1> USE DEF Typed
<1>c. cur \in Items
  BY DEF ProcessType
<1>u. UNCHANGED fs => Quiet
  BY DEF Quiet
<1>r. RaiseStale \/ RaiseFailure \/ RaiseCollision \/ GiveUp => Quiet
  BY <1>u DEF RaiseStale, RaiseFailure, RaiseCollision, GiveUp, files
<1>p. \A p : Proceed(p) => Quiet
  BY <1>u DEF Proceed, files
<1>f. UNCHANGED files => Quiet
  BY <1>u DEF files
<1>s. \A p \in Places : Sync(cur, p) => Quiet
  BY <1>u DEF Sync
<1>w. \A c \in Contents : Write(cur, "stage", c) \/ WriteDurably(cur, "stage", c) => Quiet
  BY <1>c, WriteEffect DEF Quiet, Places
<1>1. CASE BeginStaging \/ WriteStage \/ JournalStaged \/ VerifyStage \/ SealStage
  <2>1. (IF SourceOK(cur) THEN "output" ELSE "tainted") \in Contents /\ "none" \in Contents
    BY DEF Contents
  <2> QED
    BY <1>1, <1>r, <1>f, <1>s, <1>w, <2>1
       DEF BeginStaging, WriteStage, JournalStaged, VerifyStage, SealStage, Places
<1>2. CASE IntendCommit \/ Link \/ SyncDest \/ Unstage \/ CheckDest
  <2>1. "none" \in Contents
    BY DEF Contents
  <2> QED
    BY <1>2, <1>r, <1>f, <1>s, <1>w, <2>1
       DEF IntendCommit, Link, SyncDest, Unstage, CheckDest, Links, Places
<1>3. CASE BeginLifecycle \/ RecheckSource \/ CopyArchive \/ CheckArchive \/ SyncSource
           \/ JournalCleaned \/ JournalComplete
  BY <1>3, <1>r, <1>p, <1>f, <1>s
     DEF BeginLifecycle, RecheckSource, CopyArchive, CheckArchive, SyncSource, JournalCleaned,
         JournalComplete, Places
<1>4. CASE LinkArchive \/ SyncArchive \/ UnlinkSource
  BY <1>4, <1>r, <1>s DEF LinkArchive, SyncArchive, UnlinkSource, Archives, Unlinks, Places
<1>5. CASE RecoverTurn
  <2>1. "none" \in Contents
    BY DEF Contents
  <2> QED
    BY <1>5, <1>r, <1>p, <1>f, <1>w, <2>1
       DEF RecoverTurn, RecoveryPreflight, RecoverSettled, RecoverCleaned, RecoverCommitted,
         RecoverLinked, RecoverUnlinked, RecoverStaged, RecoverStaging, RecoverUnstaged,
         DropStage, RecoverSource, RecoverMove, RecoverArchive, files
<1>6. CASE StepFails
  BY <1>6, <1>r DEF StepFails
<1> QED
  BY <1>1, <1>2, <1>3, <1>4, <1>5, <1>6 DEF Turn

(* A place of one item changes: no other item's copies do.                 *)
LEMMA OnlyHere ==
  ASSUME Typed, NEW i \in Items, NEW p \in Places, NEW c \in Contents, Write(i, p, c),
         UNCHANGED meddled
  PROVE  CopiesNow' = [CopiesNow EXCEPT ![i] = Copies(i)']
<1>1. \A j \in Items \ {i} : fs'[j] = fs[j]
  BY WriteEffect DEF Typed
<1>2. \A j \in Items \ {i} : Copies(j)' = Copies(j)
  BY <1>1 DEF Copies, Held, Good
<1> QED
  BY <1>2 DEF CopiesNow

(* What the copies of an item nobody touched say of its files, before and  *)
(* after a step.                                                           *)
LEMMA CopiesShow ==
  ASSUME NEW i \in Items \ meddled, UNCHANGED meddled
  PROVE  /\ "source" \in Copies(i) <=> fs[i]["source"] = "planned"
         /\ "library" \in Copies(i) <=> fs[i]["dest"] = "output"
         /\ "archive" \in Copies(i) <=> fs[i]["archive"] = "planned"
         /\ "source" \in Copies(i)' <=> fs'[i]["source"] = "planned"
         /\ "library" \in Copies(i)' <=> fs'[i]["dest"] = "output"
         /\ "archive" \in Copies(i)' <=> fs'[i]["archive"] = "planned"
         /\ Copies(i) \subseteq {"source", "library", "archive"}
         /\ Copies(i)' \subseteq {"source", "library", "archive"}
  BY DEF Copies, Held, Good

(* Publishing, archiving and retiring happen in the order of the contract. *)
LEMMA MoveStep ==
  ASSUME Typed, Control, Truth, Links \/ Archives \/ Unlinks, pc \in TurnSteps,
         UNCHANGED <<policy, run, item, meddled>>, Verdict = "open"
  PROVE  Step
<1> USE DEF Typed
<1>i. PICK i \in Items : i = cur
  BY DEF ProcessType
<1>c. item[i] \in {"committing", "cleanup_pending"} /\ Told(i) = "open"
  <2>1. item[i] \in {"committing", "cleanup_pending"}
    BY <1>i DEF Control, Fits, Links, Archives, Unlinks
  <2> QED
    BY <2>1 DEF Told
<1>u. UNCHANGED <<ToldNow, Verdict, policy, meddled>>
  BY DEF ToldNow, Told, Verdict
<1>1. PICK p \in {"source", "dest", "archive"}, c \in Contents :
        /\ Write(i, p, c)
        /\ \/ Links /\ p = "dest" /\ c = fs[i]["stage"]
           \/ Archives /\ p = "archive" /\ c = "planned"
           \/ Unlinks /\ p = "source" /\ c = "none"
  BY <1>i DEF Links, Archives, Unlinks, Contents, FilesType, Tree, Places
<1>2. /\ fs'[i][p] = c
      /\ \A q \in {"source", "dest", "archive"} \ {p} : fs'[i][q] = fs[i][q]
  BY <1>1, WriteEffect DEF Places
<1>3. CopiesNow' = [CopiesNow EXCEPT ![i] = Copies(i)']
  BY <1>1, OnlyHere DEF Places
<1>4. CASE i \in meddled
  <2>1. CopiesNow[i] = {} /\ Copies(i)' = {}
    BY <1>4 DEF CopiesNow, Copies
  <2>2. UNCHANGED CopiesNow
    BY <1>3, <2>1 DEF CopiesNow
  <2> QED
    BY <1>u, <2>2 DEF Step, Contract!vars, CopiesNow, ToldNow
<1>5. CASE i \notin meddled
  <2> DEFINE before == Copies(i)
             after == Copies(i)'
  <2>k. Kept(i) /\ Here(i, pc) /\ Fits(item[i], pc)
    BY <1>i, <1>5 DEF Truth, Control
  <2>w. Contract!Working(i)
    BY <1>5, <1>c DEF Contract!Working
  <2>s. /\ "source" \in before <=> fs[i]["source"] = "planned"
        /\ "library" \in before <=> fs[i]["dest"] = "output"
        /\ "archive" \in before <=> fs[i]["archive"] = "planned"
        /\ "source" \in after <=> fs'[i]["source"] = "planned"
        /\ "library" \in after <=> fs'[i]["dest"] = "output"
        /\ "archive" \in after <=> fs'[i]["archive"] = "planned"
        /\ before \subseteq {"source", "library", "archive"}
        /\ after \subseteq {"source", "library", "archive"}
    BY <1>5, CopiesShow
  <2>b. /\ \A where : after = where => Contract!Become(i, where)
        /\ CopiesNow[i] = before
    BY <1>3, <1>u DEF Contract!Become, CopiesNow, ToldNow
  <2> HIDE DEF before, after
  <2>1. CASE Links /\ p = "dest" /\ c = fs[i]["stage"]
    <3>1. fs[i]["source"] = "planned" /\ fs[i]["dest"] = "none" /\ c = "output"
      BY <1>i, <2>1, <2>k DEF Links, Exists, Fits, Kept, Promise
    <3>2. after = before \cup {"library"} /\ "source" \in before /\ "library" \notin before
      BY <1>2, <2>1, <2>s, <3>1
    <3>3. Contract!Publish(i)
      BY <2>w, <2>b, <3>2 DEF Contract!Publish, Contract!AsFound, Contract!Published, CopiesNow
    <3> QED
      BY <3>3 DEF Step, Contract!Next
  <2>2. CASE Archives /\ p = "archive" /\ c = "planned"
    <3>1. /\ fs[i]["source"] = "planned" /\ fs[i]["dest"] = "output"
          /\ policy[i] = "archive_after_verify"
      BY <1>i, <2>2, <2>k DEF Archives, Exists, Fits, Here, Kept, Promise, Archived
    <3>2. after = before \cup {"archive"} /\ "source" \in before /\ "library" \in before
      BY <1>2, <2>2, <2>s, <3>1
    <3>3. Contract!Archive(i)
      BY <2>w, <2>b, <3>1, <3>2 DEF Contract!Archive, Contract!Published, CopiesNow
    <3> QED
      BY <3>3 DEF Step, Contract!Next
  <2>3. CASE Unlinks /\ p = "source" /\ c = "none"
    <3>1. fs[i]["dest"] = "output" /\ Archived(i) /\ policy[i] # "preserve"
      BY <1>i, <2>3, <2>k DEF Unlinks, Fits, Here, Kept, Promise
    <3>2. /\ after = before \ {"source"} /\ "library" \in before
          /\ policy[i] = "archive_after_verify" => "archive" \in before
      BY <1>2, <2>3, <2>s, <3>1 DEF Archived
    <3>3. Contract!Retire(i)
      BY <2>w, <2>b, <3>1, <3>2 DEF Contract!Retire, Contract!Published, CopiesNow
    <3> QED
      BY <3>3 DEF Step, Contract!Next
  <2> QED
    BY <1>1, <2>1, <2>2, <2>3
<1> QED
  BY <1>4, <1>5

(* A turn.                                                                 *)
LEMMA TurnStep ==
  ASSUME Typed, Typed', Control, Truth, Truth', Closing, Shut, Legal,
         Turn \/ RecoverTurn \/ StepFails
  PROVE  Step
<1>1. TurnShape /\ UNCHANGED <<policy, run, meddled>>
  <2>1. CASE StepFails
    BY <2>1, RaiseShape, TurnUnmoved DEF StepFails, Typed, FallibleSteps, TurnSteps
  <2> QED
    BY <2>1, TurnsShape, RecoverTurnsShape, TurnUnmoved
<1>2. Verdict = "open"
  BY <1>1 DEF TurnShape, Closing, Shut, Verdict, TurnSteps
<1>3. CASE Quiet
  BY <1>1, <1>2, <1>3, QuietCopies, SayStep DEF TurnShape, Elsewhere, Typed, ProcessType
<1>4. CASE (Links \/ Archives \/ Unlinks) /\ UNCHANGED item
  BY <1>1, <1>2, <1>4, MoveStep DEF TurnShape
<1> QED
  BY <1>3, <1>4, TurnMoves

(* A step that leaves the plan, the files and the items alone, and what    *)
(* the journal says of the run.                                            *)
LEMMA SilentStep ==
  ASSUME UNCHANGED <<policy, fs, item, meddled, Verdict>>
  PROVE  Step
  BY DEF Step, Contract!vars, Copies, Held, Good, Told

(* A run is closed, perhaps once more.                                     *)
LEMMA CloseStep ==
  ASSUME Typed, Closing', UNCHANGED <<policy, fs, item, meddled>>,
         run' \in {"complete", "failed"},
         run' = "complete" => \A i \in Items : item[i] = "complete",
         Verdict = "open" \/ Verdict = run'
  PROVE  Step
<1>1. CASE Verdict = run'
  BY <1>1, SilentStep DEF Verdict
<1>2. CASE Verdict = "open"
  <2>1. run' = "failed" =>
          \A i \in Items : ToldNow[i] = "complete" \/ i \in meddled \/ Contract!AsFound(i)
    <3>1. ASSUME NEW i \in Items \ meddled, run' = "failed"
          PROVE  ToldNow[i] = "complete" \/ Contract!AsFound(i)
      <4>1. Clean(i)' /\ UNCHANGED <<fs, item>>
        BY <3>1 DEF Closing
      <4> QED
        BY <3>1, <4>1 DEF Clean, ToldNow, Told, Contract!AsFound, Contract!Published, Copies,
           Held, Good
    <3> QED
      BY <3>1
  <2>2. run' = "complete" => \A i \in Items : ToldNow[i] = "complete"
    BY DEF ToldNow, Told
  <2>3. Verdict' = run' /\ UNCHANGED <<policy, meddled, CopiesNow, ToldNow>>
    BY DEF Verdict, CopiesNow, ToldNow, Copies, Held, Good, Told
  <2>4. Contract!Close(run')
    BY <1>2, <2>1, <2>2, <2>3 DEF Contract!Close, CopiesNow, ToldNow
  <2> QED
    BY <2>4 DEF Step, Contract!Next
<1> QED
  BY <1>1, <1>2

(* Before the turns, each item is at most called stale.                    *)
LEMMA HeadStep ==
  ASSUME Typed, Typed', Control, Truth', Closing, Closing', Shut, Legal, Head
  PROVE  Step
<1>v. Verdict = "open"
  BY DEF Head, Preflight, CheckSpace, MarkStale, FailRun, MarkOK, StartRun, Closing, Shut, Verdict
<1>1. CASE Preflight \/ CheckSpace
  BY <1>1, SilentStep DEF Preflight, CheckSpace, journal, files, Verdict
<1>2. CASE MarkStale \/ MarkOK
  <2>1. /\ UNCHANGED <<policy, run, meddled, fs>> /\ cur \in Items
        /\ \A i \in Items \ {cur} : item'[i] = item[i]
    BY <1>2 DEF MarkStale, MarkOK, Journal, TurnFrame, files, Typed, ProcessType
  <2>2. UNCHANGED CopiesNow
    BY <2>1, QuietCopies DEF Quiet
  <2> QED
    BY <1>v, <2>1, <2>2, SayStep
<1>3. CASE FailRun
  BY <1>3, <1>v, CloseStep DEF FailRun, files, world
<1>4. CASE StartRun
  BY <1>4, <1>v, SilentStep DEF StartRun, files, world, Verdict
<1> QED
  BY <1>1, <1>2, <1>3, <1>4 DEF Head

(* After the turns, and at the operator's commands.                        *)
LEMMA AroundStep ==
  ASSUME Typed, Closing, Closing', Shut, Tail \/ Commands \/ Kill
  PROVE  Step
<1>1. CASE Finalize
  <2>1. Verdict = "open" /\ run' = FinalState /\ UNCHANGED <<policy, fs, item, meddled>>
    BY <1>1 DEF Finalize, files, world, Closing, Shut, Verdict
  <2>2. CASE FinalState = "recovery_required"
    BY <2>1, <2>2, SilentStep DEF Verdict
  <2>3. CASE FinalState \in {"complete", "failed"}
    <3>1. FinalState = "complete" => \A i \in Items : item[i] = "complete"
      BY DEF FinalState
    <3> QED
      BY <2>1, <2>3, <3>1, CloseStep
  <2> QED
    BY <2>2, <2>3 DEF FinalState
<1>2. CASE WriteReport \/ Backfill
  BY <1>2, SilentStep DEF WriteReport, Backfill, files, world, Verdict
<1>3. CASE CloseRun
  BY <1>3, CloseStep DEF CloseRun, files, world, Shut, Verdict
<1>4. CASE StartApply \/ Abandon
  BY <1>4, SilentStep DEF StartApply, Abandon, files, world, Verdict
<1>5. CASE StartRecover
  BY <1>5, SilentStep DEF StartRecover, files, world, Shut, SomeStale, Verdict
<1>6. CASE Kill
  BY <1>6, SilentStep DEF Kill, journal, files, Verdict
<1> QED
  BY <1>1, <1>2, <1>3, <1>4, <1>5, <1>6 DEF Tail, Commands

(* What anybody else does to an item ends the promise for it.              *)
LEMMA MeddlingStep ==
  ASSUME Typed, Meddling
  PROVE  Step
<1>1. ASSUME NEW i \in Items, NEW p \in Places, NEW c \in Contents, Meddle(i, p, c)
      PROVE  Step
  <2>1. /\ meddled' = meddled \cup {i} /\ UNCHANGED <<policy, run, item>>
        /\ \A j \in Items \ {i} : fs'[j] = fs[j]
    BY <1>1, WriteEffect DEF Meddle, journal, Typed
  <2>2. Copies(i)' = {} /\ \A j \in Items \ {i} : Copies(j)' = Copies(j)
    BY <2>1 DEF Copies, Held, Good
  <2>3. CopiesNow' = [CopiesNow EXCEPT ![i] = {}] /\ UNCHANGED <<ToldNow, Verdict>>
    BY <2>1, <2>2 DEF CopiesNow, ToldNow, Told, Verdict
  <2>4. Contract!Tamper(i)
    BY <2>1, <2>3 DEF Contract!Tamper, CopiesNow, ToldNow
  <2> QED
    BY <2>4 DEF Step, Contract!Next
<1>2. CASE InvalidatePlan
  BY <1>2, SilentStep DEF InvalidatePlan, files, Verdict
<1>3. CASE \E i \in Items : \/ EditSource(i) \/ RemoveSource(i) \/ RestoreSource(i)
                           \/ ReplaceDest(i) \/ ReplaceArchive(i) \/ LoseStage(i)
  BY <1>1, <1>3 DEF EditSource, RemoveSource, RestoreSource, ReplaceDest, ReplaceArchive,
                    LoseStage, Places, Contents
<1> QED
  BY <1>2, <1>3 DEF Meddling

(* A run starts where the contract does, and each of its steps is a step   *)
(* of the contract or none.                                                *)
LEMMA InitImplements == Init => Contract!Init
<1> SUFFICES ASSUME Init PROVE Contract!Init
  OBVIOUS
<1>1. \A i \in Items : Copies(i) = {"source"} /\ Told(i) = "open"
  BY DEF Init, Copies, Held, Good, Told, Places
<1> QED
  BY <1>1 DEF Init, Contract!Init, Lifecycles, Verdict

LEMMA NextImplements ==
  MaxPowerLosses = 0 /\ Typed /\ Control /\ Truth /\ Closing /\ Shut /\ [Next]_vars
    => [Contract!Next]_(Contract!vars)
<1> SUFFICES ASSUME MaxPowerLosses = 0, Typed, Control, Truth, Closing, Shut, [Next]_vars
             PROVE  Step
  BY DEF Step
<1>1. Typed' /\ Truth' /\ Closing' /\ Legal
  BY NextTypes, NextControl, NextTruth, NextClosing
<1>2. CASE UNCHANGED vars
  BY <1>2, SilentStep DEF vars, Verdict
<1>3. ~PowerLoss
  BY DEF PowerLoss, Typed, RecordsType
<1> QED
  BY <1>1, <1>2, <1>3, TurnStep, HeadStep, AroundStep, MeddlingStep DEF Next, Progress

(* Without power losses, for a plan of any length and any number of        *)
(* process deaths, failing operations and changes by others: a run of the  *)
(* apply engine is a run of the contract.  Every item is published,        *)
(* archived and retired in that order, nothing is said of it in the        *)
(* journal that is not so, no settled item is touched again and no closed  *)
(* run reopened.                                                           *)
THEOREM EngineImplementsPublication ==
  ASSUME MaxPowerLosses = 0
  PROVE  Spec => ImplementsPublication
BY InitTypes, NextTypes, InitControl, NextControl, InitTruth, NextTruth, InitClosing,
   NextClosing, InitShut, NextShut, InitImplements, NextImplements, PTL
   DEF Spec, ImplementsPublication, Contract!Spec
=============================================================================
