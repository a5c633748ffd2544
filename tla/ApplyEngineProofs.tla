-------------------------- MODULE ApplyEngineProofs --------------------------
(***************************************************************************)
(* What holds of ApplyEngine for a plan of any length and any number of    *)
(* crashes, faults and outside changes: type correctness, and that the     *)
(* engine never asks the journal for a transition its table refuses.       *)
(***************************************************************************)
EXTENDS ApplyEngine, TLAPS

Tree == [Items -> [Places -> Contents]]

(* TypeOK in three parts, as the steps disturb them. *)
RecordsType ==
  /\ policy \in [Items -> Lifecycles]
  /\ run \in RunStates
  /\ sealed \in [Items -> Contents]
  /\ invalid \in BOOLEAN
  /\ report \in BOOLEAN
  /\ spent \in [{"kill", "loss", "fault", "meddle"} -> Nat]
  /\ meddled \subseteq Items

FilesType == fs \in Tree /\ disk \in Tree

ProcessType ==
  /\ item \in [Items -> ItemStates]
  /\ op \in Commanded
  /\ pc \in Steps
  /\ cur \in Items
  /\ errs \subseteq Items

(* The three parts are TypeOK. *)
LEMMA TypeParts == TypeOK <=> RecordsType /\ FilesType /\ ProcessType
  BY DEF TypeOK, RecordsType, FilesType, ProcessType, Tree

(* There is a first item. *)
LEMMA FirstItem == 1 \in Items
  BY PlanAssumption DEF Items

(* Put keeps a tree of files a tree of files. *)
LEMMA PutType ==
  ASSUME NEW f \in Tree, NEW i \in Items, NEW p \in Places, NEW c \in Contents
  PROVE  Put(f, i, p, c) \in Tree
  BY DEF Put, Tree

(* The three ways to change a file, and leaving all files alone. *)
LEMMA WriteType ==
  ASSUME FilesType, NEW i \in Items, NEW p \in Places, NEW c \in Contents,
         Write(i, p, c)
  PROVE  FilesType'
  BY PutType DEF Write, FilesType

LEMMA WriteDurablyType ==
  ASSUME FilesType, NEW i \in Items, NEW p \in Places, NEW c \in Contents,
         WriteDurably(i, p, c)
  PROVE  FilesType'
  BY PutType DEF WriteDurably, FilesType

LEMMA SyncType ==
  ASSUME FilesType, NEW i \in Items, NEW p \in Places, Sync(i, p)
  PROVE  FilesType'
<1>1. fs[i][p] \in Contents
  BY DEF FilesType, Tree
<1> QED
  BY <1>1, PutType DEF Sync, FilesType

LEMMA FilesUnchanged ==
  ASSUME FilesType, UNCHANGED files
  PROVE  FilesType'
  BY DEF FilesType, files

(* The steps of the loop over the items stay within the plan. *)
LEMMA NextItemType ==
  ASSUME ProcessType, NEW p \in Steps, NEW last \in Steps, NextItem(p, last)
  PROVE  cur' \in Items /\ pc' \in Steps /\ op' \in Commanded
  BY PlanAssumption, FirstItem DEF NextItem, ProcessType, Items

LEMMA JournalType ==
  ASSUME ProcessType, NEW s \in ItemStates, Journal(cur, s)
  PROVE  item' \in [Items -> ItemStates]
  BY DEF ProcessType, Journal

LEMMA EndTurnType ==
  ASSUME ProcessType, item' \in [Items -> ItemStates], EndTurn
  PROVE  ProcessType'
<1>1. TurnStart \in Steps /\ "finalize" \in Steps
  BY DEF TurnStart, Steps, TurnSteps
<1> QED
  BY <1>1, NextItemType DEF EndTurn, ProcessType

LEMMA GotoType ==
  ASSUME ProcessType, item' \in [Items -> ItemStates], NEW p \in Steps, Goto(p)
  PROVE  ProcessType'
  BY DEF Goto, ProcessType

(* The item is journalled, or left alone, and its turn goes on or ends. *)
LEMMA JournalGotoType ==
  ASSUME ProcessType, NEW s \in ItemStates, NEW p \in Steps, Journal(cur, s), Goto(p)
  PROVE  ProcessType'
  BY JournalType, GotoType

LEMMA JournalEndType ==
  ASSUME ProcessType, NEW s \in ItemStates, Journal(cur, s), EndTurn
  PROVE  ProcessType'
  BY JournalType, EndTurnType

LEMMA StepType ==
  ASSUME ProcessType, UNCHANGED item, NEW p \in Steps, Goto(p)
  PROVE  ProcessType'
<1>1. item' \in [Items -> ItemStates]
  BY DEF ProcessType
<1> QED
  BY <1>1, GotoType

LEMMA ProceedType ==
  ASSUME ProcessType, FilesType, NEW p \in Steps, Proceed(p)
  PROVE  ProcessType' /\ FilesType'
  BY StepType, FilesUnchanged DEF Proceed

LEMMA ReleaseType ==
  ASSUME ProcessType, UNCHANGED item, Release
  PROVE  ProcessType'
  BY FirstItem DEF Release, ProcessType, Commanded, Steps

(* However an item's turn ends, the types are kept. *)
LEMMA RaiseType ==
  ASSUME ProcessType, FilesType,
         RaiseCollision \/ RaiseStale \/ RaiseFailure \/ GiveUp
  PROVE  ProcessType' /\ FilesType'
<1>1. item[cur] \in ItemStates
  BY DEF ProcessType
<1>2. /\ AfterCollision(item[cur]) \in ItemStates
      /\ AfterStale(item[cur]) \in ItemStates
      /\ AfterFailure(item[cur]) \in ItemStates
      /\ "recovery_required" \in ItemStates
  BY <1>1 DEF AfterCollision, AfterStale, AfterFailure, ItemStates
<1>3. item' \in [Items -> ItemStates] /\ EndTurn /\ UNCHANGED files
  BY <1>2, JournalType DEF RaiseCollision, RaiseStale, RaiseFailure, GiveUp
<1> QED
  BY <1>3, EndTurnType, FilesUnchanged

(* A turn's frame keeps the records. *)
LEMMA FrameType ==
  ASSUME RecordsType, TurnFrame
  PROVE  RecordsType'
  BY DEF RecordsType, TurnFrame

LEMMA SpendFaultType ==
  ASSUME RecordsType, SpendFault, UNCHANGED <<policy, run, sealed, invalid, report, meddled>>
  PROVE  RecordsType'
  BY DEF RecordsType, SpendFault

-----------------------------------------------------------------------------
(* The steps of an item's turn.                                            *)

Typed == RecordsType /\ FilesType /\ ProcessType

LEMMA StagingTypes ==
  ASSUME Typed, BeginStaging \/ WriteStage \/ JournalStaged \/ VerifyStage \/ SealStage
  PROVE  Typed'
<1> USE DEF Typed
<1>c. cur \in Items
  BY DEF ProcessType
<1>1. CASE BeginStaging
  BY <1>1, <1>c, FrameType, RaiseType, JournalGotoType, WriteDurablyType
     DEF BeginStaging, ItemStates, Steps, TurnSteps, Places, Contents
<1>2. CASE WriteStage
  <2>1. (IF SourceOK(cur) THEN "output" ELSE "tainted") \in Contents
    BY DEF Contents
  <2> QED
    BY <1>2, <1>c, <2>1, FrameType, RaiseType, StepType, WriteType
       DEF WriteStage, Steps, TurnSteps, Places
<1>3. CASE JournalStaged
  BY <1>3, FrameType, JournalGotoType, FilesUnchanged
     DEF JournalStaged, ItemStates, Steps, TurnSteps
<1>4. CASE VerifyStage
  BY <1>4, <1>c, FrameType, RaiseType, StepType, SyncType
     DEF VerifyStage, Steps, TurnSteps, Places
<1>5. CASE SealStage
  <2>1. FilesType' /\ ProcessType'
    BY <1>5, RaiseType, JournalGotoType, FilesUnchanged
       DEF SealStage, ItemStates, Steps, TurnSteps
  <2>2. Hash(fs[cur]["stage"]) \in Contents
    BY <1>c DEF Hash, FilesType, Tree, Places, Contents
  <2>3. RecordsType'
    BY <1>5, <2>2 DEF SealStage, RecordsType, world
  <2> QED
    BY <2>1, <2>3
<1> QED
  BY <1>1, <1>2, <1>3, <1>4, <1>5

LEMMA CommitTypes ==
  ASSUME Typed, IntendCommit \/ Link \/ SyncDest \/ Unstage \/ CheckDest
  PROVE  Typed'
<1> USE DEF Typed
<1>c. cur \in Items
  BY DEF ProcessType
<1>1. CASE IntendCommit
  BY <1>1, FrameType, RaiseType, JournalGotoType, FilesUnchanged
     DEF IntendCommit, ItemStates, Steps, TurnSteps
<1>2. CASE Link
  <2>1. fs[cur]["stage"] \in Contents
    BY <1>c DEF FilesType, Tree, Places
  <2> QED
    BY <1>2, <1>c, <2>1, FrameType, RaiseType, StepType, WriteType
       DEF Link, Steps, TurnSteps, Places
<1>3. CASE SyncDest
  BY <1>3, <1>c, FrameType, RaiseType, StepType, SyncType
     DEF SyncDest, Steps, TurnSteps, Places
<1>4. CASE Unstage
  BY <1>4, <1>c, FrameType, RaiseType, StepType, WriteDurablyType
     DEF Unstage, Steps, TurnSteps, Places, Contents
<1>5. CASE CheckDest
  BY <1>5, FrameType, RaiseType, JournalGotoType, FilesUnchanged
     DEF CheckDest, ItemStates, Steps, TurnSteps
<1> QED
  BY <1>1, <1>2, <1>3, <1>4, <1>5

LEMMA LifecycleTypes ==
  ASSUME Typed,
         \/ BeginLifecycle \/ RecheckSource \/ CopyArchive \/ LinkArchive \/ SyncArchive
         \/ CheckArchive \/ UnlinkSource \/ SyncSource \/ JournalCleaned \/ JournalComplete
  PROVE  Typed'
<1> USE DEF Typed
<1>c. cur \in Items
  BY DEF ProcessType
<1>1. CASE BeginLifecycle
  BY <1>1, FrameType, JournalGotoType, JournalEndType, FilesUnchanged
     DEF BeginLifecycle, ItemStates, Steps, TurnSteps
<1>2. CASE RecheckSource
  BY <1>2, FrameType, RaiseType, ProceedType DEF RecheckSource, Steps, TurnSteps
<1>3. CASE CopyArchive
  BY <1>3, FrameType, RaiseType, ProceedType DEF CopyArchive, Steps, TurnSteps
<1>4. CASE LinkArchive
  BY <1>4, <1>c, FrameType, RaiseType, StepType, WriteType
     DEF LinkArchive, Steps, TurnSteps, Places, Contents
<1>5. CASE SyncArchive
  BY <1>5, <1>c, FrameType, RaiseType, StepType, SyncType
     DEF SyncArchive, Steps, TurnSteps, Places
<1>6. CASE CheckArchive
  BY <1>6, FrameType, RaiseType, ProceedType DEF CheckArchive, Steps, TurnSteps
<1>7. CASE UnlinkSource
  BY <1>7, <1>c, FrameType, RaiseType, StepType, WriteType
     DEF UnlinkSource, Steps, TurnSteps, Places, Contents
<1>8. CASE SyncSource
  BY <1>8, <1>c, FrameType, StepType, SyncType
     DEF SyncSource, Steps, TurnSteps, Places
<1>9. CASE JournalCleaned
  BY <1>9, FrameType, JournalGotoType, FilesUnchanged
     DEF JournalCleaned, ItemStates, Steps, TurnSteps
<1>10. CASE JournalComplete
  BY <1>10, FrameType, JournalEndType, FilesUnchanged DEF JournalComplete, ItemStates
<1> QED
  BY <1>1, <1>2, <1>3, <1>4, <1>5, <1>6, <1>7, <1>8, <1>9, <1>10

(* Every step of an item's turn in apply keeps the types. *)
LEMMA TurnTypes ==
  ASSUME Typed, Turn
  PROVE  Typed'
  BY StagingTypes, CommitTypes, LifecycleTypes DEF Turn

(* So does every step of an item's turn in recover. *)
LEMMA RecoverTurnTypes ==
  ASSUME Typed, RecoverTurn
  PROVE  Typed'
<1> USE DEF Typed
<1>c. cur \in Items
  BY DEF ProcessType
<1>1. CASE RecoveryPreflight
  BY <1>1, FrameType, RaiseType, ProceedType DEF RecoveryPreflight, Steps, TurnSteps
<1>2. CASE RecoverSettled
  <2>1. item' \in [Items -> ItemStates] /\ FilesType'
    BY <1>2, FilesUnchanged DEF RecoverSettled, ProcessType
  <2> QED
    BY <1>2, <2>1, FrameType, EndTurnType DEF RecoverSettled
<1>3. CASE RecoverCleaned
  BY <1>3, FrameType, JournalEndType, FilesUnchanged DEF RecoverCleaned, ItemStates
<1>4. CASE RecoverCommitted
  BY <1>4, FrameType, RaiseType, ProceedType DEF RecoverCommitted, Steps, TurnSteps
<1>5. CASE RecoverLinked
  BY <1>5, FrameType, RaiseType, JournalGotoType, FilesUnchanged
     DEF RecoverLinked, ItemStates, Steps, TurnSteps
<1>6. CASE RecoverUnlinked
  BY <1>6, FrameType, RaiseType, ProceedType DEF RecoverUnlinked, Steps, TurnSteps
<1>7. CASE RecoverStaged
  BY <1>7, FrameType, RaiseType, ProceedType DEF RecoverStaged, Steps, TurnSteps
<1>8. CASE RecoverStaging
  BY <1>8, FrameType, JournalGotoType, FilesUnchanged
     DEF RecoverStaging, ItemStates, Steps, TurnSteps
<1>9. CASE RecoverUnstaged
  BY <1>9, FrameType, RaiseType, ProceedType DEF RecoverUnstaged, Steps, TurnSteps
<1>10. CASE DropStage
  BY <1>10, <1>c, FrameType, RaiseType, ProceedType, StepType, WriteDurablyType
     DEF DropStage, Steps, TurnSteps, Places, Contents
<1>11. CASE RecoverSource
  BY <1>11, FrameType, RaiseType, ProceedType DEF RecoverSource, Steps, TurnSteps
<1>12. CASE RecoverMove
  BY <1>12, FrameType, RaiseType, ProceedType DEF RecoverMove, Steps, TurnSteps
<1>13. CASE RecoverArchive
  BY <1>13, FrameType, RaiseType, ProceedType DEF RecoverArchive, Steps, TurnSteps
<1> QED
  BY <1>1, <1>2, <1>3, <1>4, <1>5, <1>6, <1>7, <1>8, <1>9, <1>10, <1>11, <1>12, <1>13
     DEF RecoverTurn

-----------------------------------------------------------------------------
(* The steps around the items, and the rest of the world.                  *)

LEMMA HeadTypes ==
  ASSUME Typed, Head
  PROVE  Typed'
<1> USE DEF Typed
<1>c. cur \in Items
  BY DEF ProcessType
<1>1. CASE Preflight
  <2>1. RecordsType'
    BY <1>1, SpendFaultType DEF Preflight, journal, RecordsType
  <2>2. item' \in [Items -> ItemStates] /\ errs' \subseteq Items
    BY <1>1, <1>c DEF Preflight, journal, ProcessType
  <2>3. cur' \in Items /\ pc' \in Steps /\ op' \in Commanded
    BY <1>1, NextItemType DEF Preflight, Steps
  <2> QED
    BY <1>1, <2>1, <2>2, <2>3, FilesUnchanged DEF Preflight, ProcessType
<1>2. CASE CheckSpace
  <2>1. RecordsType'
    BY <1>2, SpendFaultType DEF CheckSpace, journal, RecordsType
  <2> QED
    BY <1>2, <2>1, FilesUnchanged DEF CheckSpace, journal, ProcessType, Steps
<1>3. CASE MarkStale
  <2>1. item' \in [Items -> ItemStates]
    BY <1>3 DEF MarkStale, ProcessType, ItemStates
  <2>2. cur' \in Items /\ pc' \in Steps /\ op' \in Commanded
    BY <1>3, NextItemType DEF MarkStale, Steps
  <2> QED
    BY <1>3, <2>1, <2>2, FrameType, FilesUnchanged DEF MarkStale, ProcessType
<1>4. CASE FailRun
  BY <1>4, ReleaseType, FilesUnchanged DEF FailRun, RecordsType, RunStates, world
<1>5. CASE MarkOK
  <2>1. item' \in [Items -> ItemStates]
    BY <1>5, JournalType DEF MarkOK, ItemStates
  <2>2. cur' \in Items /\ pc' \in Steps /\ op' \in Commanded
    BY <1>5, NextItemType DEF MarkOK, Steps
  <2> QED
    BY <1>5, <2>1, <2>2, FrameType, FilesUnchanged DEF MarkOK, ProcessType
<1>6. CASE StartRun
  BY <1>6, StepType, FilesUnchanged
     DEF StartRun, RecordsType, RunStates, world, Steps, TurnSteps
<1> QED
  BY <1>1, <1>2, <1>3, <1>4, <1>5, <1>6 DEF Head

LEMMA TailTypes ==
  ASSUME Typed, Tail
  PROVE  Typed'
<1> USE DEF Typed
<1>1. CASE Finalize
  <2>1. FinalState \in RunStates
    BY DEF FinalState, RunStates
  <2> QED
    BY <1>1, <2>1, StepType, ReleaseType, FilesUnchanged
       DEF Finalize, RecordsType, world, Steps
<1>2. CASE WriteReport
  BY <1>2, ReleaseType, FilesUnchanged DEF WriteReport, RecordsType, world
<1>3. CASE CloseRun
  BY <1>3, ReleaseType, FilesUnchanged DEF CloseRun, RecordsType, RunStates, world
<1> QED
  BY <1>1, <1>2, <1>3 DEF Tail

LEMMA CommandTypes ==
  ASSUME Typed, Commands
  PROVE  Typed'
<1> USE FirstItem DEF Typed
<1>1. CASE StartApply
  BY <1>1 DEF StartApply, RecordsType, FilesType, ProcessType, RunStates, Commanded, Steps
<1>2. CASE StartRecover
  BY <1>2, FilesUnchanged
     DEF StartRecover, RecordsType, ProcessType, RunStates, Commanded, Steps, TurnSteps, world
<1>3. CASE Abandon
  BY <1>3, FilesUnchanged DEF Abandon, RecordsType, ProcessType, Commanded, Steps, world
<1>4. CASE Backfill
  BY <1>4, FilesUnchanged DEF Backfill, RecordsType, ProcessType, process, world
<1> QED
  BY <1>1, <1>2, <1>3, <1>4 DEF Commands

(* A spent bound is still a number. *)
LEMMA SpentType ==
  ASSUME RecordsType, NEW b \in {"kill", "loss", "fault", "meddle"},
         spent' = [spent EXCEPT ![b] = @ + 1]
  PROVE  spent' \in [{"kill", "loss", "fault", "meddle"} -> Nat]
  BY DEF RecordsType

LEMMA CrashTypes ==
  ASSUME Typed, StepFails \/ Kill \/ PowerLoss
  PROVE  Typed'
<1> USE DEF Typed
<1>1. CASE StepFails
  BY <1>1, RaiseType, SpendFaultType DEF StepFails
<1>2. CASE Kill
  <2>1. spent' \in [{"kill", "loss", "fault", "meddle"} -> Nat]
    BY <1>2, SpentType DEF Kill
  <2> QED
    BY <1>2, <2>1, ReleaseType, FilesUnchanged DEF Kill, journal, RecordsType
<1>3. CASE PowerLoss
  <2>1. spent' \in [{"kill", "loss", "fault", "meddle"} -> Nat]
    BY <1>3, SpentType DEF PowerLoss
  <2>2. fs' \in Tree
    BY <1>3 DEF PowerLoss, FilesType, Tree, Contents
  <2> QED
    BY <1>3, <2>1, <2>2, ReleaseType DEF PowerLoss, journal, RecordsType, FilesType
<1> QED
  BY <1>1, <1>2, <1>3

LEMMA MeddlingTypes ==
  ASSUME Typed, Meddling
  PROVE  Typed'
<1> USE DEF Typed
<1>1. ASSUME NEW i \in Items, NEW p \in Places, NEW c \in Contents, Meddle(i, p, c)
      PROVE  Typed'
  <2>1. spent' \in [{"kill", "loss", "fault", "meddle"} -> Nat]
    BY <1>1, SpentType DEF Meddle
  <2>2. FilesType'
    BY <1>1, WriteDurablyType DEF Meddle
  <2> QED
    BY <1>1, <2>1, <2>2 DEF Meddle, journal, process, RecordsType, ProcessType
<1>2. CASE InvalidatePlan
  <2>1. spent' \in [{"kill", "loss", "fault", "meddle"} -> Nat]
    BY <1>2, SpentType DEF InvalidatePlan
  <2> QED
    BY <1>2, <2>1, FilesUnchanged DEF InvalidatePlan, RecordsType, ProcessType, process
<1>3. CASE \E i \in Items : \/ EditSource(i) \/ RemoveSource(i) \/ RestoreSource(i)
                           \/ ReplaceDest(i) \/ ReplaceArchive(i) \/ LoseStage(i)
  BY <1>1, <1>3 DEF EditSource, RemoveSource, RestoreSource, ReplaceDest, ReplaceArchive,
                    LoseStage, Places, Contents
<1> QED
  BY <1>2, <1>3 DEF Meddling

LEMMA InitTypes == Init => Typed
<1> SUFFICES ASSUME Init PROVE Typed
  OBVIOUS
<1>1. spent \in [{"kill", "loss", "fault", "meddle"} -> Nat]
  BY DEF Init
<1>2. fs \in Tree /\ disk \in Tree
  BY DEF Init, Tree, Contents
<1>3. item \in [Items -> ItemStates] /\ sealed \in [Items -> Contents]
  BY DEF Init, ItemStates, Contents
<1> QED
  BY <1>1, <1>2, <1>3, FirstItem
     DEF Init, Typed, RecordsType, FilesType, ProcessType, RunStates, Commanded, Steps

LEMMA NextTypes == Typed /\ [Next]_vars => Typed'
<1> SUFFICES ASSUME Typed, [Next]_vars PROVE Typed'
  OBVIOUS
<1>1. CASE UNCHANGED vars
  BY <1>1 DEF vars, Typed, RecordsType, FilesType, ProcessType
<1> QED
  BY <1>1, HeadTypes, TurnTypes, RecoverTurnTypes, TailTypes, CommandTypes, CrashTypes,
     MeddlingTypes DEF Next, Progress

(* Whatever the length of the plan and however often the machine crashes,  *)
(* files fail or other programs interfere, every variable of the apply     *)
(* engine, its journal and the files holds a value of its type.            *)
THEOREM TypeCorrect == Spec => []TypeOK
<1>1. Typed <=> TypeOK
  BY TypeParts DEF Typed
<1> QED
  BY <1>1, InitTypes, NextTypes, PTL DEF Spec

-----------------------------------------------------------------------------
(* The inductive invariant behind OnlyAllowedTransitions: which states the *)
(* current item can be in at each step, and what an apply has already done *)
(* to the items before and still has to do to those after it.              *)

Fits(s, p) ==
  /\ p = "begin" => s \in {"preflight_ok", "failed"}
  /\ p \in {"write", "staged"} => s = "staging"
  /\ p \in {"verify", "seal"} => s = "staged"
  /\ p = "recheck" => s = "verified"
  /\ p \in {"link", "sync_dest", "unstage", "check_dest"} => s = "committing"
  /\ p \in {"lifecycle", "drop_own_stage"} => s = "committed"
  /\ p \in {"drop_stage", "recover_cleanup"} => s \in {"committed", "cleanup_pending"}
  /\ p \in {"recheck_source", "copy_archive", "link_archive", "sync_archive", "check_archive",
            "recopy_archive", "relink_archive", "resync_archive", "unlink_source",
            "sync_source", "cleaned"} => s = "cleanup_pending"
  /\ p = "complete" => s = "cleaned"

HeadSteps == {"preflight", "space", "mark_stale", "mark_ok", "start_run"}

Control ==
  /\ run = "none" => op = "none" /\ \A i \in Items : item[i] = "pending"
  /\ pc \in HeadSteps => op = "apply"
  /\ pc \in TurnSteps => op \in {"apply", "recover"} /\ Fits(item[cur], pc)
  /\ pc \in {"preflight", "space"} => \A i \in Items : item[i] = "pending"
  /\ pc \in {"mark_stale", "mark_ok"} => \A i \in cur..N : item[i] = "pending"
  /\ pc \in {"space", "start_run"} => cur = 1
  /\ pc = "mark_ok" => \A i \in 1..(cur - 1) : item[i] = "preflight_ok"
  /\ pc = "start_run" => \A i \in Items : item[i] = "preflight_ok"
  /\ pc \in TurnSteps /\ op = "apply" => \A i \in (cur + 1)..N : item[i] = "preflight_ok"

Legal == \A i \in Items : item'[i] # item[i] => item'[i] \in Allowed[item[i]]

(* The transitions the engine makes when nothing is refused. *)
LEMMA PlannedTransitions ==
  /\ "preflight_ok" \in Allowed["pending"] /\ "stale" \in Allowed["pending"]
  /\ "staging" \in Allowed["preflight_ok"] /\ "staging" \in Allowed["failed"]
  /\ "staged" \in Allowed["staging"] /\ "failed" \in Allowed["staging"]
  /\ "verified" \in Allowed["staged"] /\ "committing" \in Allowed["verified"]
  /\ "committed" \in Allowed["committing"] /\ "complete" \in Allowed["committed"]
  /\ "cleanup_pending" \in Allowed["committed"] /\ "cleaned" \in Allowed["cleanup_pending"]
  /\ "complete" \in Allowed["cleaned"]
  BY DEF Allowed, ItemStates

(* An item may always move to recovery_required, unless it is settled. *)
LEMMA GiveUpAllowed ==
  ASSUME NEW s \in ItemStates \ {"complete", "stale", "recovery_required"}
  PROVE  "recovery_required" \in Allowed[s]
  BY DEF Allowed, ItemStates

(* The three handlers of a refused step ask for nothing the table refuses, *)
(* in the states they can meet.                                            *)
LEMMA HandlersAllowed ==
  ASSUME NEW s \in ItemStates
  PROVE  /\ AfterFailure(s) = s \/ AfterFailure(s) \in Allowed[s]
         /\ s \notin {"complete", "stale", "recovery_required"} => AfterStale(s) \in Allowed[s]
         /\ s \in {"verified", "committing", "cleanup_pending"} => AfterCollision(s) \in Allowed[s]
  BY DEF AfterFailure, AfterStale, AfterCollision, Allowed, ItemStates

(* A turn that ends leaves the next item as the loop expects it. *)
LEMMA EndTurnControl ==
  ASSUME ProcessType, Control, pc \in TurnSteps, UNCHANGED run, EndTurn,
         \A i \in Items \ {cur} : item'[i] = item[i]
  PROVE  Control'
<1>1. op \in {"apply", "recover"} /\ op' = op
  BY DEF Control, EndTurn, NextItem
<1>2. cur \in Items /\ item \in [Items -> ItemStates]
  BY DEF ProcessType
<1>3. CASE cur < N
  <2>1. cur' = cur + 1 /\ pc' = TurnStart
    BY <1>3 DEF EndTurn, NextItem
  <2>2. \A i \in cur'..N : i \in Items \ {cur}
    BY <2>1, <1>2, PlanAssumption DEF Items
  <2>3. \A i \in (cur' + 1)..N : i \in (cur + 1)..N
    BY <2>1, <1>2, PlanAssumption DEF Items
  <2>4. cur' \in Items \ {cur} /\ cur' \in (cur + 1)..N
    BY <2>1, <1>2, <1>3, PlanAssumption DEF Items
  <2>5. item'[cur'] = item[cur'] /\ item[cur'] \in ItemStates
    BY <2>4, <1>2
  <2>6. op = "apply" => pc' = "begin" /\ item[cur'] = "preflight_ok"
    BY <2>1, <2>4 DEF TurnStart, Control
  <2>7. op = "recover" => pc' = "recovery_preflight"
    BY <2>1 DEF TurnStart
  <2>8. Fits(item'[cur'], pc')
    BY <1>1, <2>5, <2>6, <2>7 DEF Fits
  <2>9. op = "apply" => \A i \in (cur' + 1)..N : item'[i] = "preflight_ok"
    <3>1. \A i \in (cur' + 1)..N : i \in cur'..N
      BY <2>1, <1>2, PlanAssumption DEF Items
    <3> QED
      BY <3>1, <2>2, <2>3 DEF Control
  <2>10. pc' \notin HeadSteps /\ run' # "none"
    BY <1>1, <2>6, <2>7 DEF HeadSteps, Control
  <2> QED
    BY <1>1, <2>8, <2>9, <2>10 DEF Control, HeadSteps
<1>4. CASE ~(cur < N)
  <2>1. pc' = "finalize"
    BY <1>4 DEF EndTurn, NextItem
  <2> QED
    BY <1>1, <2>1 DEF Control, HeadSteps, TurnSteps
<1> QED
  BY <1>3, <1>4

(* A turn that goes on. *)
LEMMA GotoControl ==
  ASSUME ProcessType, Control, pc \in TurnSteps, UNCHANGED run,
         NEW p \in TurnSteps, Goto(p), Fits(item'[cur], p),
         \A i \in Items \ {cur} : item'[i] = item[i]
  PROVE  Control'
<1>1. op \in {"apply", "recover"} /\ op' = op /\ pc' = p /\ cur' = cur
  BY DEF Control, Goto
<1>2. \A i \in (cur + 1)..N : i \in Items \ {cur}
  BY PlanAssumption DEF ProcessType, Items
<1>3. p \notin HeadSteps
  BY DEF HeadSteps, TurnSteps
<1> QED
  BY <1>1, <1>2, <1>3 DEF Control, HeadSteps

(* Journalling the current item. *)
LEMMA JournalEffect ==
  ASSUME ProcessType, NEW s, Journal(cur, s)
  PROVE  item'[cur] = s /\ \A i \in Items \ {cur} : item'[i] = item[i]
  BY DEF ProcessType, Journal

(* However a turn is refused, the control and the table are respected. *)
LEMMA RaiseControl ==
  ASSUME ProcessType, Control, pc \in TurnSteps, UNCHANGED run,
         \/ RaiseFailure
         \/ RaiseStale /\ item[cur] \notin {"complete", "stale", "recovery_required"}
         \/ RaiseCollision /\ item[cur] \in {"verified", "committing", "cleanup_pending"}
         \/ GiveUp /\ item[cur] \notin {"complete", "stale", "recovery_required"}
  PROVE  Control' /\ Legal
<1>1. cur \in Items /\ item[cur] \in ItemStates
  BY DEF ProcessType
<1>2. PICK s : /\ Journal(cur, s) /\ EndTurn
               /\ s = item[cur] \/ s \in Allowed[item[cur]]
  BY <1>1, HandlersAllowed, GiveUpAllowed DEF RaiseFailure, RaiseStale, RaiseCollision, GiveUp
<1>3. item'[cur] = s /\ \A i \in Items \ {cur} : item'[i] = item[i]
  BY <1>2, JournalEffect
<1> QED
  BY <1>1, <1>2, <1>3, EndTurnControl DEF Legal

(* Journalling s and going on at p; going on without journalling. *)
LEMMA JournalGotoControl ==
  ASSUME ProcessType, Control, pc \in TurnSteps, UNCHANGED run,
         NEW s, NEW p \in TurnSteps, Journal(cur, s), Goto(p),
         s \in Allowed[item[cur]], Fits(s, p)
  PROVE  Control' /\ Legal
  BY JournalEffect, GotoControl DEF Legal

LEMMA JournalEndControl ==
  ASSUME ProcessType, Control, pc \in TurnSteps, UNCHANGED run,
         NEW s, Journal(cur, s), EndTurn, s \in Allowed[item[cur]]
  PROVE  Control' /\ Legal
  BY JournalEffect, EndTurnControl DEF Legal

LEMMA StepControl ==
  ASSUME ProcessType, Control, pc \in TurnSteps, UNCHANGED <<run, item>>,
         NEW p \in TurnSteps, Goto(p), Fits(item[cur], p)
  PROVE  Control' /\ Legal
  BY GotoControl DEF Legal, ProcessType

(* What is known of the current item at a step. *)
LEMMA AtStep ==
  ASSUME Control, pc \in TurnSteps
  PROVE  Fits(item[cur], pc)
  BY DEF Control

LEMMA TurnControl ==
  ASSUME Typed, Control, Turn
  PROVE  Control' /\ Legal
<1> USE DEF Typed
<1>c. pc \in TurnSteps /\ UNCHANGED run
  BY DEF Turn, TurnSteps, TurnFrame,
         BeginStaging, WriteStage, JournalStaged, VerifyStage, SealStage, IntendCommit,
         Link, SyncDest, Unstage, CheckDest, BeginLifecycle, RecheckSource, CopyArchive,
         LinkArchive, SyncArchive, CheckArchive, UnlinkSource, SyncSource, JournalCleaned,
         JournalComplete
<1>i. Fits(item[cur], pc)
  BY <1>c, AtStep
<1>1. CASE BeginStaging
  BY <1>1, <1>c, <1>i, RaiseControl, JournalGotoControl, PlannedTransitions
     DEF BeginStaging, Fits, TurnSteps
<1>2. CASE WriteStage
  BY <1>2, <1>c, <1>i, RaiseControl, StepControl DEF WriteStage, Fits, TurnSteps
<1>3. CASE JournalStaged
  BY <1>3, <1>c, <1>i, JournalGotoControl, PlannedTransitions
     DEF JournalStaged, Fits, TurnSteps
<1>4. CASE VerifyStage
  BY <1>4, <1>c, <1>i, RaiseControl, StepControl DEF VerifyStage, Fits, TurnSteps
<1>5. CASE SealStage
  BY <1>5, <1>c, <1>i, RaiseControl, JournalGotoControl, PlannedTransitions
     DEF SealStage, Fits, TurnSteps
<1>6. CASE IntendCommit
  BY <1>6, <1>c, <1>i, RaiseControl, JournalGotoControl, PlannedTransitions
     DEF IntendCommit, Fits, TurnSteps
<1>7. CASE Link
  BY <1>7, <1>c, <1>i, RaiseControl, StepControl DEF Link, Fits, TurnSteps
<1>8. CASE SyncDest
  BY <1>8, <1>c, <1>i, RaiseControl, StepControl DEF SyncDest, Fits, TurnSteps
<1>9. CASE Unstage
  BY <1>9, <1>c, <1>i, RaiseControl, StepControl DEF Unstage, Fits, TurnSteps
<1>10. CASE CheckDest
  BY <1>10, <1>c, <1>i, RaiseControl, JournalGotoControl, PlannedTransitions
     DEF CheckDest, Fits, TurnSteps
<1>11. CASE BeginLifecycle
  BY <1>11, <1>c, <1>i, JournalGotoControl, JournalEndControl, PlannedTransitions
     DEF BeginLifecycle, Fits, TurnSteps
<1>12. CASE RecheckSource
  BY <1>12, <1>c, <1>i, RaiseControl, StepControl
     DEF RecheckSource, Proceed, Fits, TurnSteps
<1>13. CASE CopyArchive
  BY <1>13, <1>c, <1>i, RaiseControl, StepControl DEF CopyArchive, Proceed, Fits, TurnSteps
<1>14. CASE LinkArchive
  BY <1>14, <1>c, <1>i, RaiseControl, StepControl DEF LinkArchive, Fits, TurnSteps
<1>15. CASE SyncArchive
  BY <1>15, <1>c, <1>i, RaiseControl, StepControl DEF SyncArchive, Fits, TurnSteps
<1>16. CASE CheckArchive
  BY <1>16, <1>c, <1>i, RaiseControl, StepControl DEF CheckArchive, Proceed, Fits, TurnSteps
<1>17. CASE UnlinkSource
  BY <1>17, <1>c, <1>i, RaiseControl, StepControl DEF UnlinkSource, Fits, TurnSteps
<1>18. CASE SyncSource
  BY <1>18, <1>c, <1>i, StepControl DEF SyncSource, Fits, TurnSteps
<1>19. CASE JournalCleaned
  BY <1>19, <1>c, <1>i, JournalGotoControl, PlannedTransitions
     DEF JournalCleaned, Fits, TurnSteps
<1>20. CASE JournalComplete
  BY <1>20, <1>c, <1>i, JournalEndControl, PlannedTransitions
     DEF JournalComplete, Fits
<1> QED
  BY <1>1, <1>2, <1>3, <1>4, <1>5, <1>6, <1>7, <1>8, <1>9, <1>10, <1>11, <1>12, <1>13,
     <1>14, <1>15, <1>16, <1>17, <1>18, <1>19, <1>20 DEF Turn

LEMMA RecoverTurnControl ==
  ASSUME Typed, Control, RecoverTurn
  PROVE  Control' /\ Legal
<1> USE DEF Typed
<1>c. pc \in TurnSteps /\ UNCHANGED run
  BY DEF RecoverTurn, TurnSteps, TurnFrame,
         RecoveryPreflight, RecoverSettled, RecoverCleaned, RecoverCommitted, RecoverLinked,
         RecoverUnlinked, RecoverStaged, RecoverStaging, RecoverUnstaged, DropStage,
         RecoverSource, RecoverMove, RecoverArchive
<1>i. Fits(item[cur], pc) /\ item[cur] \in ItemStates
  BY <1>c, AtStep DEF ProcessType
<1>1. CASE RecoveryPreflight
  BY <1>1, <1>c, <1>i, RaiseControl, StepControl
     DEF RecoveryPreflight, Proceed, BeforeCommit, Fits, TurnSteps
<1>2. CASE RecoverSettled
  BY <1>2, <1>c, EndTurnControl DEF RecoverSettled, Legal
<1>3. CASE RecoverCleaned
  BY <1>3, <1>c, <1>i, JournalEndControl, PlannedTransitions DEF RecoverCleaned
<1>4. CASE RecoverCommitted
  BY <1>4, <1>c, <1>i, RaiseControl, StepControl
     DEF RecoverCommitted, Proceed, Fits, TurnSteps
<1>5. CASE RecoverLinked
  BY <1>5, <1>c, <1>i, RaiseControl, JournalGotoControl, PlannedTransitions
     DEF RecoverLinked, Fits, TurnSteps
<1>6. CASE RecoverUnlinked
  BY <1>6, <1>c, <1>i, RaiseControl, StepControl
     DEF RecoverUnlinked, Proceed, Fits, TurnSteps
<1>7. CASE RecoverStaged
  BY <1>7, <1>c, <1>i, RaiseControl, StepControl DEF RecoverStaged, Proceed, Fits, TurnSteps
<1>8. CASE RecoverStaging
  BY <1>8, <1>c, <1>i, JournalGotoControl, PlannedTransitions
     DEF RecoverStaging, Fits, TurnSteps
<1>9. CASE RecoverUnstaged
  BY <1>9, <1>c, <1>i, RaiseControl, StepControl
     DEF RecoverUnstaged, Proceed, Fits, TurnSteps
<1>10. CASE DropStage
  BY <1>10, <1>c, <1>i, RaiseControl, StepControl DEF DropStage, Proceed, Fits, TurnSteps
<1>11. CASE RecoverSource
  BY <1>11, <1>c, <1>i, RaiseControl, StepControl
     DEF RecoverSource, Proceed, Fits, TurnSteps
<1>12. CASE RecoverMove
  BY <1>12, <1>c, <1>i, RaiseControl, StepControl DEF RecoverMove, Proceed, Fits, TurnSteps
<1>13. CASE RecoverArchive
  BY <1>13, <1>c, <1>i, RaiseControl, StepControl
     DEF RecoverArchive, Proceed, Fits, TurnSteps
<1> QED
  BY <1>1, <1>2, <1>3, <1>4, <1>5, <1>6, <1>7, <1>8, <1>9, <1>10, <1>11, <1>12, <1>13
     DEF RecoverTurn

(* A command that lets go of the lock leaves no step to account for. *)
LEMMA IdleControl ==
  ASSUME Control, op' \in {"none", "abandon"}, pc' \in {"idle", "close_run"}, UNCHANGED item,
         run' = "none" => run = "none" /\ op' = "none"
  PROVE  Control' /\ Legal
  BY DEF Control, HeadSteps, TurnSteps, Legal

LEMMA HeadControl ==
  ASSUME Typed, Control, Head
  PROVE  Control' /\ Legal
<1> USE DEF Typed
<1>c. cur \in Items /\ cur \in Nat /\ N \in Nat /\ 1 <= cur /\ cur <= N
  BY PlanAssumption DEF ProcessType, Items
<1>s. HeadSteps \cap TurnSteps = {} /\ {"fail_run", "finalize"} \cap (HeadSteps \cup TurnSteps) = {}
  BY DEF HeadSteps, TurnSteps
<1>1. CASE Preflight
  <2>1. UNCHANGED <<run, item, op>> /\ op = "apply" /\ run # "none"
    BY <1>1 DEF Preflight, journal, NextItem, Control, HeadSteps
  <2>2. \A i \in Items : item[i] = "pending"
    BY <1>1 DEF Preflight, Control
  <2>3. pc' = "preflight" \/ (pc' = "space" /\ cur' = 1)
    BY <1>1 DEF Preflight, NextItem
  <2> QED
    BY <2>1, <2>2, <2>3 DEF Control, Legal, HeadSteps, TurnSteps
<1>2. CASE CheckSpace
  <2>1. UNCHANGED <<run, item, op, cur>> /\ op = "apply" /\ run # "none" /\ cur = 1
    BY <1>2 DEF CheckSpace, journal, Control, HeadSteps
  <2>2. \A i \in Items : item[i] = "pending"
    BY <1>2 DEF CheckSpace, Control
  <2>3. pc' \in {"mark_ok", "mark_stale"}
    BY <1>2 DEF CheckSpace
  <2> QED
    BY <1>c, <2>1, <2>2, <2>3 DEF Control, Legal, HeadSteps, TurnSteps, Items
<1>3. CASE MarkStale
  <2>1. UNCHANGED <<run, op>> /\ op = "apply" /\ run # "none" /\ \A i \in cur..N : item[i] = "pending"
    BY <1>3 DEF MarkStale, TurnFrame, NextItem, Control, HeadSteps
  <2>2. \A i \in Items : item'[i] = item[i] \/ (i = cur /\ item'[i] = "stale")
    BY <1>3 DEF MarkStale, ProcessType
  <2>3. Legal
    BY <1>c, <2>1, <2>2, PlannedTransitions DEF Legal, Items
  <2>4. CASE cur < N
    <3>1. pc' = "mark_stale" /\ cur' = cur + 1
      BY <1>3, <2>4 DEF MarkStale, NextItem
    <3>2. \A i \in cur'..N : i \in Items /\ i # cur /\ i \in cur..N
      BY <3>1, <1>c DEF Items
    <3> QED
      BY <2>1, <2>2, <2>3, <3>1, <3>2 DEF Control, HeadSteps, TurnSteps
  <2>5. CASE ~(cur < N)
    BY <1>3, <2>1, <2>3, <2>5 DEF MarkStale, NextItem, Control, HeadSteps, TurnSteps
  <2> QED
    BY <2>4, <2>5
<1>4. CASE FailRun
  BY <1>4, IdleControl DEF FailRun, Release
<1>5. CASE MarkOK
  <2>1. /\ UNCHANGED <<run, op>> /\ op = "apply" /\ run # "none"
        /\ \A i \in cur..N : item[i] = "pending"
        /\ \A i \in 1..(cur - 1) : item[i] = "preflight_ok"
    BY <1>5 DEF MarkOK, TurnFrame, NextItem, Control, HeadSteps
  <2>2. item'[cur] = "preflight_ok" /\ \A i \in Items \ {cur} : item'[i] = item[i]
    BY <1>5, JournalEffect DEF MarkOK
  <2>3. Legal
    BY <1>c, <2>1, <2>2, PlannedTransitions DEF Legal, Items
  <2>4. \A i \in 1..cur : item'[i] = "preflight_ok"
    <3>1. \A i \in 1..cur : i = cur \/ (i \in 1..(cur - 1) /\ i \in Items \ {cur})
      BY <1>c DEF Items
    <3> QED
      BY <3>1, <2>1, <2>2
  <2>5. CASE cur < N
    <3>1. pc' = "mark_ok" /\ cur' = cur + 1
      BY <1>5, <2>5 DEF MarkOK, NextItem
    <3>2. \A i \in cur'..N : i \in Items \ {cur} /\ i \in cur..N
      BY <3>1, <1>c DEF Items
    <3>3. cur' - 1 = cur
      BY <3>1, <1>c
    <3> QED
      BY <2>1, <2>2, <2>3, <2>4, <3>1, <3>2, <3>3 DEF Control, HeadSteps, TurnSteps
  <2>6. CASE ~(cur < N)
    <3>1. pc' = "start_run" /\ cur' = 1 /\ cur = N
      BY <1>5, <1>c, <2>6 DEF MarkOK, NextItem
    <3>2. \A i \in Items : item'[i] = "preflight_ok"
      BY <2>4, <3>1 DEF Items
    <3> QED
      BY <2>1, <2>3, <3>1, <3>2 DEF Control, HeadSteps, TurnSteps
  <2> QED
    BY <2>5, <2>6
<1>6. CASE StartRun
  <2>1. /\ UNCHANGED <<op, item, cur>> /\ op = "apply" /\ run' # "none"
        /\ pc' = "begin" /\ \A i \in Items : item[i] = "preflight_ok"
    BY <1>6 DEF StartRun, Goto, Control, HeadSteps
  <2>2. Fits(item[cur], "begin") /\ \A i \in (cur + 1)..N : i \in Items
    BY <1>c, <2>1 DEF Fits, Items
  <2> QED
    BY <2>1, <2>2 DEF Control, HeadSteps, Legal
<1> QED
  BY <1>1, <1>2, <1>3, <1>4, <1>5, <1>6 DEF Head

LEMMA TailControl ==
  ASSUME Typed, Control, Tail
  PROVE  Control' /\ Legal
<1>1. CASE Finalize
  <2>1. run' # "none" /\ UNCHANGED item
    BY <1>1 DEF Finalize, FinalState
  <2>2. CASE Goto("report")
    BY <2>1, <2>2 DEF Goto, Control, HeadSteps, TurnSteps, Legal
  <2>3. CASE Release
    BY <2>1, <2>3, IdleControl DEF Release
  <2> QED
    BY <1>1, <2>2, <2>3 DEF Finalize
<1>2. CASE WriteReport
  BY <1>2, IdleControl DEF WriteReport, Release
<1>3. CASE CloseRun
  BY <1>3, IdleControl DEF CloseRun, Release
<1> QED
  BY <1>1, <1>2, <1>3 DEF Tail

LEMMA CommandControl ==
  ASSUME Typed, Control, Commands
  PROVE  Control' /\ Legal
<1>1. CASE StartApply
  BY <1>1 DEF StartApply, Control, HeadSteps, TurnSteps, Legal
<1>2. CASE StartRecover
  BY <1>2, FirstItem
     DEF StartRecover, Control, HeadSteps, TurnSteps, Legal, Fits, Typed, ProcessType
<1>3. CASE Abandon
  BY <1>3, IdleControl DEF Abandon
<1>4. CASE Backfill
  BY <1>4 DEF Backfill, process, Control, Legal
<1> QED
  BY <1>1, <1>2, <1>3, <1>4 DEF Commands

LEMMA WorldControl ==
  ASSUME Typed, Control, StepFails \/ Kill \/ PowerLoss \/ Meddling
  PROVE  Control' /\ Legal
<1>1. CASE StepFails
  BY <1>1, RaiseControl DEF StepFails, Typed, FallibleSteps, TurnSteps
<1>2. CASE Kill
  BY <1>2, IdleControl DEF Kill, Release, journal
<1>3. CASE PowerLoss
  BY <1>3, IdleControl DEF PowerLoss, Release, journal
<1>4. CASE Meddling
  <2>1. UNCHANGED <<run, item, process>>
    BY <1>4 DEF Meddling, EditSource, RemoveSource, RestoreSource, ReplaceDest,
                ReplaceArchive, LoseStage, Meddle, InvalidatePlan, journal
  <2> QED
    BY <2>1 DEF process, Control, Legal
<1> QED
  BY <1>1, <1>2, <1>3, <1>4

LEMMA InitControl == Init => Control
  BY DEF Init, Control, HeadSteps, TurnSteps

LEMMA NextControl == Typed /\ Control /\ [Next]_vars => Control' /\ Legal
<1> SUFFICES ASSUME Typed, Control, [Next]_vars PROVE Control' /\ Legal
  OBVIOUS
<1>1. CASE UNCHANGED vars
  BY <1>1 DEF vars, Control, Legal
<1> QED
  BY <1>1, HeadControl, TurnControl, RecoverTurnControl, TailControl, CommandControl,
     WorldControl DEF Next, Progress

(* No handler of the apply engine, in apply, recover or after a refused    *)
(* step, ever asks JournalRepository.transition for a transition its table *)
(* refuses: the ValueError that would strand the item cannot be raised.    *)
THEOREM TransitionsAllowed == Spec => OnlyAllowedTransitions
<1>1. Typed /\ Control /\ [Next]_vars => [Legal]_vars
  BY NextControl
<1>2. [Legal]_vars <=>
        [\A i \in Items : item'[i] # item[i] => item'[i] \in Allowed[item[i]]]_vars
  BY DEF Legal
<1> QED
  BY <1>1, <1>2, InitTypes, NextTypes, InitControl, NextControl, PTL
     DEF Spec, OnlyAllowedTransitions
=============================================================================
