----------------------- MODULE ApplyEngineTruthProofs -----------------------
(***************************************************************************)
(* JournalTruth and FailedRunClean for a plan of any length and any number *)
(* of process deaths, faults and outside changes, as long as the machine   *)
(* does not lose power: what the journal says of an item nobody else       *)
(* touched is what its files hold.  Then the same and NothingLost when it  *)
(* does lose power, any number of times, and what process deaths alone can *)
(* do to an item.                                                          *)
(***************************************************************************)
EXTENDS ApplyEngineProofs

-----------------------------------------------------------------------------
(* The inductive invariant.                                                *)

(* The promise, and two facts it needs to last: a STAGED item's staging    *)
(* file is the writer's output or what a power loss left of it, and only a *)
(* lifecycle that retires the source gets to CLEANUP_PENDING.              *)
Kept(i) ==
  /\ Promise(i)
  /\ item[i] = "staged" => fs[i]["stage"] \in {"output", "torn", "none"}
  /\ item[i] = "cleanup_pending" => policy[i] # "preserve"

(* What the files of item i hold beyond its promise at step p of its turn. *)
Here(i, p) ==
  /\ p \in {"staged", "seal", "sync_dest"} => fs[i]["stage"] = "output"
  /\ p = "link" => fs[i]["dest"] = "none"
  /\ p \in {"sync_dest", "unstage", "check_dest"} => fs[i]["dest"] = "output"
  /\ p \in {"copy_archive", "link_archive", "recopy_archive", "relink_archive"} =>
       policy[i] = "archive_after_verify"
  /\ p \in {"link_archive", "relink_archive", "sync_archive", "resync_archive"} =>
       fs[i]["source"] = "planned"
  /\ p \in {"sync_archive", "resync_archive", "check_archive", "unlink_source"} => Archived(i)
  /\ p \in {"sync_source", "cleaned"} => fs[i]["source"] = "none" /\ Archived(i)

Truth ==
  /\ \A i \in Items \ meddled : Kept(i)
  /\ pc \in TurnSteps /\ cur \notin meddled => Here(cur, pc)

(* What a change of one path does to every path. *)
LEMMA PutValue ==
  ASSUME NEW f \in Tree, NEW i \in Items, NEW p \in Places, NEW c \in Contents
  PROVE  /\ Put(f, i, p, c)[i][p] = c
         /\ \A q \in Places \ {p} : Put(f, i, p, c)[i][q] = f[i][q]
         /\ \A j \in Items \ {i} : Put(f, i, p, c)[j] = f[j]
  BY DEF Put, Tree

(* Only the current item's entry of x changes. *)
Elsewhere(x, y) == \A i \in Items \ {cur} : y[i] = x[i]

(* Other items keep what they were promised through a turn's step. *)
LEMMA OthersKept ==
  ASSUME Truth, UNCHANGED <<policy, meddled>>, Elsewhere(fs, fs'), Elsewhere(item, item'),
         Elsewhere(sealed, sealed')
  PROVE  \A i \in Items \ (meddled \cup {cur}) : Kept(i)'
  BY DEF Truth, Kept, Promise, Archived, Elsewhere

(* A turn that ends with the current item's promise kept. *)
LEMMA EndTruth ==
  ASSUME Truth, ProcessType, UNCHANGED <<policy, meddled, fs, sealed>>, EndTurn,
         Elsewhere(item, item'), \A i \in Items \ meddled : i = cur => Kept(i)'
  PROVE  Truth'
<1>1. pc' \in {"begin", "recovery_preflight", "finalize"}
  BY DEF EndTurn, NextItem, TurnStart
<1>2. \A i \in Items \ (meddled \cup {cur}) : Kept(i)'
  BY OthersKept DEF Elsewhere
<1>3. pc' \in TurnSteps /\ cur' \notin meddled' => Here(cur, pc)'
  BY <1>1 DEF Here
<1> QED
  BY <1>2, <1>3 DEF Truth

(* A turn that goes on with the current item's promise kept. *)
LEMMA GotoTruth ==
  ASSUME Truth, ProcessType, UNCHANGED <<policy, meddled>>, NEW p, Goto(p),
         Elsewhere(fs, fs'), Elsewhere(item, item'), Elsewhere(sealed, sealed'),
         \A i \in Items \ meddled : i = cur => Kept(i)' /\ Here(i, p)'
  PROVE  Truth'
<1>1. cur' = cur /\ pc' = p /\ cur \in Items
  BY DEF Goto, ProcessType
<1>2. \A i \in Items \ (meddled \cup {cur}) : Kept(i)'
  BY OthersKept
<1>3. pc' \in TurnSteps /\ cur' \notin meddled' => Here(cur, pc)'
  BY <1>1 DEF Here, Archived
<1> QED
  BY <1>2, <1>3 DEF Truth

(* Refusing a step leaves the promise kept: a source nobody touched never  *)
(* refuses a commit, and the engine's own destination never collides.      *)
LEMMA RaiseTruth ==
  ASSUME Truth, ProcessType, UNCHANGED <<policy, sealed, meddled>>,
         \/ RaiseFailure
         \/ RaiseStale /\ ~SourceOK(cur)
         \/ RaiseCollision /\ (item[cur] = "committing" => pc = "link" /\ Exists(cur, "dest"))
         \/ GiveUp,
         pc \in TurnSteps
  PROVE  Truth'
<1>1. cur \in Items /\ item[cur] \in ItemStates /\ UNCHANGED <<fs, files>> /\ EndTurn
  BY DEF ProcessType, RaiseFailure, RaiseStale, RaiseCollision, GiveUp, files
<1>2. \/ Journal(cur, AfterFailure(item[cur]))
      \/ Journal(cur, AfterStale(item[cur])) /\ ~SourceOK(cur)
      \/ /\ Journal(cur, AfterCollision(item[cur]))
         /\ item[cur] = "committing" => pc = "link" /\ Exists(cur, "dest")
      \/ Journal(cur, "recovery_required")
  BY DEF RaiseFailure, RaiseStale, RaiseCollision, GiveUp
<1>3. Elsewhere(item, item')
  BY <1>2, JournalEffect DEF Elsewhere
<1>4. ASSUME NEW i \in Items \ meddled, i = cur PROVE Kept(i)'
  <2>1. Kept(i) /\ Here(i, pc)
    BY <1>1, <1>4 DEF Truth
  <2>2. CASE Journal(cur, AfterFailure(item[cur]))
    <3>1. item'[i] = AfterFailure(item[cur])
      BY <1>4, <2>2, JournalEffect
    <3> QED
      BY <1>1, <1>4, <2>1, <3>1 DEF AfterFailure, Kept, Promise, Archived, ItemStates
  <2>3. CASE Journal(cur, AfterStale(item[cur])) /\ ~SourceOK(cur)
    <3>1. item'[i] = AfterStale(item[cur])
      BY <1>4, <2>3, JournalEffect
    <3> QED
      BY <1>1, <1>4, <2>1, <2>3, <3>1 DEF AfterStale, SourceOK, Kept, Promise, Archived, ItemStates
  <2>4. CASE /\ Journal(cur, AfterCollision(item[cur]))
             /\ item[cur] = "committing" => pc = "link" /\ Exists(cur, "dest")
    <3>1. item'[i] = AfterCollision(item[cur])
      BY <1>4, <2>4, JournalEffect
    <3> QED
      BY <1>1, <1>4, <2>1, <2>4, <3>1
         DEF AfterCollision, Exists, Here, Kept, Promise, Archived, ItemStates
  <2>5. CASE Journal(cur, "recovery_required")
    <3>1. item'[i] = "recovery_required"
      BY <1>4, <2>5, JournalEffect
    <3> QED
      BY <1>1, <1>4, <2>1, <3>1 DEF Kept, Promise, Archived, ItemStates
  <2> QED
    BY <1>2, <2>2, <2>3, <2>4, <2>5
<1> QED
  BY <1>1, <1>3, <1>4, EndTruth

(* A step that changes neither the files nor the journal. *)
LEMMA StepTruth ==
  ASSUME Truth, ProcessType, UNCHANGED <<policy, sealed, meddled, fs, item>>, NEW p, Goto(p),
         cur \notin meddled => Here(cur, p)
  PROVE  Truth'
<1>1. \A i \in Items \ meddled : i = cur => Kept(i)' /\ Here(i, p)'
  BY DEF Truth, Kept, Promise, Archived, Here
<1> QED
  BY <1>1, GotoTruth DEF Elsewhere

(* What a change of one path does to the files processes see. *)
LEMMA WriteEffect ==
  ASSUME FilesType, NEW i \in Items, NEW p \in Places, NEW c \in Contents,
         Write(i, p, c) \/ WriteDurably(i, p, c)
  PROVE  /\ fs'[i][p] = c
         /\ \A q \in Places \ {p} : fs'[i][q] = fs[i][q]
         /\ \A j \in Items \ {i} : fs'[j] = fs[j]
  BY PutValue DEF Write, WriteDurably, FilesType

(* What is known of the current item when nobody touched it. *)
LEMMA CurrentKept ==
  ASSUME Truth, Control, ProcessType, pc \in TurnSteps, NEW i \in Items \ meddled, i = cur
  PROVE  Kept(i) /\ Here(i, pc) /\ Fits(item[i], pc)
  BY DEF Truth, Control

-----------------------------------------------------------------------------
(* Up to VERIFIED.                                                         *)

LEMMA StagingTruth ==
  ASSUME Typed, Control, Truth,
         BeginStaging \/ WriteStage \/ JournalStaged \/ VerifyStage \/ SealStage
  PROVE  Truth'
<1> USE DEF Typed
<1>c. /\ cur \in Items /\ pc \in TurnSteps /\ UNCHANGED <<policy, meddled>>
      /\ ~SealStage => UNCHANGED sealed
  BY DEF ProcessType, TurnSteps, TurnFrame, BeginStaging, WriteStage, JournalStaged,
         VerifyStage, SealStage, world
<1>k. \A i \in Items \ meddled : i = cur => Kept(i) /\ Here(i, pc) /\ Fits(item[i], pc)
  BY <1>c, CurrentKept
<1>1. CASE BeginStaging
  <2>1. CASE ~SourceOK(cur) /\ RaiseStale
    BY <1>1, <2>1, <1>c, RaiseTruth DEF BeginStaging, TurnFrame
  <2>2. CASE Journal(cur, "staging") /\ WriteDurably(cur, "stage", "none") /\ Goto("write")
    <3>1. item'[cur] = "staging" /\ Elsewhere(item, item')
      BY <2>2, JournalEffect DEF Elsewhere
    <3>2. /\ fs'[cur]["source"] = fs[cur]["source"] /\ fs'[cur]["dest"] = fs[cur]["dest"]
          /\ Elsewhere(fs, fs')
      BY <2>2, <1>c, WriteEffect DEF Elsewhere, Places, Contents
    <3>3. \A i \in Items \ meddled : i = cur => Kept(i)' /\ Here(i, "write")'
      BY <1>k, <1>1, <3>1, <3>2 DEF BeginStaging, Fits, Kept, Promise, Here
    <3> QED
      BY <1>1, <1>c, <2>2, <3>1, <3>2, <3>3, GotoTruth DEF BeginStaging, TurnFrame, Elsewhere
  <2> QED
    BY <1>1, <2>1, <2>2 DEF BeginStaging
<1>2. CASE WriteStage
  <2>1. CASE RaiseFailure
    BY <1>2, <2>1, <1>c, RaiseTruth DEF WriteStage, TurnFrame
  <2>2. CASE /\ Write(cur, "stage", IF SourceOK(cur) THEN "output" ELSE "tainted")
             /\ Goto("staged") /\ UNCHANGED item
    <3>1. (IF SourceOK(cur) THEN "output" ELSE "tainted") \in Contents
      BY DEF Contents
    <3>2. /\ fs'[cur]["source"] = fs[cur]["source"] /\ fs'[cur]["dest"] = fs[cur]["dest"]
          /\ fs'[cur]["stage"] = (IF SourceOK(cur) THEN "output" ELSE "tainted")
          /\ Elsewhere(fs, fs')
      BY <2>2, <1>c, <3>1, WriteEffect DEF Elsewhere, Places
    <3>3. \A i \in Items \ meddled : i = cur => Kept(i)' /\ Here(i, "staged")'
      BY <1>k, <1>2, <2>2, <3>2 DEF WriteStage, TurnFrame, Fits, Kept, Promise, Here, SourceOK
    <3> QED
      BY <1>2, <1>c, <2>2, <3>2, <3>3, GotoTruth DEF WriteStage, TurnFrame, Elsewhere
  <2> QED
    BY <1>2, <2>1, <2>2 DEF WriteStage
<1>3. CASE JournalStaged
  <2>1. item'[cur] = "staged" /\ Elsewhere(item, item') /\ UNCHANGED <<fs, sealed>>
    BY <1>3, JournalEffect DEF JournalStaged, Elsewhere, files, TurnFrame
  <2>2. \A i \in Items \ meddled : i = cur => Kept(i)' /\ Here(i, "verify")'
    BY <1>k, <1>3, <2>1 DEF JournalStaged, Fits, Kept, Promise, Here
  <2> QED
    BY <1>3, <1>c, <2>1, <2>2, GotoTruth DEF JournalStaged, Elsewhere
<1>4. CASE VerifyStage
  <2>1. CASE RaiseFailure
    BY <1>4, <2>1, <1>c, RaiseTruth DEF VerifyStage, TurnFrame
  <2>2. ASSUME TRUE \in VerifyOutcomes(cur, fs[cur]["stage"]), Sync(cur, "stage"),
               Goto("seal"), UNCHANGED item
        PROVE  Truth'
    <3>1. cur \notin meddled => Here(cur, "seal")
      BY <1>k, <1>c, <1>4, <2>2 DEF VerifyStage, VerifyOutcomes, Fits, Kept, Here
    <3> QED
      BY <1>4, <2>2, <3>1, <1>c, StepTruth DEF VerifyStage, TurnFrame, Sync
  <2> QED
    BY <1>4, <2>1, <2>2 DEF VerifyStage, VerifyOutcomes
<1>5. CASE SealStage
  <2>1. CASE RaiseFailure /\ UNCHANGED sealed
    BY <1>5, <2>1, <1>c, RaiseTruth DEF SealStage
  <2>2. CASE /\ Journal(cur, "verified")
             /\ sealed' = [sealed EXCEPT ![cur] = Hash(fs[cur]["stage"])]
             /\ Goto("recheck") /\ UNCHANGED files
    <3>1. item'[cur] = "verified" /\ Elsewhere(item, item') /\ UNCHANGED fs
      BY <2>2, JournalEffect DEF Elsewhere, files
    <3>2. sealed'[cur] = Hash(fs[cur]["stage"]) /\ Elsewhere(sealed, sealed')
      BY <2>2, <1>c DEF Elsewhere, RecordsType
    <3>3. \A i \in Items \ meddled : i = cur => Kept(i)' /\ Here(i, "recheck")'
      BY <1>k, <1>5, <3>1, <3>2 DEF SealStage, Fits, Kept, Promise, Here, Hash
    <3> QED
      BY <1>c, <2>2, <3>1, <3>2, <3>3, GotoTruth DEF Elsewhere
  <2> QED
    BY <1>5, <2>1, <2>2 DEF SealStage
<1> QED
  BY <1>1, <1>2, <1>3, <1>4, <1>5

-----------------------------------------------------------------------------
(* From VERIFIED to COMMITTED.                                             *)

LEMMA CommitTruth ==
  ASSUME Typed, Control, Truth, IntendCommit \/ Link \/ SyncDest \/ Unstage \/ CheckDest
  PROVE  Truth'
<1> USE DEF Typed
<1>c. /\ cur \in Items /\ pc \in TurnSteps /\ UNCHANGED <<policy, meddled, sealed>>
  BY DEF ProcessType, TurnSteps, TurnFrame, IntendCommit, Link, SyncDest, Unstage, CheckDest
<1>k. \A i \in Items \ meddled : i = cur => Kept(i) /\ Here(i, pc) /\ Fits(item[i], pc)
  BY <1>c, CurrentKept
<1>s. Elsewhere(sealed, sealed')
  BY <1>c DEF Elsewhere
<1>f. pc = "recheck" => item[cur] # "committing"
  BY <1>c DEF Control, Fits
<1>1. CASE IntendCommit
  <2>1. CASE ~SourceOK(cur) /\ RaiseStale
    BY <2>1, <1>c, RaiseTruth
  <2>2. CASE Exists(cur, "dest") /\ RaiseCollision
    BY <1>1, <2>2, <1>c, <1>f, RaiseTruth DEF IntendCommit
  <2>3. CASE /\ ~Exists(cur, "dest") /\ Journal(cur, "committing")
             /\ Goto("link") /\ UNCHANGED files
    <3>1. item'[cur] = "committing" /\ Elsewhere(item, item') /\ UNCHANGED fs
      BY <2>3, JournalEffect DEF Elsewhere, files
    <3>2. \A i \in Items \ meddled : i = cur => Kept(i)' /\ Here(i, "link")'
      BY <1>k, <1>c, <1>1, <2>3, <3>1 DEF IntendCommit, Fits, Kept, Promise, Here, Exists
    <3> QED
      BY <1>c, <1>s, <2>3, <3>1, <3>2, GotoTruth DEF Elsewhere
  <2> QED
    BY <1>1, <2>1, <2>2, <2>3 DEF IntendCommit
<1>2. CASE Link
  <2>1. CASE Exists(cur, "dest") /\ RaiseCollision
    BY <1>2, <2>1, <1>c, RaiseTruth DEF Link
  <2>2. CASE RaiseFailure
    BY <2>2, <1>c, RaiseTruth
  <2>3. CASE /\ Write(cur, "dest", fs[cur]["stage"])
             /\ Goto("sync_dest") /\ UNCHANGED item
    <3>1. fs[cur]["stage"] \in Contents
      BY <1>c DEF FilesType, Tree, Places
    <3>2. /\ fs'[cur]["dest"] = fs[cur]["stage"] /\ fs'[cur]["source"] = fs[cur]["source"]
          /\ fs'[cur]["stage"] = fs[cur]["stage"] /\ Elsewhere(fs, fs')
      BY <2>3, <1>c, <3>1, WriteEffect DEF Elsewhere, Places
    <3>3. \A i \in Items \ meddled : i = cur => Kept(i)' /\ Here(i, "sync_dest")'
      BY <1>k, <1>c, <1>2, <2>3, <3>2 DEF Link, Fits, Kept, Promise, Here
    <3> QED
      BY <1>c, <1>s, <2>3, <3>2, <3>3, GotoTruth DEF Elsewhere
  <2> QED
    BY <1>2, <2>1, <2>2, <2>3 DEF Link
<1>3. CASE SyncDest
  <2>1. CASE RaiseFailure
    BY <2>1, <1>c, RaiseTruth
  <2>2. CASE Sync(cur, "dest") /\ Goto("unstage") /\ UNCHANGED item
    BY <1>k, <1>3, <2>2, <1>c, StepTruth DEF SyncDest, Sync, Here
  <2> QED
    BY <1>3, <2>1, <2>2 DEF SyncDest
<1>4. CASE Unstage
  <2>1. CASE RaiseFailure
    BY <2>1, <1>c, RaiseTruth
  <2>2. CASE WriteDurably(cur, "stage", "none") /\ Goto("check_dest") /\ UNCHANGED item
    <3>1. /\ fs'[cur]["source"] = fs[cur]["source"] /\ fs'[cur]["dest"] = fs[cur]["dest"]
          /\ Elsewhere(fs, fs')
      BY <2>2, <1>c, WriteEffect DEF Elsewhere, Places, Contents
    <3>2. \A i \in Items \ meddled : i = cur => Kept(i)' /\ Here(i, "check_dest")'
      BY <1>k, <1>c, <1>4, <2>2, <3>1 DEF Unstage, Fits, Kept, Promise, Here
    <3> QED
      BY <1>c, <1>s, <2>2, <3>1, <3>2, GotoTruth DEF Elsewhere
  <2> QED
    BY <1>4, <2>1, <2>2 DEF Unstage
<1>5. CASE CheckDest
  <2>1. CASE RaiseFailure
    BY <2>1, <1>c, RaiseTruth
  <2>2. CASE Journal(cur, "committed") /\ Goto("lifecycle") /\ UNCHANGED files
    <3>1. item'[cur] = "committed" /\ Elsewhere(item, item') /\ UNCHANGED fs
      BY <2>2, JournalEffect DEF Elsewhere, files
    <3>2. \A i \in Items \ meddled : i = cur => Kept(i)' /\ Here(i, "lifecycle")'
      BY <1>k, <1>c, <1>5, <3>1 DEF CheckDest, Fits, Kept, Promise, Here
    <3> QED
      BY <1>c, <1>s, <2>2, <3>1, <3>2, GotoTruth DEF Elsewhere
  <2> QED
    BY <1>5, <2>1, <2>2 DEF CheckDest
<1> QED
  BY <1>1, <1>2, <1>3, <1>4, <1>5

-----------------------------------------------------------------------------
(* From COMMITTED to COMPLETE.                                             *)

LEMMA LifecycleTruth ==
  ASSUME Typed, Control, Truth,
         \/ BeginLifecycle \/ RecheckSource \/ CopyArchive \/ LinkArchive \/ SyncArchive
         \/ CheckArchive \/ UnlinkSource \/ SyncSource \/ JournalCleaned \/ JournalComplete
  PROVE  Truth'
<1> USE DEF Typed
<1>c. /\ cur \in Items /\ pc \in TurnSteps /\ UNCHANGED <<policy, meddled, sealed>>
  BY DEF ProcessType, TurnSteps, TurnFrame, BeginLifecycle, RecheckSource, CopyArchive,
         LinkArchive, SyncArchive, CheckArchive, UnlinkSource, SyncSource, JournalCleaned,
         JournalComplete
<1>k. \A i \in Items \ meddled : i = cur => Kept(i) /\ Here(i, pc) /\ Fits(item[i], pc)
  BY <1>c, CurrentKept
<1>s. Elsewhere(sealed, sealed')
  BY <1>c DEF Elsewhere
<1>p. policy[cur] \in Lifecycles
  BY <1>c DEF RecordsType
<1>f. Fits(item[cur], pc)
  BY <1>c DEF Control
<1>1. CASE BeginLifecycle
  <2>1. UNCHANGED fs
    BY <1>1 DEF BeginLifecycle, files
  <2>2. CASE policy[cur] = "preserve"
    <3>1. item'[cur] = "complete" /\ Elsewhere(item, item') /\ EndTurn
      BY <1>1, <2>2, JournalEffect DEF BeginLifecycle, Elsewhere
    <3>2. \A i \in Items \ meddled : i = cur => Kept(i)'
      BY <1>k, <1>c, <1>1, <2>1, <2>2, <3>1 DEF BeginLifecycle, Fits, Kept, Promise
    <3> QED
      BY <1>c, <2>1, <3>1, <3>2, EndTruth
  <2>3. CASE policy[cur] # "preserve"
    <3>1. item'[cur] = "cleanup_pending" /\ Elsewhere(item, item') /\ Goto("recheck_source")
      BY <1>1, <2>3, JournalEffect DEF BeginLifecycle, Elsewhere
    <3>2. \A i \in Items \ meddled : i = cur => Kept(i)' /\ Here(i, "recheck_source")'
      BY <1>k, <1>c, <1>1, <2>1, <2>3, <3>1 DEF BeginLifecycle, Fits, Kept, Promise, Here
    <3> QED
      BY <1>c, <1>s, <2>1, <3>1, <3>2, GotoTruth DEF Elsewhere
  <2> QED
    BY <2>2, <2>3
<1>2. CASE RecheckSource
  <2>1. CASE ~SourceOK(cur) /\ RaiseStale
    BY <2>1, <1>c, RaiseTruth
  <2>2. CASE Proceed(IF policy[cur] = "archive_after_verify"
                       THEN "copy_archive" ELSE "unlink_source")
    BY <1>k, <1>c, <2>2, StepTruth DEF Proceed, files, Here, Archived
  <2> QED
    BY <1>2, <2>1, <2>2 DEF RecheckSource
<1>3. CASE CopyArchive
  <2>1. CASE RaiseFailure
    BY <2>1, <1>c, RaiseTruth
  <2>2. CASE /\ SourceOK(cur)
             /\ Proceed(IF pc = "copy_archive" THEN "link_archive" ELSE "relink_archive")
    BY <1>k, <1>c, <1>3, <2>2, StepTruth DEF CopyArchive, Proceed, files, Here, SourceOK
  <2> QED
    BY <1>3, <2>1, <2>2 DEF CopyArchive
<1>4. CASE LinkArchive
  <2>1. CASE RaiseCollision
    BY <1>4, <1>f, <2>1, <1>c, RaiseTruth DEF LinkArchive, Fits
  <2>2. ASSUME Write(cur, "archive", "planned"), UNCHANGED item,
               NEW p \in {"sync_archive", "resync_archive"}, Goto(p)
        PROVE  Truth'
    <3>1. /\ fs'[cur]["source"] = fs[cur]["source"] /\ fs'[cur]["dest"] = fs[cur]["dest"]
          /\ fs'[cur]["archive"] = "planned" /\ Elsewhere(fs, fs')
      BY <2>2, <1>c, WriteEffect DEF Elsewhere, Places, Contents
    <3>2. \A i \in Items \ meddled : i = cur => Kept(i)' /\ Here(i, p)'
      BY <1>k, <1>c, <1>4, <2>2, <3>1 DEF LinkArchive, Fits, Kept, Promise, Archived, Here
    <3> QED
      BY <1>c, <1>s, <2>2, <3>1, <3>2, GotoTruth DEF Elsewhere
  <2> QED
    BY <1>4, <2>1, <2>2 DEF LinkArchive
<1>5. CASE SyncArchive
  <2>1. CASE RaiseFailure
    BY <2>1, <1>c, RaiseTruth
  <2>2. CASE /\ Sync(cur, "archive") /\ UNCHANGED item
             /\ Goto(IF pc = "sync_archive" THEN "check_archive" ELSE "unlink_source")
    BY <1>k, <1>c, <1>5, <2>2, StepTruth DEF SyncArchive, Sync, Here
  <2> QED
    BY <1>5, <2>1, <2>2 DEF SyncArchive
<1>6. CASE CheckArchive
  <2>1. CASE RaiseFailure
    BY <2>1, <1>c, RaiseTruth
  <2>2. CASE Proceed("unlink_source")
    BY <1>k, <1>c, <1>6, <2>2, StepTruth DEF CheckArchive, Proceed, files, Here
  <2> QED
    BY <1>6, <2>1, <2>2 DEF CheckArchive
<1>7. CASE UnlinkSource
  <2>1. CASE RaiseFailure
    BY <2>1, <1>c, RaiseTruth
  <2>2. CASE Write(cur, "source", "none") /\ Goto("sync_source") /\ UNCHANGED item
    <3>1. /\ fs'[cur]["source"] = "none" /\ fs'[cur]["dest"] = fs[cur]["dest"]
          /\ fs'[cur]["archive"] = fs[cur]["archive"] /\ Elsewhere(fs, fs')
      BY <2>2, <1>c, WriteEffect DEF Elsewhere, Places, Contents
    <3>2. \A i \in Items \ meddled : i = cur => Kept(i)' /\ Here(i, "sync_source")'
      BY <1>k, <1>c, <1>7, <2>2, <3>1 DEF UnlinkSource, Fits, Kept, Promise, Archived, Here
    <3> QED
      BY <1>c, <1>s, <2>2, <3>1, <3>2, GotoTruth DEF Elsewhere
  <2> QED
    BY <1>7, <2>1, <2>2 DEF UnlinkSource
<1>8. CASE SyncSource
  BY <1>k, <1>c, <1>8, StepTruth DEF SyncSource, Sync, Here
<1>9. CASE JournalCleaned
  <2>1. item'[cur] = "cleaned" /\ Elsewhere(item, item') /\ UNCHANGED fs
    BY <1>9, JournalEffect DEF JournalCleaned, Elsewhere, files
  <2>2. \A i \in Items \ meddled : i = cur => Kept(i)' /\ Here(i, "complete")'
    BY <1>k, <1>c, <1>9, <2>1 DEF JournalCleaned, Fits, Kept, Promise, Archived, Here
  <2> QED
    BY <1>c, <1>s, <1>9, <2>1, <2>2, GotoTruth DEF JournalCleaned, Elsewhere
<1>10. CASE JournalComplete
  <2>1. item'[cur] = "complete" /\ Elsewhere(item, item') /\ UNCHANGED fs
    BY <1>10, JournalEffect DEF JournalComplete, Elsewhere, files
  <2>2. \A i \in Items \ meddled : i = cur => Kept(i)'
    BY <1>k, <1>c, <1>10, <2>1 DEF JournalComplete, Fits, Kept, Promise, Archived
  <2> QED
    BY <1>c, <1>10, <2>1, <2>2, EndTruth DEF JournalComplete
<1> QED
  BY <1>1, <1>2, <1>3, <1>4, <1>5, <1>6, <1>7, <1>8, <1>9, <1>10

(* No step of an item's turn in apply breaks a promise. *)
LEMMA TurnTruth ==
  ASSUME Typed, Control, Truth, Turn
  PROVE  Truth'
  BY StagingTruth, CommitTruth, LifecycleTruth DEF Turn

-----------------------------------------------------------------------------
(* Recovery, the commands and the world.                                   *)

(* A journal entry of the current item after which its turn goes on. *)
LEMMA JournalGotoTruth ==
  ASSUME Truth, ProcessType, UNCHANGED <<policy, sealed, meddled, files>>,
         NEW s, NEW p, Journal(cur, s), Goto(p),
         \A i \in Items \ meddled : i = cur /\ item'[i] = s /\ fs' = fs => Kept(i)' /\ Here(i, p)'
  PROVE  Truth'
<1>1. item'[cur] = s /\ Elsewhere(item, item') /\ UNCHANGED fs
  BY JournalEffect DEF Elsewhere, files
<1> QED
  BY <1>1, GotoTruth DEF Elsewhere

LEMMA RecoverTurnTruth ==
  ASSUME Typed, Control, Truth, RecoverTurn
  PROVE  Truth'
<1> USE DEF Typed
<1>c. /\ cur \in Items /\ pc \in TurnSteps /\ UNCHANGED <<policy, meddled, sealed>>
      /\ UNCHANGED files => UNCHANGED fs
  BY DEF ProcessType, TurnSteps, TurnFrame, files, RecoverTurn, RecoveryPreflight,
         RecoverSettled, RecoverCleaned, RecoverCommitted, RecoverLinked, RecoverUnlinked,
         RecoverStaged, RecoverStaging, RecoverUnstaged, DropStage, RecoverSource,
         RecoverMove, RecoverArchive
<1>k. \A i \in Items \ meddled : i = cur => Kept(i) /\ Here(i, pc) /\ Fits(item[i], pc)
  BY <1>c, CurrentKept
<1>1. CASE RecoveryPreflight
  BY <1>1, <1>c, RaiseTruth, StepTruth DEF RecoveryPreflight, Proceed, Here
<1>2. CASE RecoverSettled
  <2>1. \A i \in Items \ meddled : i = cur => Kept(i)'
    BY <1>k, <1>c, <1>2 DEF RecoverSettled, Kept, Promise, Archived
  <2> QED
    BY <1>2, <1>c, <2>1, EndTruth DEF RecoverSettled, Elsewhere
<1>3. CASE RecoverCleaned
  <2>1. item'[cur] = "complete" /\ Elsewhere(item, item') /\ UNCHANGED fs
    BY <1>3, <1>c, JournalEffect DEF RecoverCleaned, Elsewhere
  <2>2. \A i \in Items \ meddled : i = cur => Kept(i)'
    BY <1>k, <1>c, <1>3, <2>1 DEF RecoverCleaned, Kept, Promise, Archived
  <2> QED
    BY <1>c, <1>3, <2>1, <2>2, EndTruth DEF RecoverCleaned
<1>4. CASE RecoverCommitted
  BY <1>4, <1>c, RaiseTruth, StepTruth DEF RecoverCommitted, Proceed, Here
<1>5. CASE RecoverLinked
  <2>1. CASE GiveUp \/ RaiseFailure \/ (~SourceOK(cur) /\ RaiseStale)
    BY <2>1, <1>c, RaiseTruth
  <2>2. CASE /\ item[cur] = "committing" /\ DestOK(cur) /\ Journal(cur, "committed")
             /\ Goto("drop_own_stage") /\ UNCHANGED files
    <3>1. \A i \in Items \ meddled : i = cur /\ item'[i] = "committed" /\ fs' = fs =>
            Kept(i)' /\ Here(i, "drop_own_stage")'
      BY <1>k, <1>c, <2>2 DEF DestOK, Exists, Kept, Promise, Here
    <3> QED
      BY <1>c, <2>2, <3>1, JournalGotoTruth
  <2> QED
    BY <1>5, <2>1, <2>2 DEF RecoverLinked
<1>6. CASE RecoverUnlinked
  <2>1. CASE GiveUp \/ (~SourceOK(cur) /\ RaiseStale)
    BY <2>1, <1>c, RaiseTruth
  <2>2. CASE Proceed(IF item[cur] = "verified" THEN "recheck" ELSE "link")
    BY <1>6, <1>c, <2>2, StepTruth DEF RecoverUnlinked, Proceed, Here, Exists
  <2> QED
    BY <1>6, <2>1, <2>2 DEF RecoverUnlinked
<1>7. CASE RecoverStaged
  BY <1>7, <1>c, RaiseTruth, StepTruth DEF RecoverStaged, Proceed, Here
<1>8. CASE RecoverStaging
  <2>1. \A i \in Items \ meddled : i = cur /\ item'[i] = "failed" /\ fs' = fs =>
          Kept(i)' /\ Here(i, "recover_item")'
    BY <1>k, <1>c, <1>8 DEF RecoverStaging, Kept, Promise, Here
  <2> QED
    BY <1>8, <1>c, <2>1, JournalGotoTruth DEF RecoverStaging
<1>9. CASE RecoverUnstaged
  BY <1>9, <1>c, RaiseTruth, StepTruth DEF RecoverUnstaged, Proceed, Here
<1>10. CASE DropStage
  <2>1. CASE RaiseFailure
    BY <2>1, <1>c, RaiseTruth
  <2>2. ASSUME Proceed("recover_cleanup") \/ Proceed("lifecycle")
        PROVE  Truth'
    BY <1>c, <2>2, StepTruth DEF Proceed, Here
  <2>3. ASSUME NEW p \in {"recover_cleanup", "lifecycle"},
               WriteDurably(cur, "stage", "none"), Goto(p), UNCHANGED item
        PROVE  Truth'
    <3>1. /\ fs'[cur]["source"] = fs[cur]["source"] /\ fs'[cur]["dest"] = fs[cur]["dest"]
          /\ fs'[cur]["archive"] = fs[cur]["archive"] /\ Elsewhere(fs, fs')
      BY <2>3, <1>c, WriteEffect DEF Elsewhere, Places, Contents
    <3>2. \A i \in Items \ meddled : i = cur => Kept(i)' /\ Here(i, p)'
      BY <1>k, <1>c, <1>10, <2>3, <3>1 DEF DropStage, Fits, Kept, Promise, Archived, Here
    <3> QED
      BY <1>c, <2>3, <3>1, <3>2, GotoTruth DEF Elsewhere
  <2> QED
    BY <1>10, <2>1, <2>2, <2>3 DEF DropStage
<1>11. CASE RecoverSource
  BY <1>11, <1>c, RaiseTruth, StepTruth DEF RecoverSource, Proceed, Here
<1>12. CASE RecoverMove
  <2>1. CASE ~SourceOK(cur) /\ RaiseStale
    BY <2>1, <1>c, RaiseTruth
  <2>2. CASE Proceed("unlink_source")
    BY <1>12, <1>c, <2>2, StepTruth DEF RecoverMove, Proceed, Here, Archived
  <2>3. CASE ~Exists(cur, "source") /\ Proceed("cleaned")
    BY <1>12, <1>c, <2>3, StepTruth DEF RecoverMove, Proceed, Here, Archived, Exists
  <2> QED
    BY <1>12, <2>1, <2>2, <2>3 DEF RecoverMove
<1>13. CASE RecoverArchive
  <2>1. CASE GiveUp \/ (~SourceOK(cur) /\ RaiseStale)
    BY <2>1, <1>c, RaiseTruth
  <2>2. CASE fs[cur]["archive"] = "planned" /\ Proceed("unlink_source")
    BY <1>13, <1>c, <2>2, StepTruth DEF RecoverArchive, Proceed, Here, Archived
  <2>3. CASE Proceed("recopy_archive")
    BY <1>13, <1>c, <2>3, StepTruth DEF RecoverArchive, Proceed, Here, Archived
  <2>4. CASE ~Exists(cur, "source") /\ fs[cur]["archive"] = "planned" /\ Proceed("cleaned")
    BY <1>13, <1>c, <2>4, StepTruth DEF RecoverArchive, Proceed, Here, Archived, Exists
  <2> QED
    BY <1>13, <2>1, <2>2, <2>3, <2>4 DEF RecoverArchive
<1> QED
  BY <1>1, <1>2, <1>3, <1>4, <1>5, <1>6, <1>7, <1>8, <1>9, <1>10, <1>11, <1>12, <1>13
     DEF RecoverTurn

(* A step outside the turns that touches no file and no item. *)
LEMMA AsideTruth ==
  ASSUME Truth, UNCHANGED <<policy, fs, item, sealed, meddled>>,
         pc' \notin TurnSteps \/ pc' \in {"begin", "recovery_preflight"}
  PROVE  Truth'
<1>1. \A i \in Items \ meddled' : Kept(i)'
  BY DEF Truth, Kept, Promise, Archived
<1>2. pc' \in TurnSteps /\ cur' \notin meddled' => Here(cur, pc)'
  BY DEF Here
<1> QED
  BY <1>1, <1>2 DEF Truth

LEMMA HeadTruth ==
  ASSUME Typed, Control, Truth, Head
  PROVE  Truth'
<1> USE DEF Typed
<1>0. {"preflight", "space", "mark_stale", "mark_ok", "start_run", "idle", "fail_run"}
        \cap TurnSteps = {}
  BY DEF TurnSteps
<1>1. CASE Preflight
  BY <1>0, <1>1, AsideTruth DEF Preflight, NextItem, journal, files
<1>2. CASE CheckSpace
  BY <1>0, <1>2, AsideTruth DEF CheckSpace, journal, files
<1>3. CASE MarkStale
  <2>1. item[cur] = "pending" /\ pc' \notin TurnSteps
    BY <1>0, <1>3, PlanAssumption DEF MarkStale, NextItem, Control, ProcessType, Items
  <2>2. \A i \in Items : item'[i] = item[i] \/ (item[i] = "pending" /\ item'[i] = "stale")
    BY <1>3, <2>1 DEF MarkStale, ProcessType
  <2>3. \A i \in Items \ meddled' : Kept(i)'
    BY <1>3, <2>2 DEF MarkStale, TurnFrame, files, Truth, Kept, Promise, Archived
  <2> QED
    BY <2>1, <2>3 DEF Truth
<1>4. CASE FailRun
  BY <1>0, <1>4, AsideTruth DEF FailRun, Release, files, world
<1>5. CASE MarkOK
  <2>1. item[cur] = "pending" /\ pc' \notin TurnSteps
    BY <1>0, <1>5, PlanAssumption DEF MarkOK, NextItem, Control, ProcessType, Items
  <2>2. \A i \in Items : item'[i] = item[i] \/ (item[i] = "pending" /\ item'[i] = "preflight_ok")
    BY <1>5, <2>1, JournalEffect DEF MarkOK
  <2>3. \A i \in Items \ meddled' : Kept(i)'
    BY <1>5, <2>2 DEF MarkOK, TurnFrame, files, Truth, Kept, Promise, Archived
  <2> QED
    BY <2>1, <2>3 DEF Truth
<1>6. CASE StartRun
  BY <1>6, AsideTruth DEF StartRun, Goto, files, world
<1> QED
  BY <1>1, <1>2, <1>3, <1>4, <1>5, <1>6 DEF Head

LEMMA AroundTruth ==
  ASSUME Typed, Control, Truth, Tail \/ Commands \/ Kill
  PROVE  Truth'
<1>0. {"preflight", "idle", "report", "close_run"} \cap TurnSteps = {}
  BY DEF TurnSteps
<1>1. CASE Tail
  BY <1>0, <1>1, AsideTruth
     DEF Tail, Finalize, WriteReport, CloseRun, Goto, Release, files, world
<1>2. CASE StartApply \/ StartRecover \/ Abandon
  BY <1>0, <1>2, AsideTruth DEF StartApply, StartRecover, Abandon, files, world
<1>3. CASE Backfill
  BY <1>3 DEF Backfill, files, process, world, Truth, Kept, Promise, Archived, Here
<1>4. CASE Kill
  BY <1>0, <1>4, AsideTruth DEF Kill, Release, journal, files
<1> QED
  BY <1>1, <1>2, <1>3, <1>4 DEF Commands

LEMMA MeddlingTruth ==
  ASSUME Typed, Truth, Meddling
  PROVE  Truth'
<1> USE DEF Typed
<1>1. ASSUME NEW j \in Items, NEW p \in Places, NEW c \in Contents, Meddle(j, p, c)
      PROVE  Truth'
  <2>1. /\ meddled' = meddled \cup {j} /\ UNCHANGED <<policy, sealed, item, pc, cur>>
        /\ \A i \in Items \ {j} : fs'[i] = fs[i]
    BY <1>1, WriteEffect DEF Meddle, journal, process
  <2>2. \A i \in Items \ meddled' : Kept(i)'
    BY <2>1 DEF Truth, Kept, Promise, Archived
  <2>3. pc' \in TurnSteps /\ cur' \notin meddled' => Here(cur, pc)'
    <3>1. cur' \notin meddled' => fs'[cur'] = fs[cur]
      BY <2>1 DEF ProcessType
    <3> QED
      BY <2>1, <3>1 DEF Truth, Here, Archived
  <2> QED
    BY <2>2, <2>3 DEF Truth
<1>2. CASE InvalidatePlan
  BY <1>2 DEF InvalidatePlan, files, process, Truth, Kept, Promise, Archived, Here
<1>3. CASE \E i \in Items : \/ EditSource(i) \/ RemoveSource(i) \/ RestoreSource(i)
                           \/ ReplaceDest(i) \/ ReplaceArchive(i) \/ LoseStage(i)
  BY <1>1, <1>3 DEF EditSource, RemoveSource, RestoreSource, ReplaceDest, ReplaceArchive,
                    LoseStage, Places, Contents
<1> QED
  BY <1>2, <1>3 DEF Meddling

LEMMA InitTruth == Init => Truth
  BY DEF Init, Truth, Kept, Promise, Here, TurnSteps, Places

(* No step but a power loss breaks a promise. *)
LEMMA StepsTruth ==
  ASSUME Typed, Control, Truth, [Next]_vars, ~PowerLoss
  PROVE  Truth'
<1>1. CASE UNCHANGED vars
  BY <1>1 DEF vars, Truth, Kept, Promise, Archived, Here
<1>2. CASE StepFails
  BY <1>2, RaiseTruth DEF StepFails, Typed, FallibleSteps, TurnSteps
<1> QED
  BY <1>1, <1>2, HeadTruth, TurnTruth, RecoverTurnTruth, AroundTruth, MeddlingTruth
     DEF Next, Progress

LEMMA NextTruth ==
  MaxPowerLosses = 0 /\ Typed /\ Control /\ Truth /\ [Next]_vars => Truth'
<1> SUFFICES ASSUME MaxPowerLosses = 0, Typed, Control, Truth, [Next]_vars PROVE Truth'
  OBVIOUS
<1>1. ~PowerLoss
  BY DEF PowerLoss, Typed, RecordsType
<1> QED
  BY <1>1, StepsTruth

(* Without power losses, and for any number of process deaths, failing     *)
(* operations and changes by others: the journalled state of every item    *)
(* whose files nobody else touched says no more than its files hold.       *)
THEOREM JournalTruthHolds ==
  ASSUME MaxPowerLosses = 0
  PROVE  Spec => []JournalTruth
<1>1. Truth => JournalTruth
  BY DEF Truth, Kept, JournalTruth
<1> QED
  BY <1>1, InitTypes, NextTypes, InitControl, NextControl, InitTruth, NextTruth, PTL DEF Spec

-----------------------------------------------------------------------------
(* A run closed as FAILED.  A closed run is left alone until recover opens *)
(* it again, and at every step that may close one, no item is in a state   *)
(* that has published something: a turn leaves nothing half staged and     *)
(* nothing CLEANED behind.                                                 *)

Turned ==
  {"complete", "recovery_required", "failed", "stale", "committing", "committed",
   "cleanup_pending"}

Clean(i) == item[i] = "complete" \/ (fs[i]["source"] = "planned" /\ fs[i]["dest"] = "none")

Closing ==
  /\ run = "failed" =>
       pc \in {"idle", "close_run"} /\ \A i \in Items \ meddled : Clean(i)
  /\ pc = "mark_stale" => \A i \in 1..(cur - 1) : item[i] \in {"pending", "stale"}
  /\ pc = "fail_run" => \A i \in Items : item[i] \in {"pending", "stale"}
  /\ pc = "close_run" => \A i \in Items : item[i] \in SafeToAbandon
  /\ pc \in TurnSteps => \A i \in 1..(cur - 1) : item[i] \in Turned
  /\ pc = "finalize" => \A i \in Items : item[i] \in Turned

(* What every step of a turn comes down to. *)
TurnShape ==
  /\ pc \in TurnSteps /\ UNCHANGED run /\ Elsewhere(item, item')
  /\ \/ EndTurn /\ item'[cur] \in Turned
     \/ \E p \in TurnSteps : Goto(p)

(* A refused step ends the turn, in a state that a turn may leave behind. *)
LEMMA RaiseShape ==
  ASSUME ProcessType, pc \in TurnSteps, UNCHANGED run,
         RaiseCollision \/ RaiseStale \/ RaiseFailure \/ GiveUp
  PROVE  TurnShape
<1>1. PICK s : Journal(cur, s) /\ EndTurn /\ s \in Turned
  <2>1. /\ AfterCollision(item[cur]) \in Turned /\ AfterStale(item[cur]) \in Turned
        /\ AfterFailure(item[cur]) \in Turned
    BY DEF AfterCollision, AfterStale, AfterFailure, Turned, ProcessType, ItemStates
  <2> QED
    BY <2>1 DEF RaiseCollision, RaiseStale, RaiseFailure, GiveUp, Turned
<1> QED
  BY <1>1, JournalEffect DEF TurnShape, Elsewhere

(* A step that goes on. *)
LEMMA GotoShape ==
  ASSUME ProcessType, pc \in TurnSteps, UNCHANGED run, NEW p \in TurnSteps, Goto(p),
         UNCHANGED item \/ \E s \in ItemStates : Journal(cur, s)
  PROVE  TurnShape
  BY JournalEffect DEF TurnShape, Elsewhere

LEMMA TurnsShape ==
  ASSUME Typed, Turn
  PROVE  TurnShape
<1> USE RaiseShape, GotoShape DEF Typed, TurnSteps, ItemStates, TurnFrame
<1>1. CASE BeginStaging \/ WriteStage \/ JournalStaged \/ VerifyStage \/ SealStage
  BY <1>1 DEF BeginStaging, WriteStage, JournalStaged, VerifyStage, SealStage
<1>2. CASE IntendCommit \/ Link \/ SyncDest \/ Unstage \/ CheckDest
  BY <1>2 DEF IntendCommit, Link, SyncDest, Unstage, CheckDest
<1>3. CASE RecheckSource \/ CopyArchive \/ LinkArchive \/ SyncArchive
  BY <1>3 DEF RecheckSource, CopyArchive, LinkArchive, SyncArchive, Proceed
<1>4. CASE CheckArchive \/ UnlinkSource \/ SyncSource \/ JournalCleaned
  BY <1>4 DEF CheckArchive, UnlinkSource, SyncSource, JournalCleaned, Proceed
<1>5. CASE BeginLifecycle \/ JournalComplete
  BY <1>5, JournalEffect DEF BeginLifecycle, JournalComplete, TurnShape, Turned, Elsewhere
<1> QED
  BY <1>1, <1>2, <1>3, <1>4, <1>5 DEF Turn

LEMMA RecoverTurnsShape ==
  ASSUME Typed, RecoverTurn
  PROVE  TurnShape
<1> USE RaiseShape, GotoShape DEF Typed, TurnSteps, ItemStates, TurnFrame
<1>1. CASE RecoveryPreflight \/ RecoverCommitted \/ RecoverLinked \/ RecoverUnlinked
  BY <1>1 DEF RecoveryPreflight, RecoverCommitted, RecoverLinked, RecoverUnlinked, Proceed
<1>2. CASE RecoverSettled \/ RecoverCleaned
  BY <1>2, JournalEffect DEF RecoverSettled, RecoverCleaned, TurnShape, Turned, Elsewhere
<1>3. CASE RecoverStaged \/ RecoverStaging \/ RecoverUnstaged
  BY <1>3 DEF RecoverStaged, RecoverStaging, RecoverUnstaged, Proceed
<1>4. CASE DropStage
  BY <1>4 DEF DropStage, Proceed
<1>5. CASE RecoverSource \/ RecoverMove \/ RecoverArchive
  BY <1>5 DEF RecoverSource, RecoverMove, RecoverArchive, Proceed
<1> QED
  BY <1>1, <1>2, <1>3, <1>4, <1>5 DEF RecoverTurn

LEMMA TurnClosing ==
  ASSUME Typed, Closing, TurnShape
  PROVE  Closing'
<1>c. /\ cur \in Nat /\ N \in Nat /\ 1 <= cur /\ cur <= N /\ Items = 1..N
      /\ run' # "failed"
      /\ \A i \in 1..(cur - 1) : item'[i] \in Turned
  <2>1. cur \in Nat /\ N \in Nat /\ 1 <= cur /\ cur <= N /\ Items = 1..N
    BY PlanAssumption DEF Typed, ProcessType, Items
  <2>2. run' # "failed"
    BY DEF TurnShape, Closing, TurnSteps
  <2>3. \A i \in 1..(cur - 1) : i \in Items \ {cur} /\ item[i] \in Turned
    BY <2>1 DEF TurnShape, Closing
  <2> QED
    BY <2>1, <2>2, <2>3 DEF TurnShape, Elsewhere
<1>1. CASE \E p \in TurnSteps : Goto(p)
  BY <1>1, <1>c DEF Goto, Closing, TurnSteps
<1>2. CASE EndTurn /\ item'[cur] \in Turned
  <2>1. \A i \in 1..cur : item'[i] \in Turned
    <3>1. \A i \in 1..cur : i = cur \/ i \in 1..(cur - 1)
      BY <1>c
    <3> QED
      BY <3>1, <1>c, <1>2
  <2>2. CASE cur < N
    <3>1. cur' - 1 = cur /\ pc' \in {"begin", "recovery_preflight"}
      BY <1>2, <2>2, <1>c DEF EndTurn, NextItem, TurnStart
    <3> QED
      BY <3>1, <2>1, <1>c DEF Closing, TurnSteps
  <2>3. CASE ~(cur < N)
    <3>1. cur = N /\ pc' = "finalize"
      BY <1>2, <2>3, <1>c DEF EndTurn, NextItem
    <3> QED
      BY <3>1, <2>1, <1>c DEF Closing, TurnSteps
  <2> QED
    BY <2>2, <2>3
<1> QED
  BY <1>1, <1>2 DEF TurnShape

(* A step that holds the lock and leaves the run other than FAILED. *)
LEMMA OpenClosing ==
  ASSUME run' # "failed",
         pc' \in {"idle", "preflight", "space", "mark_ok", "start_run", "report"}
  PROVE  Closing'
  BY DEF Closing, TurnSteps

LEMMA HeadClosing ==
  ASSUME Typed, Control, Truth, Closing, Head
  PROVE  Closing'
<1>c. cur \in Nat /\ N \in Nat /\ 1 <= cur /\ cur <= N /\ Items = 1..N
  BY PlanAssumption DEF Typed, ProcessType, Items
<1>r. pc # "idle" /\ pc # "close_run" => run # "failed"
  BY DEF Closing
<1>1. CASE Preflight
  BY <1>1, <1>r, OpenClosing DEF Preflight, NextItem, journal
<1>2. CASE CheckSpace
  <2>1. pc' \in {"mark_ok", "mark_stale"} /\ cur' = 1 /\ run' # "failed"
    BY <1>2, <1>r DEF CheckSpace, journal, Control
  <2> QED
    BY <2>1 DEF Closing, TurnSteps
<1>3. CASE MarkStale
  <2>1. /\ item[cur] = "pending" /\ run' # "failed"
        /\ \A i \in 1..(cur - 1) : item[i] \in {"pending", "stale"}
    BY <1>3, <1>c, <1>r DEF MarkStale, TurnFrame, Control, Closing
  <2>2. \A i \in 1..cur : item'[i] \in {"pending", "stale"}
    <3>1. \A i \in 1..cur : i \in Items /\ (i = cur \/ i \in 1..(cur - 1))
      BY <1>c
    <3> QED
      BY <1>3, <2>1, <3>1 DEF MarkStale, Typed, ProcessType
  <2>3. CASE cur < N
    <3>1. cur' - 1 = cur /\ pc' = "mark_stale"
      BY <1>3, <2>3, <1>c DEF MarkStale, NextItem
    <3> QED
      BY <3>1, <2>1, <2>2 DEF Closing, TurnSteps
  <2>4. CASE ~(cur < N)
    <3>1. cur = N /\ pc' = "fail_run"
      BY <1>3, <2>4, <1>c DEF MarkStale, NextItem
    <3> QED
      BY <3>1, <2>1, <2>2, <1>c DEF Closing, TurnSteps
  <2> QED
    BY <2>3, <2>4
<1>4. CASE FailRun
  <2>1. \A i \in Items \ meddled : Clean(i)
    BY <1>4 DEF FailRun, Closing, Truth, Kept, Promise, Clean
  <2> QED
    BY <1>4, <2>1 DEF FailRun, Release, files, world, Closing, Clean, TurnSteps
<1>5. CASE MarkOK
  BY <1>5, <1>r, OpenClosing DEF MarkOK, NextItem, TurnFrame
<1>6. CASE StartRun
  <2>1. pc' = "begin" /\ cur' = 1 /\ run' # "failed"
    BY <1>6 DEF StartRun, Goto, Control
  <2> QED
    BY <2>1 DEF Closing, TurnSteps
<1> QED
  BY <1>1, <1>2, <1>3, <1>4, <1>5, <1>6 DEF Head

(* What _finalize calls FAILED has published nothing but complete items. *)
LEMMA FinalizeClosing ==
  ASSUME Typed, Truth, Closing, Finalize
  PROVE  Closing'
<1>1. CASE FinalState # "failed"
  BY <1>1, OpenClosing DEF Finalize, Goto, Release
<1>2. CASE FinalState = "failed"
  <2>1. \A i \in Items \ meddled : Clean(i)
    <3>1. ASSUME NEW i \in Items \ meddled PROVE Clean(i)
      <4>1. /\ item[i] \in ItemStates /\ item[i] # "cleaned"
            /\ item[i] \notin {"recovery_required", "failed", "committing", "committed",
                              "cleanup_pending"}
        BY <1>2 DEF FinalState, Finalize, Closing, Turned, Typed, ProcessType
      <4> QED
        BY <3>1, <4>1 DEF Truth, Kept, Promise, Clean, ItemStates
    <3> QED
      BY <3>1
  <2> QED
    BY <1>2, <2>1 DEF Finalize, Release, files, world, Closing, Clean, TurnSteps
<1> QED
  BY <1>1, <1>2

LEMMA AroundClosing ==
  ASSUME Typed, Control, Truth, Closing, WriteReport \/ CloseRun \/ Commands \/ Kill
  PROVE  Closing'
<1>1. CASE WriteReport
  BY <1>1, OpenClosing DEF WriteReport, Release, Closing
<1>2. CASE CloseRun
  <2>1. \A i \in Items \ meddled : Clean(i)
    BY <1>2 DEF CloseRun, Closing, SafeToAbandon, Truth, Kept, Promise, Clean
  <2> QED
    BY <1>2, <2>1 DEF CloseRun, Release, files, world, Closing, Clean, TurnSteps
<1>3. CASE StartApply
  BY <1>3, OpenClosing DEF StartApply
<1>4. CASE StartRecover
  BY <1>4 DEF StartRecover, Closing, TurnSteps
<1>5. CASE Abandon
  BY <1>5 DEF Abandon, files, world, Closing, Clean, TurnSteps
<1>6. CASE Backfill
  BY <1>6 DEF Backfill, files, process, world, Closing, Clean
<1>7. CASE Kill
  BY <1>7 DEF Kill, Release, journal, files, Closing, Clean, TurnSteps
<1> QED
  BY <1>1, <1>2, <1>3, <1>4, <1>5, <1>6, <1>7 DEF Commands

LEMMA MeddlingClosing ==
  ASSUME Typed, Closing, Meddling
  PROVE  Closing'
<1> USE DEF Typed
<1>1. ASSUME NEW j \in Items, NEW p \in Places, NEW c \in Contents, Meddle(j, p, c)
      PROVE  Closing'
  <2>1. /\ meddled' = meddled \cup {j} /\ UNCHANGED <<run, item, pc, cur>>
        /\ \A i \in Items \ {j} : fs'[i] = fs[i]
    BY <1>1, WriteEffect DEF Meddle, journal, process
  <2> QED
    BY <2>1 DEF Closing, Clean
<1>2. CASE InvalidatePlan
  BY <1>2 DEF InvalidatePlan, files, process, Closing, Clean
<1>3. CASE \E i \in Items : \/ EditSource(i) \/ RemoveSource(i) \/ RestoreSource(i)
                           \/ ReplaceDest(i) \/ ReplaceArchive(i) \/ LoseStage(i)
  BY <1>1, <1>3 DEF EditSource, RemoveSource, RestoreSource, ReplaceDest, ReplaceArchive,
                    LoseStage, Places, Contents
<1> QED
  BY <1>2, <1>3 DEF Meddling

LEMMA InitClosing == Init => Closing
  BY DEF Init, Closing, TurnSteps

LEMMA StepsClosing ==
  ASSUME Typed, Control, Truth, Closing, [Next]_vars, ~PowerLoss
  PROVE  Closing'
<1>1. CASE UNCHANGED vars
  BY <1>1 DEF vars, Closing, Clean
<1>2. CASE StepFails
  <2>1. TurnShape
    BY <1>2, RaiseShape DEF StepFails, Typed, FallibleSteps, TurnSteps
  <2> QED
    BY <2>1, TurnClosing
<1>3. CASE Turn \/ RecoverTurn
  BY <1>3, TurnsShape, RecoverTurnsShape, TurnClosing
<1> QED
  BY <1>1, <1>2, <1>3, HeadClosing, FinalizeClosing, AroundClosing, MeddlingClosing
     DEF Next, Progress, Tail

LEMMA NextClosing ==
  MaxPowerLosses = 0 /\ Typed /\ Control /\ Truth /\ Closing /\ [Next]_vars => Closing'
<1> SUFFICES ASSUME MaxPowerLosses = 0, Typed, Control, Truth, Closing, [Next]_vars
             PROVE  Closing'
  OBVIOUS
<1>1. ~PowerLoss
  BY DEF PowerLoss, Typed, RecordsType
<1> QED
  BY <1>1, StepsClosing

(* Without power losses, and for any number of process deaths, failing     *)
(* operations and changes by others: a run closed as FAILED, by preflight, *)
(* _finalize or abandon, has left every item nobody else touched complete  *)
(* or as it found it.                                                      *)
THEOREM FailedRunsAreClean ==
  ASSUME MaxPowerLosses = 0
  PROVE  Spec => []FailedRunClean
<1>1. Closing => FailedRunClean
  BY DEF Closing, Clean, FailedRunClean
<1> QED
  BY <1>1, InitTypes, NextTypes, InitControl, NextControl, InitTruth, NextTruth, InitClosing,
     NextClosing, PTL DEF Spec

-----------------------------------------------------------------------------
(* Files of others.  Every change of a file by the engine is either at the *)
(* source or staging path, or fills a path that was empty.                 *)

Fills ==
  \A i \in Items, p \in {"dest", "archive"} :
    fs[i][p] \in {"copy", "foreign"} => fs'[i][p] = fs[i][p]

LEMMA UnchangedFills ==
  ASSUME UNCHANGED fs
  PROVE  Fills
  BY DEF Fills

LEMMA WriteFills ==
  ASSUME FilesType, NEW i \in Items, NEW p \in Places, NEW c \in Contents,
         Write(i, p, c) \/ WriteDurably(i, p, c),
         p \in {"source", "stage"} \/ ~Exists(i, p)
  PROVE  Fills
  BY WriteEffect DEF Fills, Exists, Places

LEMMA TurnFills ==
  ASSUME Typed, Turn \/ RecoverTurn
  PROVE  Fills
<1> USE DEF Typed
<1>c. cur \in Items
  BY DEF ProcessType
<1>r. RaiseStale \/ RaiseFailure \/ RaiseCollision \/ GiveUp => Fills
  BY UnchangedFills DEF RaiseStale, RaiseFailure, RaiseCollision, GiveUp, files
<1>p. \A p : Proceed(p) => Fills
  BY UnchangedFills DEF Proceed, files
<1>u. UNCHANGED files => Fills
  BY UnchangedFills DEF files
<1>s. \A p \in Places : Sync(cur, p) => Fills
  BY UnchangedFills DEF Sync
<1>w. \A p \in Places, c \in Contents :
        /\ Write(cur, p, c) \/ WriteDurably(cur, p, c)
        /\ p \in {"source", "stage"} \/ ~Exists(cur, p)
        => Fills
  BY <1>c, WriteFills
<1>1. CASE BeginStaging \/ WriteStage \/ JournalStaged \/ VerifyStage \/ SealStage
  <2>1. (IF SourceOK(cur) THEN "output" ELSE "tainted") \in Contents
    BY DEF Contents
  <2> QED
    BY <1>1, <1>r, <1>u, <1>s, <1>w, <2>1
       DEF BeginStaging, WriteStage, JournalStaged, VerifyStage, SealStage, Places, Contents
<1>2. CASE IntendCommit \/ Link \/ SyncDest \/ Unstage \/ CheckDest
  <2>1. fs[cur]["stage"] \in Contents
    BY <1>c DEF FilesType, Tree, Places
  <2> QED
    BY <1>2, <1>r, <1>u, <1>s, <1>w, <2>1
       DEF IntendCommit, Link, SyncDest, Unstage, CheckDest, Places, Contents
<1>3. CASE BeginLifecycle \/ RecheckSource \/ CopyArchive \/ CheckArchive \/ SyncSource
           \/ JournalCleaned \/ JournalComplete
  BY <1>3, <1>r, <1>p, <1>u, <1>s
     DEF BeginLifecycle, RecheckSource, CopyArchive, CheckArchive, SyncSource, JournalCleaned,
         JournalComplete, Places
<1>4. CASE LinkArchive \/ SyncArchive \/ UnlinkSource
  BY <1>4, <1>r, <1>s, <1>w DEF LinkArchive, SyncArchive, UnlinkSource, Places, Contents
<1>5. CASE RecoverTurn
  BY <1>5, <1>r, <1>p, <1>u, <1>w
     DEF RecoverTurn, RecoveryPreflight, RecoverSettled, RecoverCleaned, RecoverCommitted,
         RecoverLinked, RecoverUnlinked, RecoverStaged, RecoverStaging, RecoverUnstaged,
         DropStage, RecoverSource, RecoverMove, RecoverArchive, Places, Contents
<1> QED
  BY <1>1, <1>2, <1>3, <1>4, <1>5 DEF Turn

LEMMA NextFills == Typed /\ [Next]_vars /\ spent' = spent => Fills
<1> SUFFICES ASSUME Typed, [Next]_vars, spent' = spent PROVE Fills
  OBVIOUS
<1>1. CASE UNCHANGED vars
  BY <1>1, UnchangedFills DEF vars
<1>2. CASE Head \/ Tail
  BY <1>2, UnchangedFills
     DEF Head, Tail, Preflight, CheckSpace, MarkStale, FailRun, MarkOK, StartRun, Finalize,
         WriteReport, CloseRun, files
<1>3. CASE Commands
  BY <1>3, UnchangedFills DEF Commands, StartApply, StartRecover, Abandon, Backfill, files
<1>4. ASSUME NEW b \in {"kill", "loss", "fault", "meddle"},
             spent' = [spent EXCEPT ![b] = @ + 1]
      PROVE  FALSE
  <2>1. spent[b] \in Nat /\ spent'[b] = spent[b] + 1
    BY <1>4 DEF Typed, RecordsType
  <2> QED
    BY <2>1
<1>5. ~(StepFails \/ Kill \/ PowerLoss \/ Meddling)
  BY <1>4 DEF StepFails, SpendFault, Kill, PowerLoss, Meddling, InvalidatePlan, Meddle,
              EditSource, RemoveSource, RestoreSource, ReplaceDest, ReplaceArchive, LoseStage
<1> QED
  BY <1>1, <1>2, <1>3, <1>5, TurnFills DEF Next, Progress

(* No step of apply, recover, abandon or backfill changes or removes a     *)
(* destination or an archive that somebody else put there, whatever        *)
(* crashed or failed before (LinuxFilesystem.commit never replaces).       *)
THEOREM ForeignFilesKept == Spec => ForeignKept
<1>1. Typed /\ [Next]_vars =>
        [\A i \in Items, p \in {"dest", "archive"} :
           fs[i][p] \in {"copy", "foreign"} /\ spent' = spent => fs'[i][p] = fs[i][p]]_vars
  BY NextFills DEF Fills
<1> QED
  BY <1>1, InitTypes, NextTypes, PTL DEF Spec, ForeignKept

-----------------------------------------------------------------------------
(* Power losses.  The files processes see run ahead of the disk only       *)
(* between a change of a directory and the fsync that follows it, so a     *)
(* power loss breaks no promise, provided nothing else stops the engine    *)
(* there: recovery takes what it finds for durable and repeats no fsync.   *)

(* The steps with a change of a directory not yet on disk. *)
Barriers == {"sync_dest", "sync_archive", "resync_archive", "sync_source"}

(* A process death or a failing operation does not hit those steps. *)
BarriersReached == pc \in Barriers => ~Kill /\ ~StepFails

(* The disk holds what processes see, or the turn is at one of the steps   *)
(* at and the disk still holds what was there before.                      *)
Lagging(i, p, at, before) ==
  disk[i][p] = fs[i][p] \/ (cur = i /\ pc \in at /\ disk[i][p] = before)

Barred(i) ==
  /\ Lagging(i, "source", {"sync_source"}, "planned")
  /\ Lagging(i, "dest", {"sync_dest"}, "none")
  /\ Lagging(i, "archive", {"sync_archive", "resync_archive"}, "none")
  /\ item[i] = "staged" \/ (cur = i /\ pc \in {"write", "staged"}) =>
       disk[i]["stage"] \in {"output", "torn", "none"}
  /\ item[i] \in {"verified", "committing"} \/ (cur = i /\ pc = "seal") =>
       disk[i]["stage"] = fs[i]["stage"]

Durable == \A i \in Items \ meddled : Barred(i)

(* The disk has every published, archived and removed file of item i. *)
Synced(i) == \A p \in {"source", "dest", "archive"} : disk[i][p] = fs[i][p]

(* Away from the barriers everything is on disk. *)
LEMMA SyncedAway ==
  ASSUME Durable, NEW i \in Items \ meddled, i = cur => pc \notin Barriers
  PROVE  Synced(i)
  BY DEF Durable, Barred, Lagging, Synced, Barriers

LEMMA OthersBarred ==
  ASSUME Durable, UNCHANGED meddled, Elsewhere(fs, fs'), Elsewhere(disk, disk'),
         Elsewhere(item, item'), pc' \in {"seal", "write", "staged"} => cur' = cur
  PROVE  \A i \in Items \ (meddled \cup {cur}) : Barred(i)'
  BY DEF Durable, Barred, Lagging, Elsewhere

(* A step that touches no file: it must not leave a barrier behind, nor    *)
(* call staged or verified what the disk may not hold.                     *)
LEMMA FilesKeptBarred ==
  ASSUME Durable, ProcessType, UNCHANGED <<meddled, files>>, Elsewhere(item, item'),
         pc' \notin {"seal", "write", "staged"},
         \A i \in Items \ meddled : i = cur =>
           /\ Synced(i)
           /\ item'[i] = "staged" => item[i] = "staged" \/ pc = "staged"
           /\ item'[i] \in {"verified", "committing"} =>
                item[i] \in {"verified", "committing"} \/ pc = "seal"
  PROVE  Durable'
<1>1. UNCHANGED <<fs, disk>>
  BY DEF files
<1>2. \A i \in Items \ (meddled \cup {cur}) : Barred(i)'
  BY <1>1, OthersBarred DEF Elsewhere
<1>3. ASSUME NEW i \in Items \ meddled, i = cur PROVE Barred(i)'
  BY <1>1, <1>3 DEF Durable, Barred, Lagging, Synced
<1> QED
  BY <1>2, <1>3 DEF Durable

(* A step that changes a file of the current item and goes on. *)
LEMMA FileChangedBarred ==
  ASSUME Durable, ProcessType, UNCHANGED <<meddled, item>> \/ Journal(cur, "staging"),
         UNCHANGED meddled, NEW p, Goto(p),
         Elsewhere(fs, fs'), Elsewhere(disk, disk'),
         \A i \in Items \ meddled : i = cur /\ cur' = cur /\ pc' = p => Barred(i)'
  PROVE  Durable'
<1>1. cur' = cur /\ pc' = p
  BY DEF Goto
<1>2. Elsewhere(item, item')
  BY JournalEffect DEF Elsewhere
<1>3. \A i \in Items \ (meddled \cup {cur}) : Barred(i)'
  BY <1>1, <1>2, OthersBarred
<1> QED
  BY <1>1, <1>3 DEF Durable

(* What a step does to the disk. *)
LEMMA DiskEffect ==
  ASSUME FilesType, NEW i \in Items, NEW p \in Places, NEW c \in Contents,
         WriteDurably(i, p, c)
  PROVE  /\ disk'[i][p] = c
         /\ \A q \in Places \ {p} : disk'[i][q] = disk[i][q]
         /\ \A j \in Items \ {i} : disk'[j] = disk[j]
  BY PutValue DEF WriteDurably, FilesType

LEMMA SyncEffect ==
  ASSUME FilesType, NEW i \in Items, NEW p \in Places, Sync(i, p)
  PROVE  /\ UNCHANGED fs
         /\ disk'[i][p] = fs[i][p]
         /\ \A q \in Places \ {p} : disk'[i][q] = disk[i][q]
         /\ \A j \in Items \ {i} : disk'[j] = disk[j]
<1>1. fs[i][p] \in Contents
  BY DEF FilesType, Tree
<1> QED
  BY <1>1, PutValue DEF Sync, FilesType

(* A refused step away from the barriers, or at one with nothing to sync.  *)
LEMMA RaiseBarred ==
  ASSUME Durable, ProcessType, UNCHANGED meddled,
         RaiseCollision \/ RaiseStale \/ RaiseFailure \/ GiveUp,
         \A i \in Items \ meddled : i = cur => Synced(i)
  PROVE  Durable'
<1>1. PICK s : /\ Journal(cur, s) /\ EndTurn /\ UNCHANGED files
               /\ s \in {"staged", "verified", "committing"} => s = item[cur]
  BY DEF RaiseCollision, RaiseStale, RaiseFailure, GiveUp, AfterCollision, AfterStale,
         AfterFailure
<1>2. pc' \in {"begin", "recovery_preflight", "finalize"}
  BY <1>1 DEF EndTurn, NextItem, TurnStart
<1>3. item'[cur] = s /\ Elsewhere(item, item')
  BY <1>1, JournalEffect DEF Elsewhere
<1> QED
  BY <1>1, <1>2, <1>3, FilesKeptBarred

(* The steps of a turn that change or sync a file. *)
LEMMA StageBarred ==
  ASSUME Typed, Control, Truth, Durable,
         BeginStaging \/ WriteStage \/ VerifyStage \/ Unstage \/ DropStage
  PROVE  Durable'
<1> USE DEF Typed
<1>c. /\ cur \in Items /\ pc \in TurnSteps \ Barriers /\ UNCHANGED meddled
      /\ {"stage", "source", "dest", "archive"} = Places
  BY DEF ProcessType, TurnSteps, TurnFrame, BeginStaging, WriteStage, VerifyStage, Unstage,
         DropStage, Barriers, Places
<1>k. \A i \in Items \ meddled : i = cur =>
        Kept(i) /\ Here(i, pc) /\ Fits(item[i], pc) /\ Synced(i) /\ Barred(i)
  BY <1>c, CurrentKept, SyncedAway DEF Durable
<1>r. RaiseStale \/ RaiseFailure => Durable'
  BY <1>c, <1>k, RaiseBarred
<1>d. ASSUME WriteDurably(cur, "stage", "none")
      PROVE  /\ Elsewhere(fs, fs') /\ Elsewhere(disk, disk')
             /\ fs'[cur]["stage"] = "none" /\ disk'[cur]["stage"] = "none"
             /\ \A q \in {"source", "dest", "archive"} :
                  fs'[cur][q] = fs[cur][q] /\ disk'[cur][q] = disk[cur][q]
  BY <1>d, <1>c, WriteEffect, DiskEffect DEF Elsewhere, Places, Contents
<1>1. CASE BeginStaging
  <2>1. CASE /\ Journal(cur, "staging") /\ WriteDurably(cur, "stage", "none")
             /\ Goto("write")
    <3>1. item'[cur] = "staging"
      BY <2>1, JournalEffect
    <3>2. \A i \in Items \ meddled : i = cur /\ cur' = cur /\ pc' = "write" => Barred(i)'
      BY <1>k, <1>d, <2>1, <3>1 DEF Barred, Lagging, Synced
    <3> QED
      BY <1>c, <1>d, <2>1, <3>2, FileChangedBarred
  <2> QED
    BY <1>1, <1>r, <2>1 DEF BeginStaging
<1>2. CASE WriteStage
  <2>1. CASE /\ Write(cur, "stage", IF SourceOK(cur) THEN "output" ELSE "tainted")
             /\ Goto("staged") /\ UNCHANGED item
    <3>1. (IF SourceOK(cur) THEN "output" ELSE "tainted") \in Contents
      BY DEF Contents
    <3>2. /\ Elsewhere(fs, fs') /\ UNCHANGED disk
          /\ \A q \in {"source", "dest", "archive"} : fs'[cur][q] = fs[cur][q]
      BY <2>1, <3>1, <1>c, WriteEffect DEF Elsewhere, Places, Write
    <3>3. \A i \in Items \ meddled : i = cur /\ cur' = cur /\ pc' = "staged" => Barred(i)'
      BY <1>k, <1>2, <2>1, <3>2 DEF WriteStage, Fits, Barred, Lagging, Synced
    <3> QED
      BY <1>c, <2>1, <3>2, <3>3, FileChangedBarred DEF Elsewhere
  <2> QED
    BY <1>2, <1>r, <2>1 DEF WriteStage
<1>3. CASE VerifyStage
  <2>1. ASSUME TRUE \in VerifyOutcomes(cur, fs[cur]["stage"]), Sync(cur, "stage"),
               Goto("seal"), UNCHANGED item
        PROVE  Durable'
    <3>1. /\ Elsewhere(fs, fs') /\ Elsewhere(disk, disk') /\ UNCHANGED fs
          /\ disk'[cur]["stage"] = fs[cur]["stage"]
          /\ \A q \in {"source", "dest", "archive"} : disk'[cur][q] = disk[cur][q]
      BY <2>1, <1>c, SyncEffect DEF Elsewhere, Places
    <3>2. \A i \in Items \ meddled : i = cur /\ cur' = cur /\ pc' = "seal" => Barred(i)'
      BY <1>k, <1>3, <2>1, <3>1 DEF VerifyStage, Fits, Kept, Barred, Lagging, Synced
    <3> QED
      BY <1>c, <2>1, <3>1, <3>2, FileChangedBarred
  <2> QED
    BY <1>3, <1>r, <2>1 DEF VerifyStage, VerifyOutcomes
<1>4. CASE Unstage \/ DropStage
  <2>1. ASSUME NEW p \in {"check_dest", "recover_cleanup", "lifecycle"},
               WriteDurably(cur, "stage", "none"), Goto(p), UNCHANGED item
        PROVE  Durable'
    <3>1. \A i \in Items \ meddled : i = cur /\ cur' = cur /\ pc' = p => Barred(i)'
      BY <1>k, <1>d, <2>1 DEF Barred, Lagging, Synced
    <3> QED
      BY <1>c, <1>d, <2>1, <3>1, FileChangedBarred
  <2>2. ASSUME NEW p \in {"recover_cleanup", "lifecycle"}, Proceed(p)
        PROVE  Durable'
    BY <1>c, <1>k, <2>2, FilesKeptBarred DEF Proceed, Goto, Elsewhere
  <2> QED
    BY <1>4, <1>r, <2>1, <2>2 DEF Unstage, DropStage
<1> QED
  BY <1>1, <1>2, <1>3, <1>4

LEMMA BarrierBarred ==
  ASSUME Typed, Control, Truth, Durable,
         Link \/ SyncDest \/ LinkArchive \/ SyncArchive \/ UnlinkSource \/ SyncSource
  PROVE  Durable'
<1> USE DEF Typed
<1>c. /\ cur \in Items /\ pc \in TurnSteps /\ UNCHANGED meddled
      /\ {"stage", "source", "dest", "archive"} = Places
  BY DEF ProcessType, TurnSteps, TurnFrame, Link, SyncDest, LinkArchive, SyncArchive,
         UnlinkSource, SyncSource, Places
<1>k. \A i \in Items \ meddled : i = cur =>
        /\ Kept(i) /\ Here(i, pc) /\ Fits(item[i], pc) /\ Barred(i)
        /\ pc \notin Barriers => Synced(i)
  BY <1>c, CurrentKept, SyncedAway DEF Durable
<1>w. ASSUME NEW p \in {"source", "dest", "archive"}, NEW c \in Contents, Write(cur, p, c)
      PROVE  /\ Elsewhere(fs, fs') /\ UNCHANGED disk
             /\ \A q \in Places \ {p} : fs'[cur][q] = fs[cur][q]
  BY <1>w, <1>c, WriteEffect DEF Elsewhere, Write
<1>s. ASSUME NEW p \in {"source", "dest", "archive"}, Sync(cur, p)
      PROVE  /\ UNCHANGED fs /\ Elsewhere(disk, disk') /\ disk'[cur][p] = fs[cur][p]
             /\ \A q \in Places \ {p} : disk'[cur][q] = disk[cur][q]
  BY <1>s, <1>c, SyncEffect DEF Elsewhere
<1>g. ASSUME NEW p, Goto(p), UNCHANGED item,
             Elsewhere(fs, fs'), Elsewhere(disk, disk'),
             \A i \in Items \ meddled : i = cur /\ cur' = cur /\ pc' = p => Barred(i)'
      PROVE  Durable'
  BY <1>g, <1>c, FileChangedBarred
<1>r. ASSUME \A i \in Items \ meddled : i = cur => Synced(i),
             RaiseFailure \/ RaiseCollision
      PROVE  Durable'
  BY <1>c, <1>r, RaiseBarred
<1>1. CASE Link
  <2>1. CASE Write(cur, "dest", fs[cur]["stage"]) /\ Goto("sync_dest") /\ UNCHANGED item
    <3>1. fs[cur]["stage"] \in Contents
      BY <1>c DEF FilesType, Tree
    <3>2. \A i \in Items \ meddled : i = cur /\ cur' = cur /\ pc' = "sync_dest" => Barred(i)'
      BY <1>k, <1>c, <1>w, <1>1, <2>1, <3>1
         DEF Link, Here, Fits, Barred, Lagging, Synced, Barriers
    <3> QED
      BY <1>g, <1>w, <2>1, <3>1, <3>2 DEF Elsewhere
  <2> QED
    BY <1>1, <1>k, <1>r, <2>1 DEF Link, Barriers
<1>2. CASE SyncDest
  <2>1. CASE ~Exists(cur, "dest") /\ RaiseFailure
    BY <1>2, <1>k, <1>r, <2>1 DEF SyncDest, Exists, Barred, Lagging, Synced
  <2>2. CASE Sync(cur, "dest") /\ Goto("unstage") /\ UNCHANGED item
    <3>1. \A i \in Items \ meddled : i = cur /\ cur' = cur /\ pc' = "unstage" => Barred(i)'
      BY <1>k, <1>c, <1>s, <1>2, <2>2 DEF SyncDest, Fits, Barred, Lagging
    <3> QED
      BY <1>g, <1>s, <2>2, <3>1 DEF Elsewhere
  <2> QED
    BY <1>2, <2>1, <2>2 DEF SyncDest
<1>3. CASE LinkArchive
  <2>1. ASSUME Write(cur, "archive", "planned"), UNCHANGED item, ~Exists(cur, "archive"),
               NEW p \in {"sync_archive", "resync_archive"}, Goto(p)
        PROVE  Durable'
    <3>1. "planned" \in Contents
      BY DEF Contents
    <3>2. \A i \in Items \ meddled : i = cur /\ cur' = cur /\ pc' = p => Barred(i)'
      BY <1>k, <1>c, <1>w, <1>3, <2>1, <3>1
         DEF LinkArchive, Exists, Fits, Barred, Lagging, Synced, Barriers
    <3> QED
      BY <1>g, <1>w, <2>1, <3>1, <3>2 DEF Elsewhere
  <2> QED
    BY <1>3, <1>k, <1>r, <2>1 DEF LinkArchive, Barriers
<1>4. CASE SyncArchive
  <2>1. CASE ~Exists(cur, "archive") /\ RaiseFailure
    BY <1>4, <1>k, <1>r, <2>1 DEF SyncArchive, Exists, Barred, Lagging, Synced
  <2>2. ASSUME Sync(cur, "archive"), UNCHANGED item,
               NEW p \in {"check_archive", "unlink_source"}, Goto(p)
        PROVE  Durable'
    <3>1. \A i \in Items \ meddled : i = cur /\ cur' = cur /\ pc' = p => Barred(i)'
      BY <1>k, <1>c, <1>s, <1>4, <2>2 DEF SyncArchive, Fits, Barred, Lagging
    <3> QED
      BY <1>g, <1>s, <2>2, <3>1 DEF Elsewhere
  <2> QED
    BY <1>4, <2>1, <2>2 DEF SyncArchive
<1>5. CASE UnlinkSource
  <2>1. CASE /\ Exists(cur, "source") /\ Write(cur, "source", "none")
             /\ Goto("sync_source") /\ UNCHANGED item
    <3>1. "none" \in Contents
      BY DEF Contents
    <3>2. \A i \in Items \ meddled : i = cur /\ cur' = cur /\ pc' = "sync_source" => Barred(i)'
      BY <1>k, <1>c, <1>w, <1>5, <2>1, <3>1
         DEF UnlinkSource, Exists, Fits, Kept, Promise, Barred, Lagging, Synced, Barriers
    <3> QED
      BY <1>g, <1>w, <2>1, <3>1, <3>2 DEF Elsewhere
  <2> QED
    BY <1>5, <1>k, <1>r, <2>1 DEF UnlinkSource, Barriers
<1>6. CASE SyncSource
  <2>1. \A i \in Items \ meddled : i = cur /\ cur' = cur /\ pc' = "cleaned" => Barred(i)'
    BY <1>k, <1>c, <1>s, <1>6 DEF SyncSource, Fits, Barred, Lagging
  <2> QED
    BY <1>g, <1>s, <1>6, <2>1 DEF SyncSource, Elsewhere
<1> QED
  BY <1>1, <1>2, <1>3, <1>4, <1>5, <1>6

(* The other steps of a turn only read and journal. *)
LEMMA JournalBarred ==
  ASSUME Typed, Control, Truth, Durable, Turn \/ RecoverTurn
  PROVE  Durable'
<1> USE DEF Typed
<1>c. cur \in Items
  BY DEF ProcessType
<1>a. pc \notin Barriers => \A i \in Items \ meddled : i = cur => Synced(i)
  BY SyncedAway
<1>r. ASSUME pc \notin Barriers, UNCHANGED meddled,
             RaiseCollision \/ RaiseStale \/ RaiseFailure \/ GiveUp
      PROVE  Durable'
  BY <1>a, <1>r, RaiseBarred
<1>p. ASSUME pc \notin Barriers, UNCHANGED meddled, NEW p, Proceed(p), p \notin {"seal", "write", "staged"}
      PROVE  Durable'
  BY <1>a, <1>p, FilesKeptBarred DEF Proceed, Goto, Elsewhere
<1>j. ASSUME pc \notin Barriers, UNCHANGED <<meddled, files>>, NEW s, Journal(cur, s),
             pc' \notin {"seal", "write", "staged"},
             s = "staged" => pc = "staged",
             s = "verified" => pc = "seal",
             s = "committing" => item[cur] = "verified"
      PROVE  Durable'
  <2>1. item'[cur] = s /\ Elsewhere(item, item')
    BY <1>j, JournalEffect DEF Elsewhere
  <2> QED
    BY <1>a, <1>j, <2>1, FilesKeptBarred
<1>e. ASSUME EndTurn PROVE pc' \notin {"seal", "write", "staged"}
  BY <1>e DEF EndTurn, NextItem, TurnStart
<1>1. CASE JournalStaged \/ SealStage \/ IntendCommit \/ CheckDest
  <2>1. pc = "recheck" => item[cur] = "verified"
    BY DEF Control, Fits, TurnSteps
  <2> QED
    BY <1>1, <1>r, <1>j, <2>1
       DEF JournalStaged, SealStage, IntendCommit, CheckDest, TurnFrame, Goto, Barriers, world
<1>2. CASE BeginLifecycle \/ RecheckSource \/ CopyArchive \/ CheckArchive
  BY <1>2, <1>r, <1>p, <1>j, <1>e
     DEF BeginLifecycle, RecheckSource, CopyArchive, CheckArchive, TurnFrame, Goto, Barriers
<1>3. CASE JournalCleaned \/ JournalComplete
  BY <1>3, <1>r, <1>p, <1>j, <1>e
     DEF JournalCleaned, JournalComplete, TurnFrame, Goto, Barriers
<1>4. CASE RecoveryPreflight \/ RecoverCommitted \/ RecoverUnlinked \/ RecoverStaged \/ RecoverUnstaged
  BY <1>4, <1>r, <1>p
     DEF RecoveryPreflight, RecoverCommitted, RecoverUnlinked, RecoverStaged, RecoverUnstaged,
         TurnFrame, Barriers
<1>5. CASE RecoverSettled
  BY <1>5, <1>a, <1>e, FilesKeptBarred DEF RecoverSettled, TurnFrame, Elsewhere, Barriers
<1>6. CASE RecoverCleaned \/ RecoverLinked \/ RecoverStaging
  BY <1>6, <1>r, <1>j, <1>e
     DEF RecoverCleaned, RecoverLinked, RecoverStaging, TurnFrame, Goto, Barriers
<1>7. CASE RecoverSource \/ RecoverMove \/ RecoverArchive
  BY <1>7, <1>r, <1>p DEF RecoverSource, RecoverMove, RecoverArchive, TurnFrame, Barriers
<1> QED
  BY <1>1, <1>2, <1>3, <1>4, <1>5, <1>6, <1>7, StageBarred, BarrierBarred
     DEF Turn, RecoverTurn

(* The steps around the turns, and the world. *)
LEMMA AroundBarred ==
  ASSUME Typed, Control, Durable, Head \/ Tail \/ Commands
  PROVE  Durable'
<1> USE DEF Typed
<1>1. UNCHANGED <<meddled, files>>
  BY DEF Head, Tail, Commands, Preflight, CheckSpace, MarkStale, FailRun, MarkOK, StartRun,
         Finalize, WriteReport, CloseRun, StartApply, StartRecover, Abandon, Backfill,
         TurnFrame, world, files
<1>2. \A i \in Items : item'[i] = item[i] \/ item'[i] \in {"stale", "preflight_ok"}
  BY JournalEffect DEF Head, Tail, Commands, Preflight, CheckSpace, MarkStale, FailRun,
     MarkOK, StartRun, Finalize, WriteReport, CloseRun, StartApply, StartRecover, Abandon,
     Backfill, journal, ProcessType
<1>3. \/ UNCHANGED <<pc, cur>>
      \/ pc' \notin {"seal", "write", "staged"} /\ pc \notin Barriers
  BY DEF Head, Tail, Commands, Preflight, CheckSpace, MarkStale, FailRun, MarkOK, StartRun,
         Finalize, WriteReport, CloseRun, StartApply, StartRecover, Abandon, Backfill,
         NextItem, Goto, Release, Idle, process, Barriers
<1>4. ASSUME NEW i \in Items \ meddled PROVE Barred(i)'
  <2>1. Barred(i) /\ (pc \notin Barriers => Synced(i)) /\ fs' = fs /\ disk' = disk
    BY <1>1, SyncedAway DEF Durable, files
  <2> QED
    BY <1>2, <1>3, <2>1 DEF Barred, Lagging, Synced
<1> QED
  BY <1>1, <1>4 DEF Durable

LEMMA WorldBarred ==
  ASSUME Typed, Durable, Meddling
  PROVE  Durable'
<1> USE DEF Typed
<1>1. ASSUME NEW j \in Items, NEW p \in Places, NEW c \in Contents, Meddle(j, p, c)
      PROVE  Durable'
  <2>1. /\ meddled' = meddled \cup {j} /\ UNCHANGED <<item, pc, cur>>
        /\ \A i \in Items \ {j} : fs'[i] = fs[i] /\ disk'[i] = disk[i]
    BY <1>1, WriteEffect, DiskEffect DEF Meddle, journal, process
  <2> QED
    BY <2>1 DEF Durable, Barred, Lagging
<1>2. CASE InvalidatePlan
  BY <1>2 DEF InvalidatePlan, files, process, Durable, Barred, Lagging
<1>3. CASE \E i \in Items : \/ EditSource(i) \/ RemoveSource(i) \/ RestoreSource(i)
                           \/ ReplaceDest(i) \/ ReplaceArchive(i) \/ LoseStage(i)
  BY <1>1, <1>3 DEF EditSource, RemoveSource, RestoreSource, ReplaceDest, ReplaceArchive,
                    LoseStage, Places, Contents
<1> QED
  BY <1>2, <1>3 DEF Meddling

LEMMA StopBarred ==
  ASSUME Typed, Durable, BarriersReached, Kill \/ StepFails
  PROVE  Durable'
<1> USE DEF Typed
<1>1. pc \notin Barriers
  BY DEF BarriersReached
<1>2. \A i \in Items \ meddled : i = cur => Synced(i)
  BY <1>1, SyncedAway
<1>3. CASE Kill
  BY <1>1, <1>2, <1>3, FilesKeptBarred DEF Kill, Release, journal, Elsewhere
<1>4. CASE StepFails
  BY <1>2, <1>4, RaiseBarred DEF StepFails
<1> QED
  BY <1>3, <1>4

(* A power loss shows what the disk holds, and that is enough. *)
LEMMA LossTruth ==
  ASSUME Typed, Control, Truth, Durable, PowerLoss
  PROVE  Truth' /\ Durable'
<1> USE DEF Typed
<1>1. /\ UNCHANGED <<policy, item, sealed, meddled>> /\ disk' = fs' /\ pc' = "idle"
  BY DEF PowerLoss, journal, Release
<1>2. PICK lost \in SUBSET Unsynced, torn \in BOOLEAN :
        fs' = [i \in Items |-> [p \in Places |->
                 IF <<i, p>> \notin lost THEN fs[i][p]
                 ELSE IF torn /\ p = "stage" /\ Exists(i, p) THEN "torn"
                 ELSE disk[i][p]]]
  BY DEF PowerLoss
<1>3. ASSUME NEW i \in Items \ meddled
      PROVE  /\ \A p \in {"source", "dest", "archive"} : fs'[i][p] \in {fs[i][p], disk[i][p]}
             /\ fs'[i]["stage"] \in {fs[i]["stage"], disk[i]["stage"], "torn"}
             /\ disk[i]["stage"] = fs[i]["stage"] => fs'[i]["stage"] = fs[i]["stage"]
  <2>1. \A p \in Places : <<i, p>> \in lost => fs[i][p] # disk[i][p]
    BY <1>2 DEF Unsynced
  <2> QED
    BY <1>2, <2>1 DEF Places
<1>4. ASSUME NEW i \in Items \ meddled PROVE Kept(i)' /\ Barred(i)'
  <2>1. Kept(i) /\ Barred(i) /\ (cur = i /\ pc \in Barriers => Here(i, pc) /\ Fits(item[i], pc))
    BY DEF Truth, Durable, Control, Barriers, TurnSteps
  <2>2. CASE i = cur => pc \notin Barriers
    <3>1. \A p \in {"source", "dest", "archive"} : fs'[i][p] = fs[i][p]
      BY <1>3, <2>2, SyncedAway DEF Synced
    <3> QED
      BY <1>1, <1>3, <2>1, <3>1 DEF Kept, Promise, Archived, Barred, Lagging
  <2>3. CASE i = cur /\ pc = "sync_dest"
    <3>1. /\ fs'[i]["source"] = fs[i]["source"] /\ fs'[i]["archive"] = fs[i]["archive"]
          /\ fs'[i]["dest"] \in {"none", "output"} /\ fs'[i]["stage"] = "output"
          /\ item[i] = "committing"
      BY <1>3, <2>1, <2>3 DEF Barriers, Here, Fits, Barred, Lagging
    <3> QED
      BY <1>1, <1>3, <2>1, <3>1 DEF Kept, Promise, Archived, Barred, Lagging
  <2>4. CASE i = cur /\ pc \in {"sync_archive", "resync_archive"}
    <3>1. /\ fs'[i]["source"] = "planned" /\ fs'[i]["dest"] = fs[i]["dest"]
          /\ item[i] = "cleanup_pending"
      BY <1>3, <2>1, <2>4 DEF Barriers, Here, Fits, Barred, Lagging
    <3> QED
      BY <1>1, <1>3, <2>1, <3>1 DEF Kept, Promise, Archived, Barred, Lagging
  <2>5. CASE i = cur /\ pc = "sync_source"
    <3>1. /\ fs'[i]["source"] \in {"planned", "none"} /\ fs'[i]["dest"] = fs[i]["dest"]
          /\ fs'[i]["archive"] = fs[i]["archive"] /\ Archived(i)
          /\ item[i] = "cleanup_pending"
      BY <1>3, <2>1, <2>5 DEF Barriers, Here, Fits, Barred, Lagging
    <3> QED
      BY <1>1, <1>3, <2>1, <3>1 DEF Kept, Promise, Archived, Barred, Lagging
  <2> QED
    BY <2>2, <2>3, <2>4, <2>5 DEF Barriers
<1> QED
  BY <1>1, <1>4 DEF Truth, Durable, TurnSteps

(* A closed run is at no barrier, so a power loss takes nothing from it. *)
LEMMA LossClosing ==
  ASSUME Typed, Closing, Durable, PowerLoss
  PROVE  Closing'
<1> USE DEF Typed
<1>1. UNCHANGED <<run, item, meddled>> /\ pc' = "idle"
  BY DEF PowerLoss, journal, Release
<1>2. ASSUME run = "failed", NEW i \in Items \ meddled
      PROVE  Clean(i)'
  <2>1. pc \notin Barriers /\ Clean(i)
    BY <1>2 DEF Closing, Barriers
  <2>2. Synced(i)
    BY <2>1, SyncedAway
  <2>3. PICK lost \in SUBSET Unsynced, torn \in BOOLEAN :
          fs' = [k \in Items |-> [p \in Places |->
                   IF <<k, p>> \notin lost THEN fs[k][p]
                   ELSE IF torn /\ p = "stage" /\ Exists(k, p) THEN "torn"
                   ELSE disk[k][p]]]
    BY DEF PowerLoss
  <2>4. fs'[i]["source"] = fs[i]["source"] /\ fs'[i]["dest"] = fs[i]["dest"]
    BY <2>2, <2>3 DEF Synced, Places
  <2> QED
    BY <1>1, <2>1, <2>4 DEF Clean
<1> QED
  BY <1>1, <1>2 DEF Closing, TurnSteps

LEMMA InitBarred == Init => Durable
  BY DEF Init, Durable, Barred, Lagging

LEMMA NextBarred ==
  Typed /\ Control /\ Truth /\ Durable /\ [Next]_vars /\ [BarriersReached]_vars
    => Truth' /\ Durable'
<1> SUFFICES ASSUME Typed, Control, Truth, Durable, [Next]_vars, [BarriersReached]_vars
             PROVE  Truth' /\ Durable'
  OBVIOUS
<1>1. CASE UNCHANGED vars
  <2>1. Durable'
    BY <1>1 DEF vars, Durable, Barred, Lagging
  <2>2. Truth'
    BY <1>1 DEF vars, Truth, Kept, Promise, Archived, Here
  <2> QED
    BY <2>1, <2>2
<1>2. CASE PowerLoss
  BY <1>2, LossTruth
<1>3. CASE ~PowerLoss /\ Next /\ BarriersReached
  <2>1. Truth'
    BY <1>3, StepsTruth
  <2>2. Durable'
    BY <1>3, JournalBarred, AroundBarred, WorldBarred, StopBarred DEF Next, Progress
  <2> QED
    BY <2>1, <2>2
<1> QED
  BY <1>1, <1>2, <1>3

(* For any number of power losses, process deaths, failing operations and  *)
(* changes by others: as long as no death and no failure hits a step       *)
(* between a change of a directory and its fsync, no power loss takes both *)
(* the source and the published file of an item nobody else touched, its   *)
(* journalled state still says no more than its files hold, and a run      *)
(* closed as FAILED has left it complete or as it was found.               *)
THEOREM PowerLossLosesNothing ==
  Spec /\ [][BarriersReached]_vars => []NothingLost /\ []JournalTruth /\ []FailedRunClean
<1>1. Typed /\ Control /\ Truth /\ Durable => NothingLost
  <2> SUFFICES ASSUME Typed, Control, Truth, Durable, NEW i \in Items \ meddled
               PROVE  disk[i]["source"] = "planned" \/ disk[i]["dest"] = "output"
    BY DEF NothingLost
  <2>1. /\ Kept(i) /\ Barred(i)
        /\ cur = i /\ pc = "sync_dest" => Fits(item[i], pc)
    BY DEF Truth, Durable, Control, TurnSteps
  <2>2. item[i] \in ItemStates
    BY DEF Typed, ProcessType
  <2> QED
    BY <2>1, <2>2 DEF Kept, Promise, Barred, Lagging, Fits, ItemStates
<1>2. Truth => JournalTruth
  BY DEF Truth, Kept, JournalTruth
<1>3. Closing => FailedRunClean
  BY DEF Closing, Clean, FailedRunClean
<1>4. Typed /\ Control /\ Truth /\ Durable /\ Closing /\ [Next]_vars => Closing'
  BY StepsClosing, LossClosing
<1> QED
  BY <1>1, <1>2, <1>3, <1>4, InitTypes, NextTypes, InitControl, NextControl, InitTruth,
     InitBarred, NextBarred, InitClosing, PTL DEF Spec

(* Power losses alone, with changes by others, lose nothing.               *)
COROLLARY PowerLossAloneLosesNothing ==
  ASSUME MaxKills = 0, MaxFaults = 0
  PROVE  Spec => []NothingLost /\ []JournalTruth /\ []FailedRunClean
<1>1. Typed /\ [Next]_vars => [BarriersReached]_vars
  BY DEF BarriersReached, Kill, StepFails, SpendFault, Typed, RecordsType
<1> QED
  BY <1>1, InitTypes, NextTypes, PowerLossLosesNothing, PTL DEF Spec

-----------------------------------------------------------------------------
(* Process deaths alone.  While nothing else happens, the files of every   *)
(* item are what its own turn made of them, also where no promise is made: *)
(* at the staging path and at the archive.                                 *)

Whole(i) ==
  /\ item[i] = "staged" => fs[i]["stage"] = "output"
  /\ item[i] \in {"committing", "committed", "cleanup_pending"} =>
       fs[i]["stage"] \in {"none", "output"}
  /\ fs[i]["archive"] \in {"none", "planned"}
  /\ item[i] \notin {"cleanup_pending", "cleaned", "complete"} => fs[i]["archive"] = "none"

(* What step p of the item's turn finds. *)
Ready(i, p) ==
  /\ p \in {"sync_dest", "unstage"} => fs[i]["stage"] = "output"
  /\ p \in {"recheck_source", "copy_archive", "link_archive", "recopy_archive",
            "relink_archive"} =>
       fs[i]["source"] = "planned" /\ fs[i]["archive"] = "none"
  /\ p \in {"sync_archive", "resync_archive", "check_archive"} =>
       fs[i]["archive"] = "planned"
  /\ p \in {"sync_archive", "resync_archive", "check_archive", "unlink_source"} =>
       fs[i]["source"] = "planned"

Steady ==
  /\ meddled = {} /\ errs = {} /\ pc # "mark_stale"
  /\ \A i \in Items : Whole(i)
  /\ pc \in TurnSteps => Ready(cur, pc)

(* What CrashesStrandNothing says of a step. *)
Strands(i) ==
  /\ item'[i] # item[i]
  /\ \/ item'[i] = "stale"
     \/ item'[i] = "recovery_required" /\ item[i] # "pending"

Spares == \A i \in Items : ~Strands(i)

(* A turn that goes on, and one that ends. *)
LEMMA GotoSteady ==
  ASSUME Steady, ProcessType, UNCHANGED meddled, NEW p, p # "mark_stale", Goto(p),
         Elsewhere(fs, fs'), Elsewhere(item, item'),
         item'[cur] # item[cur] => item'[cur] \notin {"stale", "recovery_required"},
         \A i \in Items : i = cur => Whole(i)' /\ Ready(i, p)'
  PROVE  Steady' /\ Spares
<1>1. cur' = cur /\ pc' = p /\ errs' = errs /\ cur \in Items
  BY DEF Goto, ProcessType
<1>2. \A i \in Items : Whole(i)'
  BY DEF Steady, Whole, Elsewhere
<1>3. pc' \in TurnSteps => Ready(cur, pc)'
  BY <1>1 DEF Ready
<1>4. Spares
  BY DEF Spares, Strands, Elsewhere
<1> QED
  BY <1>1, <1>2, <1>3, <1>4 DEF Steady

LEMMA EndSteady ==
  ASSUME Steady, ProcessType, UNCHANGED <<meddled, fs>>, EndTurn, Elsewhere(item, item'),
         item'[cur] # item[cur] =>
           item'[cur] # "stale" /\ (item'[cur] = "recovery_required" => item[cur] = "pending"),
         \A i \in Items : i = cur => Whole(i)'
  PROVE  Steady' /\ Spares
<1>1. pc' \in {"begin", "recovery_preflight", "finalize"} /\ errs' = errs
  BY DEF EndTurn, NextItem, TurnStart
<1>2. \A i \in Items : Whole(i)'
  BY DEF Steady, Whole, Elsewhere
<1>3. pc' \in TurnSteps => Ready(cur, pc)'
  BY <1>1 DEF Ready
<1>4. Spares
  BY DEF Spares, Strands, Elsewhere
<1> QED
  BY <1>1, <1>2, <1>3, <1>4 DEF Steady

(* A step that only reads, and one that only journals. *)
LEMMA StepSteady ==
  ASSUME Steady, ProcessType, UNCHANGED <<meddled, fs, item>>, NEW p, p # "mark_stale", Goto(p),
         Ready(cur, p)
  PROVE  Steady' /\ Spares
<1>1. \A i \in Items : i = cur => Whole(i)' /\ Ready(i, p)'
  BY DEF Steady, Whole, Ready
<1> QED
  BY <1>1, GotoSteady DEF Elsewhere

LEMMA JournalSteady ==
  ASSUME Steady, ProcessType, UNCHANGED <<meddled, fs>>, NEW s, Journal(cur, s),
         NEW p, p # "mark_stale", Goto(p), s \notin {"stale", "recovery_required"},
         \A i \in Items : i = cur /\ item'[i] = s /\ fs' = fs => Whole(i)' /\ Ready(i, p)'
  PROVE  Steady' /\ Spares
<1>1. item'[cur] = s /\ Elsewhere(item, item')
  BY JournalEffect DEF Elsewhere
<1> QED
  BY <1>1, GotoSteady DEF Elsewhere

(* All that is known of the current item. *)
LEMMA CurrentSteady ==
  ASSUME Typed, Control, Truth, Steady, pc \in TurnSteps
  PROVE  /\ cur \in Items /\ item[cur] \in ItemStates /\ policy[cur] \in Lifecycles
         /\ Kept(cur) /\ Here(cur, pc) /\ Fits(item[cur], pc) /\ Whole(cur) /\ Ready(cur, pc)
  BY DEF Typed, ProcessType, RecordsType, Truth, Control, Steady

LEMMA StagingSteady ==
  ASSUME Typed, Control, Truth, Steady,
         BeginStaging \/ WriteStage \/ JournalStaged \/ VerifyStage \/ SealStage
  PROVE  Steady' /\ Spares
<1> USE DEF Typed
<1>c. /\ pc \in TurnSteps /\ UNCHANGED meddled
  BY DEF TurnSteps, TurnFrame, BeginStaging, WriteStage, JournalStaged, VerifyStage, SealStage, world
<1>k. /\ cur \in Items /\ item[cur] \in ItemStates
      /\ Kept(cur) /\ Here(cur, pc) /\ Fits(item[cur], pc) /\ Whole(cur) /\ Ready(cur, pc)
  BY <1>c, CurrentSteady
<1>1. CASE BeginStaging
  <2>1. fs[cur]["source"] = "planned" /\ fs[cur]["archive"] = "none"
    BY <1>k, <1>1 DEF BeginStaging, Fits, Kept, Promise, Whole
  <2>2. Journal(cur, "staging") /\ WriteDurably(cur, "stage", "none") /\ Goto("write")
    BY <1>1, <2>1 DEF BeginStaging, SourceOK
  <2>3. item'[cur] = "staging" /\ Elsewhere(item, item')
    BY <2>2, JournalEffect DEF Elsewhere
  <2>4. fs'[cur]["archive"] = fs[cur]["archive"] /\ Elsewhere(fs, fs')
    BY <2>2, <1>k, WriteEffect DEF Elsewhere, Places, Contents
  <2>5. \A i \in Items : i = cur => Whole(i)' /\ Ready(i, "write")'
    BY <2>1, <2>3, <2>4 DEF Whole, Ready
  <2> QED
    BY <1>c, <2>2, <2>3, <2>4, <2>5, GotoSteady
<1>2. CASE WriteStage
  <2>1. fs[cur]["source"] = "planned" /\ fs[cur]["archive"] = "none" /\ item[cur] = "staging"
    BY <1>k, <1>2 DEF WriteStage, Fits, Kept, Promise, Whole
  <2>2. Write(cur, "stage", "output") /\ Goto("staged") /\ UNCHANGED item
    BY <1>2, <2>1 DEF WriteStage, SourceOK, Exists
  <2>3. fs'[cur]["archive"] = fs[cur]["archive"] /\ Elsewhere(fs, fs')
    BY <2>2, <1>k, WriteEffect DEF Elsewhere, Places, Contents
  <2>4. \A i \in Items : i = cur => Whole(i)' /\ Ready(i, "staged")'
    BY <2>1, <2>2, <2>3 DEF Whole, Ready
  <2> QED
    BY <1>c, <2>2, <2>3, <2>4, GotoSteady DEF Elsewhere
<1>3. CASE JournalStaged
  <2>1. \A i \in Items : i = cur /\ item'[i] = "staged" /\ fs' = fs =>
          Whole(i)' /\ Ready(i, "verify")'
    BY <1>k, <1>3 DEF JournalStaged, Fits, Here, Whole, Ready
  <2> QED
    BY <1>c, <1>3, <2>1, JournalSteady DEF JournalStaged, files
<1>4. CASE VerifyStage
  <2>1. fs[cur]["source"] = "planned" /\ fs[cur]["stage"] = "output"
    BY <1>k, <1>4 DEF VerifyStage, Fits, Kept, Promise, Whole
  <2>2. VerifyOutcomes(cur, fs[cur]["stage"]) = {TRUE}
    BY <2>1 DEF VerifyOutcomes, Exists, Hash
  <2>3. Sync(cur, "stage") /\ Goto("seal") /\ UNCHANGED item
    BY <1>4, <2>2 DEF VerifyStage
  <2>4. Ready(cur, "seal")
    BY DEF Ready
  <2> QED
    BY <1>c, <2>3, <2>4, StepSteady DEF Sync
<1>5. CASE SealStage
  <2>1. fs[cur]["stage"] = "output"
    BY <1>k, <1>5 DEF SealStage, Here
  <2>2. Journal(cur, "verified") /\ Goto("recheck") /\ UNCHANGED files
    BY <1>5, <2>1 DEF SealStage, Exists
  <2>3. \A i \in Items : i = cur /\ item'[i] = "verified" /\ fs' = fs =>
          Whole(i)' /\ Ready(i, "recheck")'
    BY <1>k, <1>5 DEF SealStage, Fits, Whole, Ready
  <2> QED
    BY <1>c, <2>2, <2>3, JournalSteady DEF files
<1> QED
  BY <1>1, <1>2, <1>3, <1>4, <1>5

LEMMA CommitSteady ==
  ASSUME Typed, Control, Truth, Steady, IntendCommit \/ Link \/ SyncDest \/ Unstage \/ CheckDest
  PROVE  Steady' /\ Spares
<1> USE DEF Typed
<1>c. pc \in TurnSteps /\ UNCHANGED meddled
  BY DEF TurnSteps, TurnFrame, IntendCommit, Link, SyncDest, Unstage, CheckDest
<1>k. /\ cur \in Items /\ item[cur] \in ItemStates
      /\ Kept(cur) /\ Here(cur, pc) /\ Fits(item[cur], pc) /\ Whole(cur) /\ Ready(cur, pc)
  BY <1>c, CurrentSteady
<1>1. CASE IntendCommit
  <2>1. SourceOK(cur) /\ ~Exists(cur, "dest") /\ fs[cur]["stage"] = "output"
    BY <1>k, <1>1 DEF IntendCommit, Fits, Kept, Promise, SourceOK, Exists
  <2>2. \A i \in Items : i = cur /\ item'[i] = "committing" /\ fs' = fs =>
          Whole(i)' /\ Ready(i, "link")'
    BY <1>k, <1>1, <2>1 DEF IntendCommit, Fits, Whole, Ready
  <2> QED
    BY <1>c, <1>1, <2>1, <2>2, JournalSteady DEF IntendCommit, files
<1>2. CASE Link
  <2>1. fs[cur]["dest"] = "none" /\ fs[cur]["stage"] = "output" /\ item[cur] = "committing"
        /\ fs[cur]["archive"] = "none"
    BY <1>k, <1>2 DEF Link, Fits, Here, Kept, Promise, Whole
  <2>2. Write(cur, "dest", "output") /\ Goto("sync_dest") /\ UNCHANGED item
    BY <1>2, <2>1 DEF Link, Exists
  <2>3. /\ fs'[cur]["archive"] = fs[cur]["archive"] /\ fs'[cur]["stage"] = fs[cur]["stage"]
        /\ Elsewhere(fs, fs')
    BY <2>2, <1>k, WriteEffect DEF Elsewhere, Places, Contents
  <2>4. \A i \in Items : i = cur => Whole(i)' /\ Ready(i, "sync_dest")'
    BY <2>1, <2>2, <2>3 DEF Whole, Ready
  <2> QED
    BY <1>c, <2>2, <2>3, <2>4, GotoSteady DEF Elsewhere
<1>3. CASE SyncDest
  <2>1. Exists(cur, "dest") /\ Ready(cur, "unstage")
    BY <1>k, <1>3 DEF SyncDest, Here, Exists, Ready
  <2> QED
    BY <1>c, <1>3, <2>1, StepSteady DEF SyncDest, Sync
<1>4. CASE Unstage
  <2>1. fs[cur]["stage"] = "output" /\ item[cur] = "committing"
    BY <1>k, <1>4 DEF Unstage, Fits, Ready
  <2>2. WriteDurably(cur, "stage", "none") /\ Goto("check_dest") /\ UNCHANGED item
    BY <1>4, <2>1 DEF Unstage, Exists
  <2>3. /\ fs'[cur]["archive"] = fs[cur]["archive"] /\ fs'[cur]["stage"] = "none"
        /\ Elsewhere(fs, fs')
    BY <2>2, <1>k, WriteEffect DEF Elsewhere, Places, Contents
  <2>4. \A i \in Items : i = cur => Whole(i)' /\ Ready(i, "check_dest")'
    BY <1>k, <2>1, <2>2, <2>3 DEF Whole, Ready
  <2> QED
    BY <1>c, <2>2, <2>3, <2>4, GotoSteady DEF Elsewhere
<1>5. CASE CheckDest
  <2>1. /\ fs[cur]["source"] = "planned" /\ fs[cur]["dest"] = "output"
        /\ sealed[cur] = "output" /\ item[cur] = "committing"
    BY <1>k, <1>5 DEF CheckDest, Fits, Here, Kept, Promise
  <2>2. DestOK(cur) /\ VerifyOutcomes(cur, fs[cur]["dest"]) = {TRUE}
    BY <2>1 DEF DestOK, VerifyOutcomes, Exists, Hash
  <2>3. Journal(cur, "committed") /\ Goto("lifecycle") /\ UNCHANGED files
    BY <1>5, <2>2 DEF CheckDest
  <2>4. \A i \in Items : i = cur /\ item'[i] = "committed" /\ fs' = fs =>
          Whole(i)' /\ Ready(i, "lifecycle")'
    BY <1>k, <2>1 DEF Whole, Ready
  <2> QED
    BY <1>c, <2>3, <2>4, JournalSteady DEF files
<1> QED
  BY <1>1, <1>2, <1>3, <1>4, <1>5

(* A second path of the current item changes and the turn goes on. *)
LEMMA WriteSteady ==
  ASSUME Steady, FilesType, ProcessType, UNCHANGED <<meddled, item>>,
         NEW p \in Places, NEW c \in Contents, Write(cur, p, c) \/ WriteDurably(cur, p, c),
         NEW q, q # "mark_stale", Goto(q),
         \A i \in Items : /\ i = cur
                          /\ fs'[i][p] = c
                          /\ \A o \in Places \ {p} : fs'[i][o] = fs[i][o]
                          => Whole(i)' /\ Ready(i, q)'
  PROVE  Steady' /\ Spares
<1>1. /\ fs'[cur][p] = c /\ \A o \in Places \ {p} : fs'[cur][o] = fs[cur][o]
      /\ Elsewhere(fs, fs')
  BY WriteEffect DEF ProcessType, Elsewhere
<1> QED
  BY <1>1, GotoSteady DEF Elsewhere

LEMMA LifecycleSteady ==
  ASSUME Typed, Control, Truth, Steady,
         \/ BeginLifecycle \/ RecheckSource \/ CopyArchive \/ LinkArchive \/ SyncArchive
         \/ CheckArchive \/ UnlinkSource \/ SyncSource \/ JournalCleaned \/ JournalComplete
  PROVE  Steady' /\ Spares
<1> USE DEF Typed
<1>c. /\ pc \in TurnSteps /\ UNCHANGED meddled
  BY DEF TurnSteps, TurnFrame, BeginLifecycle, RecheckSource, CopyArchive, LinkArchive,
         SyncArchive, CheckArchive, UnlinkSource, SyncSource, JournalCleaned, JournalComplete
<1>k. /\ cur \in Items /\ policy[cur] \in Lifecycles
      /\ Kept(cur) /\ Here(cur, pc) /\ Fits(item[cur], pc) /\ Whole(cur) /\ Ready(cur, pc)
  BY <1>c, CurrentSteady
<1>1. CASE BeginLifecycle
  <2>1. item[cur] = "committed" /\ fs[cur]["source"] = "planned" /\ fs[cur]["archive"] = "none"
    BY <1>k, <1>1 DEF BeginLifecycle, Fits, Kept, Promise, Whole
  <2>2. CASE Journal(cur, "complete") /\ EndTurn
    <3>1. item'[cur] = "complete" /\ Elsewhere(item, item') /\ UNCHANGED fs
      BY <1>1, <2>2, JournalEffect DEF BeginLifecycle, Elsewhere, files
    <3>2. \A i \in Items : i = cur => Whole(i)'
      BY <2>1, <3>1 DEF Whole
    <3> QED
      BY <1>c, <2>2, <3>1, <3>2, EndSteady
  <2>3. CASE Journal(cur, "cleanup_pending") /\ Goto("recheck_source")
    <3>1. \A i \in Items : i = cur /\ item'[i] = "cleanup_pending" /\ fs' = fs =>
            Whole(i)' /\ Ready(i, "recheck_source")'
      BY <1>k, <2>1 DEF Whole, Ready
    <3> QED
      BY <1>c, <1>1, <2>3, <3>1, JournalSteady DEF BeginLifecycle, files
  <2> QED
    BY <1>1, <2>2, <2>3 DEF BeginLifecycle
<1>2. CASE RecheckSource
  <2>1. fs[cur]["source"] = "planned" /\ fs[cur]["archive"] = "none"
    BY <1>k, <1>2 DEF RecheckSource, Ready
  <2>2. Ready(cur, "copy_archive") /\ Ready(cur, "unlink_source")
    BY <2>1 DEF Ready
  <2> QED
    BY <1>c, <1>2, <2>1, <2>2, StepSteady DEF RecheckSource, Proceed, SourceOK, files
<1>3. CASE CopyArchive
  <2>1. fs[cur]["source"] = "planned" /\ fs[cur]["archive"] = "none"
    BY <1>k, <1>3 DEF CopyArchive, Ready
  <2>2. Ready(cur, "link_archive") /\ Ready(cur, "relink_archive")
    BY <2>1 DEF Ready
  <2> QED
    BY <1>c, <1>3, <2>1, <2>2, StepSteady DEF CopyArchive, Proceed, SourceOK, files
<1>4. CASE LinkArchive
  <2>1. /\ fs[cur]["source"] = "planned" /\ fs[cur]["archive"] = "none"
        /\ item[cur] = "cleanup_pending"
    BY <1>k, <1>4 DEF LinkArchive, Ready, Fits
  <2>2. Write(cur, "archive", "planned") /\ UNCHANGED item
        /\ (Goto("sync_archive") \/ Goto("resync_archive"))
    BY <1>4, <2>1 DEF LinkArchive, Exists
  <2>3. ASSUME NEW q \in {"sync_archive", "resync_archive"}, Goto(q)
        PROVE  Steady' /\ Spares
    <3>1. \A i \in Items : /\ i = cur
                           /\ fs'[i]["archive"] = "planned"
                           /\ \A o \in Places \ {"archive"} : fs'[i][o] = fs[i][o]
                           => Whole(i)' /\ Ready(i, q)'
      BY <1>k, <2>1, <2>2, <2>3 DEF Whole, Ready, Places
    <3>2. "archive" \in Places /\ "planned" \in Contents
      BY DEF Places, Contents
    <3> QED
      BY <1>c, <2>2, <2>3, <3>1, <3>2, WriteSteady
  <2> QED
    BY <2>2, <2>3
<1>5. CASE SyncArchive
  <2>1. fs[cur]["source"] = "planned" /\ fs[cur]["archive"] = "planned"
    BY <1>k, <1>5 DEF SyncArchive, Ready
  <2>2. Ready(cur, "check_archive") /\ Ready(cur, "unlink_source")
    BY <2>1 DEF Ready
  <2> QED
    BY <1>c, <1>5, <2>1, <2>2, StepSteady DEF SyncArchive, Sync, Exists
<1>6. CASE CheckArchive
  <2>1. fs[cur]["source"] = "planned" /\ fs[cur]["archive"] = "planned"
    BY <1>k, <1>6 DEF CheckArchive, Ready
  <2>2. Ready(cur, "unlink_source")
    BY <2>1 DEF Ready
  <2> QED
    BY <1>c, <1>6, <2>1, <2>2, StepSteady DEF CheckArchive, Proceed, files
<1>7. CASE UnlinkSource
  <2>1. fs[cur]["source"] = "planned" /\ item[cur] = "cleanup_pending"
    BY <1>k, <1>7 DEF UnlinkSource, Ready, Fits
  <2>2. Write(cur, "source", "none") /\ UNCHANGED item /\ Goto("sync_source")
    BY <1>7, <2>1 DEF UnlinkSource, Exists
  <2>3. \A i \in Items : /\ i = cur
                         /\ fs'[i]["source"] = "none"
                         /\ \A o \in Places \ {"source"} : fs'[i][o] = fs[i][o]
                         => Whole(i)' /\ Ready(i, "sync_source")'
    BY <1>k, <2>1, <2>2 DEF Whole, Ready, Places
  <2>4. "source" \in Places /\ "none" \in Contents
    BY DEF Places, Contents
  <2> QED
    BY <1>c, <2>2, <2>3, <2>4, WriteSteady
<1>8. CASE SyncSource
  <2>1. Ready(cur, "cleaned")
    BY DEF Ready
  <2> QED
    BY <1>c, <1>8, <2>1, StepSteady DEF SyncSource, Sync
<1>9. CASE JournalCleaned
  <2>1. \A i \in Items : i = cur /\ item'[i] = "cleaned" /\ fs' = fs =>
          Whole(i)' /\ Ready(i, "complete")'
    BY <1>k DEF Whole, Ready
  <2> QED
    BY <1>c, <1>9, <2>1, JournalSteady DEF JournalCleaned, files
<1>10. CASE JournalComplete
  <2>1. item'[cur] = "complete" /\ Elsewhere(item, item') /\ UNCHANGED fs
    BY <1>10, JournalEffect DEF JournalComplete, Elsewhere, files
  <2>2. \A i \in Items : i = cur => Whole(i)'
    BY <1>k, <2>1 DEF Whole
  <2> QED
    BY <1>c, <1>10, <2>1, <2>2, EndSteady DEF JournalComplete
<1> QED
  BY <1>1, <1>2, <1>3, <1>4, <1>5, <1>6, <1>7, <1>8, <1>9, <1>10

LEMMA RecoverTurnSteady ==
  ASSUME Typed, Control, Truth, Steady, RecoverTurn
  PROVE  Steady' /\ Spares
<1> USE DEF Typed
<1>c. /\ pc \in TurnSteps /\ UNCHANGED meddled
      /\ UNCHANGED files => UNCHANGED fs
  BY DEF TurnSteps, TurnFrame, files, RecoverTurn, RecoveryPreflight, RecoverSettled,
         RecoverCleaned, RecoverCommitted, RecoverLinked, RecoverUnlinked, RecoverStaged,
         RecoverStaging, RecoverUnstaged, DropStage, RecoverSource, RecoverMove, RecoverArchive
<1>k. /\ cur \in Items /\ item[cur] \in ItemStates /\ policy[cur] \in Lifecycles
      /\ Kept(cur) /\ Here(cur, pc) /\ Fits(item[cur], pc) /\ Whole(cur) /\ Ready(cur, pc)
  BY <1>c, CurrentSteady
<1>s. ASSUME NEW q \in {"recover_item", "drop_stage", "drop_own_stage", "recheck", "link",
                        "verify", "begin", "recover_cleanup", "lifecycle", "cleaned"},
             Proceed(q)
      PROVE  Steady' /\ Spares
  <2>1. Ready(cur, q)
    BY <1>s DEF Ready
  <2> QED
    BY <1>c, <1>s, <2>1, StepSteady DEF Proceed
<1>e. ASSUME NEW s, Journal(cur, s), EndTurn, UNCHANGED files,
             s # "stale", s = "recovery_required" => item[cur] = "pending",
             s \in {"complete", "recovery_required"},
             s = "recovery_required" => fs[cur]["archive"] = "none"
      PROVE  Steady' /\ Spares
  <2>1. item'[cur] = s /\ Elsewhere(item, item') /\ UNCHANGED fs
    BY <1>e, <1>c, JournalEffect DEF Elsewhere
  <2>2. \A i \in Items : i = cur => Whole(i)'
    BY <1>k, <1>e, <2>1 DEF Whole
  <2> QED
    BY <1>c, <1>e, <2>1, <2>2, EndSteady
<1>1. CASE RecoveryPreflight
  <2>1. item[cur] \in BeforeCommit =>
          SourceOK(cur) /\ (item[cur] # "verified" => ~Exists(cur, "dest"))
    BY <1>k DEF BeforeCommit, SourceOK, Exists, Kept, Promise
  <2> QED
    BY <1>1, <1>s, <2>1 DEF RecoveryPreflight
<1>2. CASE RecoverSettled
  <2>1. \A i \in Items : i = cur => Whole(i)'
    BY <1>k, <1>c, <1>2 DEF RecoverSettled, Whole
  <2> QED
    BY <1>2, <1>c, <2>1, EndSteady DEF RecoverSettled, Elsewhere
<1>3. CASE RecoverCleaned
  BY <1>3, <1>e DEF RecoverCleaned
<1>4. CASE RecoverCommitted
  <2>1. DestOK(cur)
    BY <1>4, <1>k DEF RecoverCommitted, DestOK, Exists, Hash, Kept, Promise
  <2> QED
    BY <1>4, <1>s, <2>1 DEF RecoverCommitted
<1>5. CASE RecoverLinked
  <2>1. /\ item[cur] = "committing" /\ fs[cur]["dest"] = "output" /\ sealed[cur] = "output"
        /\ fs[cur]["source"] = "planned"
    BY <1>5, <1>k DEF RecoverLinked, Exists, Kept, Promise
  <2>2. DestOK(cur) /\ SourceOK(cur) /\ VerifyOutcomes(cur, fs[cur]["dest"]) = {TRUE}
    BY <2>1 DEF DestOK, SourceOK, VerifyOutcomes, Exists, Hash
  <2>3. Journal(cur, "committed") /\ Goto("drop_own_stage") /\ UNCHANGED files
    BY <1>5, <2>1, <2>2 DEF RecoverLinked
  <2>4. \A i \in Items : i = cur /\ item'[i] = "committed" /\ fs' = fs =>
          Whole(i)' /\ Ready(i, "drop_own_stage")'
    BY <1>k, <2>1 DEF Whole, Ready
  <2> QED
    BY <1>c, <2>3, <2>4, JournalSteady
<1>6. CASE RecoverUnlinked
  <2>1. fs[cur]["stage"] = "output" /\ sealed[cur] = "output" /\ fs[cur]["source"] = "planned"
    BY <1>6, <1>k DEF RecoverUnlinked, Exists, Kept, Promise
  <2>2. Exists(cur, "stage") /\ Hash(fs[cur]["stage"]) = sealed[cur] /\ SourceOK(cur)
    BY <2>1 DEF Exists, Hash, SourceOK
  <2> QED
    BY <1>6, <1>s, <2>2 DEF RecoverUnlinked
<1>7. CASE RecoverStaged
  <2>1. Exists(cur, "stage")
    BY <1>7, <1>k DEF RecoverStaged, Exists, Whole
  <2> QED
    BY <1>7, <1>s, <2>1 DEF RecoverStaged
<1>8. CASE RecoverStaging
  <2>1. \A i \in Items : i = cur /\ item'[i] = "failed" /\ fs' = fs =>
          Whole(i)' /\ Ready(i, "recover_item")'
    BY <1>8, <1>k DEF RecoverStaging, Whole, Ready
  <2> QED
    BY <1>8, <1>c, <2>1, JournalSteady DEF RecoverStaging
<1>9. CASE RecoverUnstaged
  <2>1. SourceOK(cur) /\ ~Exists(cur, "dest") /\ fs[cur]["archive"] = "none"
    BY <1>9, <1>k DEF RecoverUnstaged, SourceOK, Exists, Kept, Promise, Whole
  <2>2. CASE item[cur] = "pending" /\ RaiseFailure
    BY <1>e, <2>1, <2>2 DEF RaiseFailure, AfterFailure
  <2>3. CASE Proceed("begin")
    BY <1>s, <2>3
  <2> QED
    BY <1>9, <2>1, <2>2, <2>3 DEF RecoverUnstaged
<1>10. CASE DropStage
  <2>1. /\ item[cur] \in {"committed", "cleanup_pending"} /\ DestOK(cur)
        /\ Exists(cur, "stage") => fs[cur]["stage"] = fs[cur]["dest"]
    BY <1>10, <1>k DEF DropStage, Fits, Kept, Promise, Whole, DestOK, Exists, Hash
  <2>2. ASSUME NEW q \in {"recover_cleanup", "lifecycle"},
               WriteDurably(cur, "stage", "none"), Goto(q), UNCHANGED item
        PROVE  Steady' /\ Spares
    <3>1. \A i \in Items : /\ i = cur
                           /\ fs'[i]["stage"] = "none"
                           /\ \A o \in Places \ {"stage"} : fs'[i][o] = fs[i][o]
                           => Whole(i)' /\ Ready(i, q)'
      BY <1>k, <2>1, <2>2 DEF Whole, Ready, Places
    <3>2. "stage" \in Places /\ "none" \in Contents
      BY DEF Places, Contents
    <3> QED
      BY <1>c, <2>2, <3>1, <3>2, WriteSteady
  <2> QED
    BY <1>10, <1>s, <2>1, <2>2 DEF DropStage
<1>11. CASE RecoverSource
  <2>1. SourceOK(cur)
    BY <1>11, <1>k DEF RecoverSource, SourceOK, Kept, Promise
  <2> QED
    BY <1>11, <1>s, <2>1 DEF RecoverSource
<1>u. ASSUME SourceOK(cur), Proceed("unlink_source")
      PROVE  Steady' /\ Spares
  <2>1. Ready(cur, "unlink_source")
    BY <1>u DEF Ready, SourceOK
  <2> QED
    BY <1>c, <1>u, <2>1, StepSteady DEF Proceed
<1>12. CASE RecoverMove
  <2>1. SourceOK(cur) \/ ~Exists(cur, "source")
    BY <1>12, <1>k DEF RecoverMove, SourceOK, Exists, Kept, Promise
  <2> QED
    BY <1>12, <1>s, <1>u, <2>1 DEF RecoverMove
<1>13. CASE RecoverArchive
  <2>1. /\ SourceOK(cur) \/ ~Exists(cur, "source")
        /\ fs[cur]["archive"] \in {"none", "planned"}
        /\ ~Exists(cur, "source") => fs[cur]["archive"] = "planned"
    BY <1>13, <1>k DEF RecoverArchive, SourceOK, Exists, Kept, Promise, Archived, Whole
  <2>2. CASE SourceOK(cur) /\ ~Exists(cur, "archive") /\ Proceed("recopy_archive")
    <3>1. Ready(cur, "recopy_archive")
      BY <2>2 DEF Ready, SourceOK, Exists
    <3> QED
      BY <1>c, <2>2, <3>1, StepSteady DEF Proceed
  <2> QED
    BY <1>13, <1>s, <1>u, <2>1, <2>2 DEF RecoverArchive, Exists
<1> QED
  BY <1>1, <1>2, <1>3, <1>4, <1>5, <1>6, <1>7, <1>8, <1>9, <1>10, <1>11, <1>12, <1>13
     DEF RecoverTurn

(* A step outside the turns that touches no file and no item. *)
LEMMA AsideSteady ==
  ASSUME Steady, UNCHANGED <<fs, item, meddled>>, errs' = {}, pc' # "mark_stale",
         pc' \notin TurnSteps \/ pc' \in {"begin", "recovery_preflight"}
  PROVE  Steady' /\ Spares
<1>1. \A i \in Items : Whole(i)'
  BY DEF Steady, Whole
<1>2. pc' \in TurnSteps => Ready(cur, pc)'
  BY DEF Ready
<1> QED
  BY <1>1, <1>2 DEF Steady, Spares, Strands

LEMMA HeadSteady ==
  ASSUME Typed, Control, Truth, Steady, Head, UNCHANGED spent
  PROVE  Steady' /\ Spares
<1> USE DEF Typed
<1>0. {"preflight", "space", "mark_stale", "mark_ok", "start_run", "idle", "fail_run"}
        \cap TurnSteps = {}
  BY DEF TurnSteps
<1>s. ~SpendFault
  BY DEF SpendFault, RecordsType
<1>1. CASE Preflight
  <2>1. item[cur] = "pending" /\ cur \in Items
    BY <1>1 DEF Preflight, Control, ProcessType
  <2>2. Kept(cur) /\ Whole(cur)
    BY <2>1 DEF Truth, Steady
  <2>3. PreflightOK(cur)
    BY <2>1, <2>2 DEF PreflightOK, SourceOK, Exists, Kept, Promise, Whole
  <2>4. errs' = {} /\ pc' \in {"preflight", "space"}
    BY <1>1, <1>s, <2>3 DEF Preflight, NextItem, Steady
  <2> QED
    BY <1>0, <1>1, <2>4, AsideSteady DEF Preflight, journal, files
<1>2. CASE CheckSpace
  <2>1. errs' = {} /\ pc' = "mark_ok"
    BY <1>2, <1>s DEF CheckSpace, Steady
  <2> QED
    BY <1>0, <1>2, <2>1, AsideSteady DEF CheckSpace, journal, files
<1>3. ~MarkStale
  BY DEF MarkStale, Steady
<1>4. CASE FailRun
  BY <1>0, <1>4, AsideSteady DEF FailRun, Release, files, world
<1>5. CASE MarkOK
  <2>1. item[cur] = "pending" /\ pc' \notin TurnSteps /\ pc' # "mark_stale"
    BY <1>0, <1>5, PlanAssumption DEF MarkOK, NextItem, Control, ProcessType, Items
  <2>2. \A i \in Items : item'[i] = item[i] \/ (item[i] = "pending" /\ item'[i] = "preflight_ok")
    BY <1>5, <2>1, JournalEffect DEF MarkOK
  <2>3. \A i \in Items : Whole(i)'
    BY <1>5, <2>2 DEF MarkOK, files, Steady, Whole
  <2> QED
    BY <1>5, <2>1, <2>2, <2>3 DEF MarkOK, TurnFrame, Steady, Spares, Strands
<1>6. CASE StartRun
  BY <1>6, AsideSteady DEF StartRun, Goto, files, world, Steady
<1> QED
  BY <1>1, <1>2, <1>3, <1>4, <1>5, <1>6 DEF Head

LEMMA AroundSteady ==
  ASSUME Steady, Tail \/ Commands \/ Kill
  PROVE  Steady' /\ Spares
<1>0. {"preflight", "idle", "report", "close_run"} \cap TurnSteps = {}
  BY DEF TurnSteps
<1>1. CASE Tail
  BY <1>0, <1>1, AsideSteady
     DEF Tail, Finalize, WriteReport, CloseRun, Goto, Release, files, world, Steady
<1>2. CASE StartApply \/ StartRecover \/ Abandon
  BY <1>0, <1>2, AsideSteady DEF StartApply, StartRecover, Abandon, files, world
<1>3. CASE Backfill
  BY <1>3 DEF Backfill, files, process, world, Steady, Whole, Ready, Spares, Strands
<1>4. CASE Kill
  BY <1>0, <1>4, AsideSteady DEF Kill, Release, journal, files
<1> QED
  BY <1>1, <1>2, <1>3, <1>4 DEF Commands

(* A fault, a power loss and an outside change show; a process death does  *)
(* not.                                                                    *)
LEMMA Disturbs ==
  ASSUME RecordsType, NEW b \in {"fault", "meddle", "loss"}, spent' = [spent EXCEPT ![b] = @ + 1]
  PROVE  ~Undisturbed'
  BY DEF RecordsType, Undisturbed

LEMMA CalmSteps ==
  ASSUME Typed, [Next]_vars, Undisturbed'
  PROVE  /\ Undisturbed
         /\ \/ UNCHANGED vars
            \/ (Head \/ Turn \/ RecoverTurn) /\ UNCHANGED spent
            \/ Tail \/ Commands \/ Kill
<1>1. ~SpendFault /\ ~StepFails
  BY Disturbs DEF Typed, SpendFault, StepFails
<1>2. ~PowerLoss
  BY Disturbs DEF Typed, PowerLoss
<1>3. ~Meddling
  BY Disturbs DEF Typed, Meddling, EditSource, RemoveSource, RestoreSource, ReplaceDest,
                  ReplaceArchive, LoseStage, Meddle, InvalidatePlan
<1>4. CASE UNCHANGED vars
  BY <1>4 DEF vars, Undisturbed
<1>5. CASE Head
  <2>1. UNCHANGED spent
    BY <1>1, <1>5 DEF Head, Preflight, CheckSpace, MarkStale, FailRun, MarkOK, StartRun,
                      TurnFrame, world
  <2> QED
    BY <1>5, <2>1 DEF Undisturbed
<1>6. CASE Turn
  <2>1. UNCHANGED spent
    BY <1>6 DEF Turn, BeginStaging, WriteStage, JournalStaged, VerifyStage, SealStage,
                IntendCommit, Link, SyncDest, Unstage, CheckDest, BeginLifecycle,
                RecheckSource, CopyArchive, LinkArchive, SyncArchive, CheckArchive,
                UnlinkSource, SyncSource, JournalCleaned, JournalComplete, TurnFrame, world
  <2> QED
    BY <1>6, <2>1 DEF Undisturbed
<1>7. CASE RecoverTurn
  <2>1. UNCHANGED spent
    BY <1>7 DEF RecoverTurn, RecoveryPreflight, RecoverSettled, RecoverCleaned,
                RecoverCommitted, RecoverLinked, RecoverUnlinked, RecoverStaged,
                RecoverStaging, RecoverUnstaged, DropStage, RecoverSource, RecoverMove,
                RecoverArchive, TurnFrame
  <2> QED
    BY <1>7, <2>1 DEF Undisturbed
<1>8. CASE Tail \/ Commands
  BY <1>8 DEF Tail, Finalize, WriteReport, CloseRun, Commands, StartApply, StartRecover,
              Abandon, Backfill, world, Undisturbed
<1>9. CASE Kill
  BY <1>9 DEF Kill, Typed, RecordsType, Undisturbed
<1> QED
  BY <1>1, <1>2, <1>3, <1>4, <1>5, <1>6, <1>7, <1>8, <1>9 DEF Next, Progress

LEMMA InitSteady == Init => Steady
  BY DEF Init, Steady, Whole, Ready, TurnSteps, Places

Calm == Undisturbed => Truth /\ Steady

LEMMA NextCalm ==
  Typed /\ Control /\ Calm /\ [Next]_vars => Calm' /\ (Undisturbed' => Spares)
<1> SUFFICES ASSUME Typed, Control, Calm, [Next]_vars, Undisturbed'
             PROVE  Truth' /\ Steady' /\ Spares
  BY DEF Calm
<1>1. Undisturbed /\ Truth /\ Steady
  BY CalmSteps DEF Calm
<1>2. ~PowerLoss
  BY Disturbs DEF Typed, PowerLoss
<1>3. Truth'
  BY <1>1, <1>2, StepsTruth
<1>4. CASE UNCHANGED vars
  BY <1>1, <1>3, <1>4 DEF vars, Steady, Whole, Ready, Spares, Strands
<1> QED
  BY <1>1, <1>3, <1>4, CalmSteps, HeadSteady, StagingSteady, CommitSteady, LifecycleSteady,
     RecoverTurnSteady, AroundSteady DEF Turn

(* For any number of process deaths at whatever steps, while nothing       *)
(* fails, no power is lost and nobody else changes a file: no item becomes *)
(* STALE, and none but a PENDING one is left to the operator.  Power       *)
(* losses, faults and outside changes may be in the specification: what is *)
(* said is said up to the first of them.                                   *)
THEOREM CrashesStrandNone == Spec => CrashesStrandNothing
<1>1. Init => Calm
  BY InitTruth, InitSteady DEF Calm
<1>2. Typed /\ Control /\ Calm /\ [Next]_vars => Calm'
  BY NextCalm
<1>3. /\ Typed /\ Control /\ Calm /\ [Next]_vars
      => [Undisturbed' =>
            \A i \in Items :
              item'[i] # item[i] =>
                /\ item'[i] # "stale"
                /\ item'[i] = "recovery_required" => item[i] = "pending"]_vars
  BY NextCalm DEF Spares, Strands
<1> QED
  BY <1>1, <1>2, <1>3, InitTypes, NextTypes, InitControl, NextControl, PTL
     DEF Spec, CrashesStrandNothing
=============================================================================
