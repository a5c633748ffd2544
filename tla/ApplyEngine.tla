----------------------------- MODULE ApplyEngine -----------------------------
(***************************************************************************)
(* One approved plan being published by kavita_ingest.apply_engine, the    *)
(* SQLite journal it writes (apply_journal), the files it touches through  *)
(* LinuxFilesystem, and everything that can happen to them meanwhile:      *)
(* the process is killed, the machine loses power, a file operation fails, *)
(* somebody else changes a file, a later review decision invalidates the   *)
(* plan.                                                                   *)
(*                                                                         *)
(* The engine holds the process lock (flock, released by the kernel when   *)
(* the process dies) for the whole of apply, recover and abandon, so a     *)
(* single program counter is enough.  One action is one journal            *)
(* transaction or one change of a file together with the reads that        *)
(* precede it; a check that guards a LATER file operation is a step of its *)
(* own, because the files may change in between.                           *)
(***************************************************************************)
EXTENDS Naturals

CONSTANTS
  N,               \* number of items in the plan, processed in plan order
  MaxKills,        \* bound: process deaths
  MaxPowerLosses,  \* bound: machine crashes
  MaxFaults,       \* bound: failing file operations, writers, capability checks
  MaxMeddles       \* bound: changes made by anybody else

Items == 1..N

Lifecycles == {"preserve", "move_after_verify", "archive_after_verify"}

ASSUME PlanAssumption == N \in Nat \ {0}

ASSUME BoundsAssumption ==
  /\ MaxKills \in Nat
  /\ MaxPowerLosses \in Nat
  /\ MaxFaults \in Nat
  /\ MaxMeddles \in Nat

ItemStates ==
  {"pending", "preflight_ok", "staging", "staged", "verified", "committing",
   "committed", "cleanup_pending", "cleaned", "complete", "failed", "stale",
   "recovery_required"}

(* ALLOWED_TRANSITIONS. *)
Allowed ==
  [s \in ItemStates |->
     CASE s = "pending" -> {"preflight_ok", "stale", "failed", "recovery_required"}
       [] s = "preflight_ok" -> {"staging", "stale", "recovery_required"}
       [] s = "staging" -> {"staged", "failed", "stale", "recovery_required"}
       [] s = "staged" -> {"verified", "failed", "stale", "recovery_required"}
       [] s = "verified" -> {"committing", "stale", "recovery_required"}
       [] s = "committing" -> {"committed", "stale", "recovery_required"}
       [] s = "committed" -> {"cleanup_pending", "complete", "recovery_required"}
       [] s = "cleanup_pending" -> {"cleaned", "recovery_required"}
       [] s = "cleaned" -> {"complete", "recovery_required"}
       [] s = "failed" -> {"staging", "stale", "recovery_required"}
       [] OTHER -> {}]

RunStates ==
  {"none", "preflighting", "running", "recovery_required", "failed", "complete"}

(* The paths of an item: source, the staging path the journal names (every *)
(* attempt takes a fresh random name; files of earlier attempts are never  *)
(* looked at again), library destination and archive.                      *)
Places == {"source", "stage", "dest", "archive"}

(* What a path can hold: nothing, the bytes the plan fingerprinted, other  *)
(* source bytes, the writer's output for the planned source, its output    *)
(* for other source bytes, a file a power loss cut short, an equal file    *)
(* that is another inode, anything else.                                   *)
Contents ==
  {"none", "planned", "edited", "output", "tainted", "torn", "copy", "foreign"}

VARIABLES
  policy,   \* the immutable plan: the source lifecycle of each item
  run,      \* apply_runs.status of the plan's only run, "none" before apply
  item,     \* apply_items.state
  sealed,   \* apply_items.staged_hash, "none" before VERIFIED
  invalid,  \* the plan has a row in plan_invalidations
  report,   \* the provenance report of the run has been written
  fs,       \* what every process sees at each path
  disk,     \* what a power loss leaves there
  op,       \* the command that holds the lock
  pc,       \* its next step
  cur,      \* the item it works on
  errs,     \* the items whose preflight failed
  spent,    \* how much of each bound is used
  meddled   \* history: items whose files somebody else changed

journal == <<policy, run, item, sealed, invalid, report>>
files == <<fs, disk>>
process == <<op, pc, cur, errs>>
world == <<spent, meddled>>
vars == <<policy, run, item, sealed, invalid, report, fs, disk, op, pc, cur, errs,
          spent, meddled>>

Init ==
  /\ policy \in [Items -> Lifecycles]
  /\ run = "none"
  /\ item = [i \in Items |-> "pending"]
  /\ sealed = [i \in Items |-> "none"]
  /\ invalid = FALSE
  /\ report = FALSE
  /\ fs = [i \in Items |-> [p \in Places |->
             IF p = "source" THEN "planned" ELSE "none"]]
  /\ disk = fs
  /\ op = "none" /\ pc = "idle" /\ cur = 1 /\ errs = {}
  /\ spent = [kill |-> 0, loss |-> 0, fault |-> 0, meddle |-> 0]
  /\ meddled = {}

-----------------------------------------------------------------------------
(* Files.                                                                  *)

Exists(i, p) == fs[i][p] # "none"

Put(f, i, p, c) == [f EXCEPT ![i] = [@ EXCEPT ![p] = c]]

(* A change that only the page cache has seen. *)
Write(i, p, c) == fs' = Put(fs, i, p, c) /\ UNCHANGED disk

(* An fsync of the file and of its directory. *)
Sync(i, p) == disk' = Put(disk, i, p, fs[i][p]) /\ UNCHANGED fs

(* A change and its fsync, where a crash between them is no different from *)
(* a crash before the change.                                              *)
WriteDurably(i, p, c) == fs' = Put(fs, i, p, c) /\ disk' = Put(disk, i, p, c)

(* sha256_file: an equal file has an equal hash, whatever its inode. *)
Hash(c) == IF c = "copy" THEN "output" ELSE c

(* _revalidate_source does not raise. *)
SourceOK(i) == fs[i]["source"] = "planned"

(* The destination is the recorded verified output. *)
DestOK(i) == Exists(i, "dest") /\ Hash(fs[i]["dest"]) = sealed[i]

(* WriterDispatcher.verify(item, candidate): pages and text are compared   *)
(* with the source as it is NOW.  A candidate made from other bytes may    *)
(* still pass (an edit need not touch what is compared) or fail.           *)
VerifyOutcomes(i, candidate) ==
  IF candidate \notin {"output", "tainted", "copy"} \/ ~Exists(i, "source")
    THEN {FALSE}
    ELSE IF <<Hash(candidate), fs[i]["source"]>> \in
              {<<"output", "planned">>, <<"tainted", "edited">>}
      THEN {TRUE}
      ELSE BOOLEAN

-----------------------------------------------------------------------------
(* The journal and the control of the loop over the items.                 *)

Journal(i, s) == item' = [item EXCEPT ![i] = s]

Goto(p) == pc' = p /\ UNCHANGED <<op, cur, errs>>

(* A step that only reads. *)
Proceed(p) == Goto(p) /\ UNCHANGED <<item, files>>

Release == op' = "none" /\ pc' = "idle" /\ cur' = 1 /\ errs' = {}

(* The first step of an item's turn in apply and in recover. *)
TurnStart == IF op = "apply" THEN "begin" ELSE "recovery_preflight"

(* Mutant: the loop runs one item too far. *)
NextItemPastEnd(p, last) ==
  /\ IF cur <= N THEN cur' = cur + 1 /\ pc' = p ELSE cur' = 1 /\ pc' = last
  /\ UNCHANGED op

(* Go to step p of the next item, or to step last after the last item. *)
NextItem(p, last) ==
  /\ IF cur < N THEN cur' = cur + 1 /\ pc' = p ELSE cur' = 1 /\ pc' = last
  /\ UNCHANGED op

EndTurn == NextItem(TurnStart, "finalize") /\ UNCHANGED errs

(* _mark_collision, _mark_stale and _mark_failure: the item state after    *)
(* the exception was handled.                                              *)
AfterCollision(s) == IF s = "committing" THEN "stale" ELSE "recovery_required"

(* Mutant: a source that changed during cleanup is merely stale. *)
AfterStaleInCleanup(s) ==
  IF s \in {"preflight_ok", "staging", "staged", "verified", "committing", "cleanup_pending"}
    THEN "stale" ELSE "recovery_required"

AfterStale(s) ==
  IF s \in {"preflight_ok", "staging", "staged", "verified", "committing"}
    THEN "stale" ELSE "recovery_required"

AfterFailure(s) ==
  IF s \in {"staging", "staged"} THEN "failed"
  ELSE IF s \in {"pending", "preflight_ok", "verified", "cleaned"}
    THEN "recovery_required" ELSE s

RaiseCollision == Journal(cur, AfterCollision(item[cur])) /\ EndTurn /\ UNCHANGED files
RaiseStale == Journal(cur, AfterStale(item[cur])) /\ EndTurn /\ UNCHANGED files
RaiseFailure == Journal(cur, AfterFailure(item[cur])) /\ EndTurn /\ UNCHANGED files

(* _manual_recovery, after which the handler returns. *)
GiveUp == Journal(cur, "recovery_required") /\ EndTurn /\ UNCHANGED files

(* What no step of an item's turn changes. *)
TurnFrame == UNCHANGED <<policy, run, sealed, invalid, report, spent, meddled>>

-----------------------------------------------------------------------------
(* apply: create the run, check every item before anything is written.     *)

Idle == pc = "idle"

(* _eligible_plan accepted the plan, and it has no run yet.  create_run    *)
(* writes the run and its PENDING items in one transaction.                *)
StartApply ==
  /\ Idle /\ run = "none" /\ ~invalid
  /\ run' = "preflighting"
  /\ op' = "apply" /\ pc' = "preflight" /\ cur' = 1 /\ errs' = {}
  /\ UNCHANGED <<policy, item, sealed, invalid, report, fs, disk, spent, meddled>>

PreflightOK(i) ==
  /\ SourceOK(i)
  /\ ~Exists(i, "dest")
  /\ policy[i] = "archive_after_verify" => ~Exists(i, "archive")

SpendFault ==
  /\ spent.fault < MaxFaults
  /\ spent' = [spent EXCEPT !.fault = @ + 1]

(* _preflight_item(cur): paths, fingerprint, capabilities, format. *)
Preflight ==
  /\ pc = "preflight"
  /\ \/ errs' = (IF PreflightOK(cur) THEN errs ELSE errs \cup {cur}) /\ UNCHANGED spent
     \/ errs' = errs \cup {cur} /\ SpendFault
  /\ NextItem("preflight", "space")
  /\ UNCHANGED <<journal, files, meddled>>

(* The checks of the shared library filesystem: no-clobber probe and free  *)
(* space.  They fail for all items or for none.                            *)
CheckSpace ==
  /\ pc = "space"
  /\ \/ errs' = errs /\ UNCHANGED spent
     \/ errs' = Items /\ SpendFault
  /\ pc' = IF errs' = {} THEN "mark_ok" ELSE "mark_stale"
  /\ UNCHANGED <<journal, files, op, cur, meddled>>

MarkStale ==
  /\ pc = "mark_stale"
  /\ item' = IF cur \in errs THEN [item EXCEPT ![cur] = "stale"] ELSE item
  /\ NextItem("mark_stale", "fail_run")
  /\ UNCHANGED <<errs, files>> /\ TurnFrame

FailRun ==
  /\ pc = "fail_run"
  /\ run' = "failed"
  /\ Release
  /\ UNCHANGED <<policy, item, sealed, invalid, report, files, world>>

MarkOK ==
  /\ pc = "mark_ok"
  /\ Journal(cur, "preflight_ok")
  /\ NextItem("mark_ok", "start_run")
  /\ UNCHANGED <<errs, files>> /\ TurnFrame

StartRun ==
  /\ pc = "start_run"
  /\ run' = "running"
  /\ Goto("begin")
  /\ UNCHANGED <<policy, item, sealed, invalid, report, files, world>>

-----------------------------------------------------------------------------
(* One item from preflight_ok or failed to verified: _execute_item,        *)
(* _execute_from_failed_or_preflight, _verify_and_commit.                  *)

BeginStaging ==
  /\ pc = "begin"
  /\ \/ ~SourceOK(cur) /\ RaiseStale
     \/ /\ SourceOK(cur)
        /\ Journal(cur, "staging")
        /\ WriteDurably(cur, "stage", "none")       \* the new name is unused
        /\ Goto("write")
  /\ TurnFrame

(* WriterDispatcher.stage: the writers build a private file and os.replace *)
(* it onto the staging path.                                               *)
WriteStage ==
  /\ pc = "write"
  /\ \/ ~Exists(cur, "source") /\ RaiseFailure
     \/ /\ Exists(cur, "source")
        /\ Write(cur, "stage", IF SourceOK(cur) THEN "output" ELSE "tainted")
        /\ Goto("staged") /\ UNCHANGED item
  /\ TurnFrame

JournalStaged ==
  /\ pc = "staged"
  /\ Journal(cur, "staged")
  /\ Goto("verify")
  /\ UNCHANGED files /\ TurnFrame

(* Mutant: the verified file is not made durable. *)
VerifyStageUnsynced ==
  /\ pc = "verify"
  /\ \E valid \in VerifyOutcomes(cur, fs[cur]["stage"]) :
       \/ ~valid /\ RaiseFailure
       \/ valid /\ Proceed("seal")
  /\ TurnFrame

(* The independent verification, chmod, and the fsync that must precede    *)
(* the durable VERIFIED.                                                   *)
VerifyStage ==
  /\ pc = "verify"
  /\ \E valid \in VerifyOutcomes(cur, fs[cur]["stage"]) :
       \/ ~valid /\ RaiseFailure
       \/ valid /\ Sync(cur, "stage") /\ Goto("seal") /\ UNCHANGED item
  /\ TurnFrame

SealStage ==
  /\ pc = "seal"
  /\ \/ ~Exists(cur, "stage") /\ RaiseFailure /\ UNCHANGED sealed
     \/ /\ Exists(cur, "stage")
        /\ Journal(cur, "verified")
        /\ sealed' = [sealed EXCEPT ![cur] = Hash(fs[cur]["stage"])]
        /\ Goto("recheck") /\ UNCHANGED files
  /\ UNCHANGED <<policy, run, invalid, report, world>>

-----------------------------------------------------------------------------
(* From verified to committed: _commit_verified, LinuxFilesystem.commit    *)
(* (link, fsync, unlink of the staging name), _verify_committed.           *)

IntendCommit ==
  /\ pc = "recheck"
  /\ \/ ~SourceOK(cur) /\ RaiseStale
     \/ SourceOK(cur) /\ Exists(cur, "dest") /\ RaiseCollision
     \/ /\ SourceOK(cur) /\ ~Exists(cur, "dest")
        /\ Journal(cur, "committing")
        /\ Goto("link") /\ UNCHANGED files
  /\ TurnFrame

(* Mutant: a rename, which replaces what is already there. *)
LinkByRename ==
  /\ pc = "link" /\ Exists(cur, "stage")
  /\ Write(cur, "dest", fs[cur]["stage"])
  /\ Goto("sync_dest") /\ UNCHANGED item
  /\ TurnFrame

Link ==
  /\ pc = "link"
  /\ \/ Exists(cur, "dest") /\ RaiseCollision
     \/ ~Exists(cur, "dest") /\ ~Exists(cur, "stage") /\ RaiseFailure
     \/ /\ ~Exists(cur, "dest") /\ Exists(cur, "stage")
        /\ Write(cur, "dest", fs[cur]["stage"])
        /\ Goto("sync_dest") /\ UNCHANGED item
  /\ TurnFrame

(* Mutant: the destination directory is not synced. *)
SyncDestSkipped == pc = "sync_dest" /\ Proceed("unstage") /\ TurnFrame

SyncDest ==
  /\ pc = "sync_dest"
  /\ \/ ~Exists(cur, "dest") /\ RaiseFailure
     \/ Exists(cur, "dest") /\ Sync(cur, "dest") /\ Goto("unstage") /\ UNCHANGED item
  /\ TurnFrame

Unstage ==
  /\ pc = "unstage"
  /\ \/ ~Exists(cur, "stage") /\ RaiseFailure
     \/ /\ Exists(cur, "stage")
        /\ WriteDurably(cur, "stage", "none")
        /\ Goto("check_dest") /\ UNCHANGED item
  /\ TurnFrame

CheckDest ==
  /\ pc = "check_dest"
  /\ \E valid \in (IF DestOK(cur) THEN VerifyOutcomes(cur, fs[cur]["dest"]) ELSE {FALSE}) :
       \/ ~valid /\ RaiseFailure
       \/ valid /\ Journal(cur, "committed") /\ Goto("lifecycle") /\ UNCHANGED files
  /\ TurnFrame

-----------------------------------------------------------------------------
(* From committed to complete: _finish_lifecycle, copy_for_archive,        *)
(* durable_unlink.                                                         *)

BeginLifecycle ==
  /\ pc = "lifecycle"
  /\ IF policy[cur] = "preserve"
       THEN Journal(cur, "complete") /\ EndTurn
       ELSE Journal(cur, "cleanup_pending") /\ Goto("recheck_source")
  /\ UNCHANGED files /\ TurnFrame

RecheckSource ==
  /\ pc = "recheck_source"
  /\ \/ ~SourceOK(cur) /\ RaiseStale
     \/ /\ SourceOK(cur)
        /\ Proceed(IF policy[cur] = "archive_after_verify" THEN "copy_archive" ELSE "unlink_source")
  /\ TurnFrame

(* Copy to a temporary name beside the archive and compare its hash with   *)
(* the plan's.  The re-prefixed steps are the same call from recovery,     *)
(* which does not hash the archive again.                                  *)
CopyArchive ==
  /\ pc \in {"copy_archive", "recopy_archive"}
  /\ \/ ~SourceOK(cur) /\ RaiseFailure
     \/ /\ SourceOK(cur)
        /\ Proceed(IF pc = "copy_archive" THEN "link_archive" ELSE "relink_archive")
  /\ TurnFrame

LinkArchive ==
  /\ pc \in {"link_archive", "relink_archive"}
  /\ \/ Exists(cur, "archive") /\ RaiseCollision
     \/ /\ ~Exists(cur, "archive")
        /\ Write(cur, "archive", "planned")
        /\ Goto(IF pc = "link_archive" THEN "sync_archive" ELSE "resync_archive")
        /\ UNCHANGED item
  /\ TurnFrame

SyncArchive ==
  /\ pc \in {"sync_archive", "resync_archive"}
  /\ \/ ~Exists(cur, "archive") /\ RaiseFailure
     \/ /\ Exists(cur, "archive")
        /\ Sync(cur, "archive")
        /\ Goto(IF pc = "sync_archive" THEN "check_archive" ELSE "unlink_source")
        /\ UNCHANGED item
  /\ TurnFrame

CheckArchive ==
  /\ pc = "check_archive"
  /\ \/ fs[cur]["archive"] # "planned" /\ RaiseFailure
     \/ fs[cur]["archive"] = "planned" /\ Proceed("unlink_source")
  /\ TurnFrame

UnlinkSource ==
  /\ pc = "unlink_source"
  /\ \/ ~Exists(cur, "source") /\ RaiseFailure
     \/ /\ Exists(cur, "source")
        /\ Write(cur, "source", "none")
        /\ Goto("sync_source") /\ UNCHANGED item
  /\ TurnFrame

SyncSource ==
  /\ pc = "sync_source"
  /\ Sync(cur, "source") /\ Goto("cleaned")
  /\ UNCHANGED item /\ TurnFrame

JournalCleaned ==
  /\ pc = "cleaned"
  /\ Journal(cur, "cleaned") /\ Goto("complete")
  /\ UNCHANGED files /\ TurnFrame

JournalComplete ==
  /\ pc = "complete"
  /\ Journal(cur, "complete") /\ EndTurn
  /\ UNCHANGED files /\ TurnFrame

-----------------------------------------------------------------------------
(* recover: resume every item from what the journal and the files prove.   *)

BeforeCommit ==
  {"pending", "preflight_ok", "staging", "staged", "failed", "verified"}

(* Mutant: recover also takes runs with a stale item. *)
StartRecoverStale ==
  /\ Idle /\ run \notin {"none", "complete"} /\ ~invalid
  /\ run' = "running"
  /\ op' = "recover" /\ pc' = "recovery_preflight" /\ cur' = 1 /\ errs' = {}
  /\ UNCHANGED <<policy, item, sealed, invalid, report, files, world>>

(* The run exists, is not complete and has no stale item; the plan is      *)
(* still eligible.                                                         *)
StartRecover ==
  /\ Idle /\ run \notin {"none", "complete"} /\ ~invalid
  /\ \A i \in Items : item[i] # "stale"
  /\ run' = "running"
  /\ op' = "recover" /\ pc' = "recovery_preflight" /\ cur' = 1 /\ errs' = {}
  /\ UNCHANGED <<policy, item, sealed, invalid, report, files, world>>

(* _recovery_preflight.  A destination nobody should have created raises   *)
(* RecoveryRequired, which the loop handles like any refusal.              *)
RecoveryPreflight ==
  /\ pc = "recovery_preflight"
  /\ LET early == item[cur] \in BeforeCommit
         occupied == Exists(cur, "dest") /\ item[cur] # "verified"
     IN \/ early /\ ~SourceOK(cur) /\ RaiseStale
        \/ early /\ SourceOK(cur) /\ occupied /\ RaiseFailure
        \/ /\ early => SourceOK(cur) /\ ~occupied
           /\ Proceed("recover_item")
  /\ TurnFrame

RecoverSettled ==
  /\ pc = "recover_item" /\ item[cur] \in {"complete", "stale", "recovery_required"}
  /\ EndTurn
  /\ UNCHANGED <<item, files>> /\ TurnFrame

RecoverCleaned ==
  /\ pc = "recover_item" /\ item[cur] = "cleaned"
  /\ Journal(cur, "complete") /\ EndTurn
  /\ UNCHANGED files /\ TurnFrame

RecoverCommitted ==
  /\ pc = "recover_item" /\ item[cur] \in {"committed", "cleanup_pending"}
  /\ \/ ~DestOK(cur) /\ GiveUp
     \/ DestOK(cur) /\ Proceed("drop_stage")
  /\ TurnFrame

(* VERIFIED or COMMITTING and the destination is there: only COMMITTING    *)
(* with the sealed bytes is the engine's own interrupted commit.           *)
RecoverLinked ==
  /\ pc = "recover_item" /\ item[cur] \in {"verified", "committing"}
  /\ Exists(cur, "dest")
  /\ \/ (item[cur] = "verified" \/ ~DestOK(cur)) /\ GiveUp
     \/ item[cur] = "committing" /\ DestOK(cur) /\ ~SourceOK(cur) /\ RaiseStale
     \/ /\ item[cur] = "committing" /\ DestOK(cur) /\ SourceOK(cur)
        /\ \E valid \in VerifyOutcomes(cur, fs[cur]["dest"]) :
             \/ ~valid /\ RaiseFailure
             \/ /\ valid
                /\ Journal(cur, "committed") /\ Goto("drop_own_stage")
                /\ UNCHANGED files
  /\ TurnFrame

(* VERIFIED or COMMITTING and no destination: publish the sealed stage.    *)
RecoverUnlinked ==
  /\ pc = "recover_item" /\ item[cur] \in {"verified", "committing"}
  /\ ~Exists(cur, "dest")
  /\ LET stageOK == Exists(cur, "stage") /\ Hash(fs[cur]["stage"]) = sealed[cur]
     IN \/ ~stageOK /\ GiveUp
        \/ stageOK /\ ~SourceOK(cur) /\ RaiseStale
        \/ /\ stageOK /\ SourceOK(cur)
           /\ Proceed(IF item[cur] = "verified" THEN "recheck" ELSE "link")
  /\ TurnFrame

RecoverStaged ==
  /\ pc = "recover_item" /\ item[cur] = "staged"
  /\ \/ ~Exists(cur, "stage") /\ GiveUp
     \/ Exists(cur, "stage") /\ Proceed("verify")
  /\ TurnFrame

(* Mutant: an interrupted writer is left to the operator. *)
RecoverStagingByHand ==
  /\ pc = "recover_item" /\ item[cur] = "staging"
  /\ GiveUp
  /\ TurnFrame

RecoverStaging ==
  /\ pc = "recover_item" /\ item[cur] = "staging"
  /\ Journal(cur, "failed") /\ Goto("recover_item")
  /\ UNCHANGED files /\ TurnFrame

(* Stage again under a new name; a pending item cannot be retried.         *)
RecoverUnstaged ==
  /\ pc = "recover_item" /\ item[cur] \in {"pending", "preflight_ok", "failed"}
  /\ \/ Exists(cur, "dest") /\ GiveUp
     \/ /\ ~Exists(cur, "dest") /\ item[cur] = "pending"
        /\ IF SourceOK(cur) THEN RaiseFailure ELSE RaiseStale
     \/ /\ ~Exists(cur, "dest") /\ item[cur] # "pending"
        /\ Proceed("begin")
  /\ TurnFrame

(* _remove_surviving_stage: only a second name of the published inode goes. *)
DropStage ==
  /\ pc \in {"drop_stage", "drop_own_stage"}
  /\ LET next == IF pc = "drop_stage" THEN "recover_cleanup" ELSE "lifecycle"
         published == fs[cur]["stage"] = fs[cur]["dest"] /\ DestOK(cur)
     IN \/ ~Exists(cur, "stage") /\ Proceed(next)
        \/ Exists(cur, "stage") /\ ~published /\ RaiseFailure
        \/ /\ Exists(cur, "stage") /\ published
           /\ WriteDurably(cur, "stage", "none")
           /\ Goto(next) /\ UNCHANGED item
  /\ TurnFrame

(* The rest of _recover_cleanup: what is still to be done to the source.   *)
RecoverSource ==
  /\ pc = "recover_cleanup" /\ item[cur] = "committed"
  /\ \/ ~SourceOK(cur) /\ GiveUp
     \/ SourceOK(cur) /\ Proceed("lifecycle")
  /\ TurnFrame

RecoverMove ==
  /\ pc = "recover_cleanup" /\ item[cur] = "cleanup_pending"
  /\ policy[cur] = "move_after_verify"
  /\ \/ Exists(cur, "source") /\ ~SourceOK(cur) /\ RaiseStale
     \/ SourceOK(cur) /\ Proceed("unlink_source")
     \/ ~Exists(cur, "source") /\ Proceed("cleaned")
  /\ TurnFrame

(* Mutant: the source goes although the archive was never published. *)
RecoverArchiveUnchecked ==
  /\ pc = "recover_cleanup" /\ item[cur] = "cleanup_pending"
  /\ policy[cur] = "archive_after_verify"
  /\ IF SourceOK(cur) THEN Proceed("unlink_source") ELSE GiveUp
  /\ TurnFrame

(* Mutant: an archive that is already there is taken for somebody else's. *)
RecoverArchiveTaken ==
  /\ pc = "recover_cleanup" /\ item[cur] = "cleanup_pending"
  /\ policy[cur] = "archive_after_verify"
  /\ IF Exists(cur, "archive") THEN GiveUp ELSE Proceed("recopy_archive")
  /\ TurnFrame

RecoverArchive ==
  /\ pc = "recover_cleanup" /\ item[cur] = "cleanup_pending"
  /\ policy[cur] = "archive_after_verify"
  /\ LET archived == fs[cur]["archive"] = "planned"
     IN \/ Exists(cur, "archive") /\ ~archived /\ GiveUp
        \/ /\ ~Exists(cur, "archive") \/ archived
           /\ Exists(cur, "source") /\ ~SourceOK(cur)
           /\ RaiseStale
        \/ SourceOK(cur) /\ archived /\ Proceed("unlink_source")
        \/ /\ SourceOK(cur) /\ ~Exists(cur, "archive")
           /\ Proceed("recopy_archive")
        \/ ~Exists(cur, "source") /\ archived /\ Proceed("cleaned")
        \/ ~Exists(cur, "source") /\ ~Exists(cur, "archive") /\ GiveUp
  /\ TurnFrame

-----------------------------------------------------------------------------
(* Closing a run.                                                          *)

(* The run state that _finalize derives from the items. *)
FinalState ==
  IF \A i \in Items : item[i] = "complete" THEN "complete"
  ELSE IF \E i \in Items : item[i] \in
            {"recovery_required", "failed", "committing", "committed", "cleanup_pending"}
    THEN "recovery_required" ELSE "failed"

AllPreserved == \A i \in Items : policy[i] = "preserve"

Finalize ==
  /\ pc = "finalize"
  /\ run' = FinalState
  /\ IF run' = "complete" /\ AllPreserved THEN Goto("report") ELSE Release
  /\ UNCHANGED <<policy, item, sealed, invalid, report, files, world>>

(* _write_publication_report, a file beside the database. *)
WriteReport ==
  /\ pc = "report"
  /\ report' = TRUE
  /\ Release
  /\ UNCHANGED <<policy, run, item, sealed, invalid, files, world>>

(* backfill_publication_reports: what a crash before the report left out.  *)
Backfill ==
  /\ run = "complete" /\ ~report /\ AllPreserved
  /\ \A i \in Items : item[i] = "complete" /\ sealed[i] # "none"
  /\ report' = TRUE
  /\ UNCHANGED <<policy, run, item, sealed, invalid, files, process, world>>

(* Mutant: a run whose publication was only begun counts as safe. *)
SafeWithCommitting ==
  {"pending", "preflight_ok", "failed", "stale", "complete", "committing"}

SafeToAbandon == {"pending", "preflight_ok", "failed", "stale", "complete"}

(* abandon: invalidate the plan and, in a second transaction, fail the run. *)
Abandon ==
  /\ Idle /\ run \notin {"none", "complete"}
  /\ \A i \in Items : item[i] \in SafeToAbandon
  /\ invalid' = TRUE
  /\ op' = "abandon" /\ pc' = "close_run" /\ cur' = 1 /\ errs' = {}
  /\ UNCHANGED <<policy, run, item, sealed, report, files, world>>

CloseRun ==
  /\ pc = "close_run"
  /\ run' = "failed"
  /\ Release
  /\ UNCHANGED <<policy, item, sealed, invalid, report, files, world>>

-----------------------------------------------------------------------------
(* What can go wrong.                                                      *)

(* The steps that call the filesystem, a writer or a capability check,     *)
(* which may raise OSError, ValueError or ApplyRefused.                    *)
FallibleSteps ==
  {"begin", "write", "verify", "seal", "recheck", "link", "sync_dest", "unstage",
   "check_dest", "recheck_source", "copy_archive", "recopy_archive",
   "link_archive", "relink_archive", "sync_archive", "resync_archive",
   "check_archive", "unlink_source", "sync_source", "recovery_preflight",
   "recover_item", "drop_stage", "drop_own_stage", "recover_cleanup"}

StepFails ==
  /\ pc \in FallibleSteps
  /\ pc = "recover_item" => item[cur] # "cleaned"      \* looks at no file
  /\ RaiseFailure
  /\ SpendFault
  /\ UNCHANGED <<policy, run, sealed, invalid, report, meddled>>

(* The process dies (killed, interrupted, or an exception the loop does    *)
(* not catch); the kernel keeps what it was told and drops the lock.       *)
Kill ==
  /\ ~Idle /\ spent.kill < MaxKills
  /\ spent' = [spent EXCEPT !.kill = @ + 1]
  /\ Release
  /\ UNCHANGED <<journal, files, meddled>>

Unsynced == {at \in Items \X Places : fs[at[1]][at[2]] # disk[at[1]][at[2]]}

(* Each change that was not synced is kept or lost; a file whose data was  *)
(* not synced may also be cut short.  The journal commits with             *)
(* synchronous = FULL.                                                     *)
PowerLoss ==
  /\ spent.loss < MaxPowerLosses
  /\ spent' = [spent EXCEPT !.loss = @ + 1]
  /\ \E lost \in SUBSET Unsynced, torn \in BOOLEAN :
       fs' = [i \in Items |-> [p \in Places |->
                IF <<i, p>> \notin lost THEN fs[i][p]
                ELSE IF torn /\ p = "stage" /\ Exists(i, p) THEN "torn"
                ELSE disk[i][p]]]
  /\ disk' = fs'
  /\ Release
  /\ UNCHANGED <<journal, meddled>>

(* Another program, or the user, changes a path; its change lasts. *)
Meddle(i, p, c) ==
  /\ spent.meddle < MaxMeddles
  /\ fs[i][p] # c
  /\ spent' = [spent EXCEPT !.meddle = @ + 1]
  /\ meddled' = meddled \cup {i}
  /\ WriteDurably(i, p, c)
  /\ UNCHANGED <<journal, process>>

EditSource(i) == SourceOK(i) /\ Meddle(i, "source", "edited")
RemoveSource(i) == Meddle(i, "source", "none")
RestoreSource(i) == ~Exists(i, "source") /\ Meddle(i, "source", "planned")
ReplaceDest(i) == \E c \in {"none", "copy", "foreign"} : Meddle(i, "dest", c)
ReplaceArchive(i) == \E c \in {"none", "foreign"} : Meddle(i, "archive", c)
LoseStage(i) == Meddle(i, "stage", "none")

(* A later review or run-group decision on one of the sources; review does *)
(* not take the process lock.                                              *)
InvalidatePlan ==
  /\ ~invalid /\ spent.meddle < MaxMeddles
  /\ spent' = [spent EXCEPT !.meddle = @ + 1]
  /\ invalid' = TRUE
  /\ UNCHANGED <<policy, run, item, sealed, report, files, process, meddled>>

-----------------------------------------------------------------------------
Turn ==
  \/ BeginStaging \/ WriteStage \/ JournalStaged \/ VerifyStage \/ SealStage
  \/ IntendCommit \/ Link \/ SyncDest \/ Unstage \/ CheckDest
  \/ BeginLifecycle \/ RecheckSource \/ CopyArchive \/ LinkArchive \/ SyncArchive
  \/ CheckArchive \/ UnlinkSource \/ SyncSource \/ JournalCleaned \/ JournalComplete

RecoverTurn ==
  \/ RecoveryPreflight \/ RecoverSettled \/ RecoverCleaned \/ RecoverCommitted
  \/ RecoverLinked \/ RecoverUnlinked \/ RecoverStaged \/ RecoverStaging
  \/ RecoverUnstaged \/ DropStage \/ RecoverSource \/ RecoverMove \/ RecoverArchive

Head ==
  Preflight \/ CheckSpace \/ MarkStale \/ FailRun \/ MarkOK \/ StartRun

Tail == Finalize \/ WriteReport \/ CloseRun

(* Every step of a command that already holds the lock. *)
Progress == Head \/ Turn \/ RecoverTurn \/ Tail

Commands == StartApply \/ StartRecover \/ Abandon \/ Backfill

Meddling ==
  \/ \E i \in Items : \/ EditSource(i) \/ RemoveSource(i) \/ RestoreSource(i)
                      \/ ReplaceDest(i) \/ ReplaceArchive(i) \/ LoseStage(i)
  \/ InvalidatePlan

Next == Progress \/ Commands \/ StepFails \/ Kill \/ PowerLoss \/ Meddling

Spec == Init /\ [][Next]_vars

(* A command that holds the lock keeps running, and the operator repeats   *)
(* recover for as long as it is accepted, as the wizard's home menu asks.  *)
FairSpec == Spec /\ WF_vars(Progress) /\ WF_vars(StartRecover)

-----------------------------------------------------------------------------
(* Properties.                                                             *)

Commanded == {"none", "apply", "recover", "abandon"}

TurnSteps ==
  {"begin", "write", "staged", "verify", "seal", "recheck", "link", "sync_dest",
   "unstage", "check_dest", "lifecycle", "recheck_source", "copy_archive",
   "recopy_archive", "link_archive", "relink_archive", "sync_archive",
   "resync_archive", "check_archive", "unlink_source", "sync_source", "cleaned",
   "complete", "recovery_preflight", "recover_item", "drop_stage",
   "drop_own_stage", "recover_cleanup"}

Steps ==
  TurnSteps \cup {"idle", "preflight", "space", "mark_stale", "fail_run", "mark_ok",
                  "start_run", "finalize", "report", "close_run"}

(* Every variable holds values the program can hold there. *)
TypeOK ==
  /\ policy \in [Items -> Lifecycles]
  /\ run \in RunStates
  /\ item \in [Items -> ItemStates]
  /\ sealed \in [Items -> Contents]
  /\ invalid \in BOOLEAN
  /\ report \in BOOLEAN
  /\ fs \in [Items -> [Places -> Contents]]
  /\ disk \in [Items -> [Places -> Contents]]
  /\ op \in Commanded
  /\ pc \in Steps
  /\ cur \in Items
  /\ errs \subseteq Items
  /\ spent \in [{"kill", "loss", "fault", "meddle"} -> Nat]
  /\ meddled \subseteq Items

Archived(i) == policy[i] = "archive_after_verify" => fs[i]["archive"] = "planned"

(* What the journalled state of an item promises about its files: nothing  *)
(* is published and the source is intact up to VERIFIED, a sealed stage or *)
(* the destination holds the verified output from VERIFIED on, the         *)
(* destination holds it from COMMITTED on, and the source is gone only     *)
(* where its lifecycle says so and, for an archive, only once the exact    *)
(* archive exists.                                                         *)
Promise(i) ==
  LET source == fs[i]["source"]
      dest == fs[i]["dest"]
      retired == source = "none" /\ policy[i] # "preserve" /\ Archived(i)
  IN /\ item[i] \in {"pending", "preflight_ok", "staging", "staged", "failed", "stale"} =>
          source = "planned" /\ dest = "none"
     /\ item[i] = "verified" =>
          /\ source = "planned" /\ dest = "none"
          /\ fs[i]["stage"] = "output" /\ sealed[i] = "output"
     /\ item[i] = "committing" =>
          /\ source = "planned" /\ sealed[i] = "output"
          /\ dest = "output" \/ (dest = "none" /\ fs[i]["stage"] = "output")
     /\ item[i] = "committed" =>
          source = "planned" /\ dest = "output" /\ sealed[i] = "output"
     /\ item[i] = "cleanup_pending" =>
          dest = "output" /\ sealed[i] = "output" /\ (source = "planned" \/ retired)
     /\ item[i] = "cleaned" => dest = "output" /\ retired
     /\ item[i] = "complete" =>
          dest = "output" /\ (IF policy[i] = "preserve" THEN source = "planned" ELSE retired)
     /\ item[i] = "recovery_required" =>
          source = "planned" \/ (dest = "output" /\ retired)

(* The journal never promises more than the files hold, whatever step the  *)
(* process dies at and whatever file operation fails, for every item whose *)
(* files nobody else touched (apply_engine's per-item safety).             *)
JournalTruth == \A i \in Items : i \notin meddled => Promise(i)

(* Until the destination is on disk the source is on disk: no crash can    *)
(* lose both (the durability barriers of LinuxFilesystem.commit and        *)
(* durable_unlink and their order).                                        *)
NothingLost ==
  \A i \in Items : i \notin meddled =>
    disk[i]["source"] = "planned" \/ disk[i]["dest"] = "output"

(* A run closed as FAILED, by preflight, by _finalize or by abandon, has   *)
(* left every untouched item either complete or exactly as it found it.    *)
FailedRunClean ==
  run = "failed" =>
    \A i \in Items : i \notin meddled =>
      item[i] = "complete" \/ (fs[i]["source"] = "planned" /\ fs[i]["dest"] = "none")

(* No step of the engine changes or removes a destination or an archive    *)
(* that somebody else put there.                                           *)
ForeignKept ==
  [][\A i \in Items, p \in {"dest", "archive"} :
       fs[i][p] \in {"copy", "foreign"} /\ spent' = spent => fs'[i][p] = fs[i][p]]_vars

(* JournalRepository.transition refuses every other transition with a      *)
(* ValueError: the engine never asks for one.                              *)
OnlyAllowedTransitions ==
  [][\A i \in Items : item'[i] # item[i] => item'[i] \in Allowed[item[i]]]_vars

(* Nothing has failed, no power was lost and nobody else changed anything: *)
(* at most processes have died.                                            *)
Undisturbed == spent.fault + spent.meddle + spent.loss = 0

(* Process deaths alone, at whatever steps and however often, strand no    *)
(* item whose turn has come: what apply and recover find after them never  *)
(* looks to them like a stale source, a collision, a foreign file or an    *)
(* unverifiable output, so neither leaves an item to the operator.         *)
CrashesStrandNothing ==
  [][Undisturbed' =>
       \A i \in Items :
         item'[i] # item[i] =>
           /\ item'[i] # "stale"
           /\ item'[i] = "recovery_required" => item[i] = "pending"]_vars

(* Once every item is past PENDING, process deaths alone keep no run from  *)
(* completing, provided the operator repeats recover and does not abandon. *)
CrashedRunFinishes ==
  (\A i \in Items : item[i] \notin {"pending", "recovery_required"})
    ~> \/ run = "complete"
       \/ invalid
       \/ ~Undisturbed
=============================================================================
