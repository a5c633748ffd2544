# A verification model of kavita-ingest

kavita-ingest takes incoming books and comics, identifies them with the help of
online providers and of the user, writes an immutable plan, and, once the plan
is approved, publishes the files into a Kavita library: it stages a rewritten
copy, verifies it, links it into the library without ever replacing a file,
and then keeps, moves or archives the source. A SQLite journal records every
step so that an interrupted run can be recovered. This directory holds TLA+
modules translated from the Python source, TLC configurations that check them
on small instances, and proofs that TLAPS checks for every instance.

Paths below are relative to `src/kavita_ingest/` unless they name a file of
the repository's root.

## 1. Inventory

| Component | State it keeps | Operations | Interacts with |
|---|---|---|---|
| Apply engine (`apply_engine.py`) | none of its own: the journal and the files | `apply`, `recover`, `abandon`, `_finalize`, report and backfill; read-only `preview`, `status`, `inspect_recovery` | journal, filesystem, writers, plan store, process lock |
| Apply journal (`apply_journal.py`) | `apply_runs`, `apply_items` and their transitions in SQLite | `create_run`, `transition`, `set_run_state`, `note_error` | one transaction per call, `synchronous = FULL` |
| Durable filesystem (`filesystem.py`) | the files | `commit` (link, fsync, unlink), `durable_unlink`, `make_file_durable`, `copy_for_archive`, `probe_no_clobber`, `ensure_directory` | the kernel; other programs change the same paths |
| Process lock (`locking.py`) | an flock | enter, exit | excludes apply, recover and abandon from each other, but not review, repair or reset |
| Plan store (`plan_store.py`, `planning.py`) | plans, their indexes, preconditions, invalidations, supersessions | `import_bytes`, `approve`, `get` | decisions invalidate plans; apply checks eligibility |
| Decisions and run groups (`decisions.py`, `run_groups.py`, `completed_sources.py`) | append-only decision heads | `add`, `batch_accept`, run-group decisions, `assess` | invalidate the plans whose precondition they change |
| Rate limiter (`rate_limit.py`) | reservations and blocks, shared by all processes | `reserve`, `wait_and_reserve`, `block` | provider client |
| Cached provider client (`providers/client.py`, `provider_store.py`, `provider_runtime.py`) | the response cache | `get` | limiter, transport, cache |
| Provider adapters (`providers/`) | none | search and fetch, normalisation | client |
| Library repair and published reset (`library_repair.py`, `repair.py`) | the library files | plan and apply repairs, move a publication back | filesystem, journal (read) |
| Publication inspection (`rollback.py`, `library_check.py`) | none | previews and reports | journal, library |
| Wizard and review (`wizard.py`, `review.py`, `audit.py`) | the session; all durable state is in SQLite | resume detection, review loop | decisions, plan store, engine |
| Planning service (`planning_service.py`, `projection.py`, `canonical.py`, `naming.py`, `domain.py`) | none | build a plan from sources and decisions | decisions, plan store |
| Matching and resolution (`matching.py`, `candidates.py`, `collection_candidates.py`, `resolution.py`, `hydration.py`, `match_store.py`) | stored matches | score, merge, resolve | provider client, review |
| Parsing and presentation (`parsing.py`, `comicinfo.py`, `presentation.py`) | none | names to metadata, metadata to screens | all of the above |
| Discovery and inspection (`discovery.py`, `scanner.py`, `inspectors/`, `archive_safety.py`, `repositories.py`) | stored source records | scan and fingerprint | review, planning |
| Writers (`writers/`, `calibre.py`) | the staged file | stage, verify | engine, repair |
| CLI, configuration, doctor, database (`cli.py`, `config.py`, `doctor.py`, `db.py`, `migrations/`) | configuration, schema | commands, migration | all |

What makes this system hard, and the properties that make each part correct:

- *Engine, journal, filesystem.* Journal and files cannot be changed in one
  atomic step. The process may die between any two of them, the machine may
  lose what was not synced, any call may fail, and other programs use the same
  directories. Correct means: the journal never claims more than the files
  hold; no crash loses both source and publication; nothing that belongs to
  somebody else is replaced; an interrupted run can be finished; a run that is
  closed as failed has left nothing half done.
- *Plans, decisions.* Decisions may be recorded while a plan is drafted,
  approved or applied. Correct means: no run starts from a plan whose
  decisions have changed, and no plan is closed to every operation.
- *Limiter, client.* Several processes share one window. Correct means: the
  window and the interval hold across processes, a block is respected, a
  waiting client gets its turn.
- *Repair and reset.* Actions outside the process lock. Correct means: no
  work is lost whatever stops half way, what is left behind is reported, and
  what was published or repaired needs no repair.

- *Review.* Every answer is committed at once, so the review can die between
  any two rows. Correct means: resuming leads to what is there; what was
  accepted in a completed review is planned, and nothing else is.
- *Matching.* Partial answers of several providers decide what may be accepted
  unseen. Correct means: what is eligible is the item; a run is resolved by
  its name or by the user; a failure is never mistaken for "not found".

`PROJECT.json` lists every hazard with its line and the properties that cover
it; a hazard that no property covers says why.

## 2. The modules

| Module | Models | Composed of | Configurations |
|---|---|---|---|
| `ApplyEngine` | apply, recover, abandon with journal, lock, filesystem, writers as the engine sees them | | `MCApplyEngine`: `apply_crash`, `apply_power`, `lost_publication`, `staged_dead_end`, `abandon_uncertain` |
| `Publication` | the contract of one run, without staging, links, hashes, crashes | | as a property of `apply_crash` |
| `ApplyRefinement` | the mapping from engine to contract | `ApplyEngine`, instance of `Publication` | `MCApplyEngine` |
| `Decisions` | what a decision history means: operators | | used by the next two |
| `PlanStore` | decisions, building, storing, approving and the engine's eligibility check, by several processes | `Decisions` | `MCPlanStore`: `plan_races` |
| `ReviewFlow` | the guided review with resume detection | `Decisions` | `MCReviewFlow`: `review_session`, `completed_replanned` |
| `RateLimiter` | one bucket: clock readings, reservations, blocks | | used by the next |
| `ProviderClient` | one cached request of several processes | `RateLimiter` | `MCProviderClient`: `provider_client` |
| `LibraryCheck` | the check's findings and the repair plan: operators | | used by the next two |
| `Projection` | identity of a decision, path and metadata of a publication: operators | `LibraryCheck` | used by the next |
| `LibraryRepair` | library-fix and published reset, without a lock | `Projection` | `MCLibraryRepair`: `library_repair`, `pdf_book_moved` |
| `Matching` | the scorer: operators | | used by the next |
| `AuditSession` | run resolution and the search ladder of one audit | `Matching` | `MCAuditSession`: `audit_session` |
| `ApplyEngineProofs`, `ApplyEngineTruthProofs`, `ApplyRefinementProofs`, `PlanStoreProofs`, `ReviewFlowProofs`, `ProviderClientProofs`, `LibraryRepairProofs`, `AuditSessionProofs` | the proofs of section 10 | the module they are about | |

Each module header says what a state is and what one action is. `PROJECT.json`
maps every definition to the lines it translates. Sections 3 to 8 describe the
modules, section 9 the bounds and the findings.

## 3. ApplyEngine

One approved plan, from `apply` to the closing of its run.

| Variable | In the code |
|---|---|
| `policy` | the source lifecycle of each item in the immutable plan |
| `run`, `item`, `sealed` | `apply_runs.status`, `apply_items.state`, `apply_items.staged_hash` |
| `invalid` | a row in `plan_invalidations` |
| `report` | the publication report of the run exists |
| `fs`, `disk` | the content of each path as processes see it, and as a power loss would leave it |
| `op`, `pc`, `cur`, `errs` | the command that holds the lock, its next step, its item, the preflight errors it has collected |
| `spent`, `meddled` | how much of each bound is used; which items' files somebody else changed |

*Granularity.* `apply`, `recover` and `abandon` hold the process lock, so one
program counter is enough. One action is one journal transaction or one change
of a file, with the reads directly before it. A check that guards a later file
operation is a step of its own: the file may change in between. For example
`LinuxFilesystem.commit` is `Link`, `SyncDest`, `Unstage`, and
`durable_unlink` of the source is `UnlinkSource`, `SyncSource`.

*Exceptions.* The loops of apply and recover turn an exception into a journal
state that depends on the state the item is in: `RaiseCollision`,
`RaiseStale`, `RaiseFailure` are `_mark_collision`, `_mark_stale`,
`_mark_failure`. `StepFails` lets any step that calls the filesystem, a writer
or a capability check fail. An exception the loops do not catch ends the
process and is a `Kill`.

*Environment.* `Kill` keeps the files, drops the lock. `PowerLoss` keeps or
loses each unsynced change independently, and may cut an unsynced staged file
short. `Meddling` edits, removes or restores a source, replaces or removes a
destination or an archive, removes a stage, or records a decision that
invalidates the plan.

*Contents.* A path holds one of eight contents, which is what the checks of
the code tell apart: nothing, the planned bytes, edited source bytes, the
writer's output, output made from edited bytes, a torn file, an equal file
with another inode (the code compares hashes and inodes), anything else.
Verification compares a candidate with the source as it is at that moment;
when a candidate and the source do not belong together it may accept or
refuse.

*Abstractions.* A recovery attempt stages under a new random name, so the
model reuses the path and forgets orphans (nothing in the engine reads them).
All items share one library filesystem: the free-space and no-clobber checks
fail for all items or for none. The capability, format and path checks are one
nondeterministic refusal. An edit of a source lasts, except that a removed
source may come back. The archive's temporary copy is synced before its link
and appears only as that link. `Unstage` unlinks and syncs the directory in one
step, since nothing reads the stage any more, and `Link` reports an existing
destination as a collision even when the stage is missing, where the kernel
would name the stage first: both are failures of the item. Directory creation, file modes, empty-directory
removal, progress callbacks and messages are left out. Backfill takes no lock
in the code and needs none in the model. The report is a flag: its content, and
what a power loss leaves of it, are not modelled.

### Properties

| Property | Meaning |
|---|---|
| `TypeOK` | types |
| `JournalTruth` | for every item nobody else touched, the journalled state is true of the files: intact up to VERIFIED, a sealed copy from VERIFIED on, published from COMMITTED on, source gone only as its lifecycle allows and never before an exact archive exists |
| `NothingLost` | source or destination is on disk at every moment |
| `FailedRunClean` | a run closed as FAILED, by preflight, finalize or abandon, left every untouched item complete or as it was found |
| `ForeignKept` | the engine never changes a destination or archive somebody else put there |
| `OnlyAllowedTransitions` | no step asks the journal for a transition it refuses with a ValueError |
| `ImplementsPublication` | the engine implements `Publication` (below) |
| `CrashesStrandNothing` | while at most processes die, no item becomes STALE and none but a PENDING one is left to the operator: what recovery finds never looks like a changed source, a collision, a foreign file or an unverifiable output. A PENDING item is left to the operator by design: `_proposed_recovery` announces it as manual intervention |
| `CrashedRunFinishes` | once every item is past PENDING, deaths of the process alone keep no run from completing while the operator repeats recover |

`JournalTruth`, `NothingLost` and `FailedRunClean` speak of items nobody else
touched: with the source replaced under it the engine can only stop, and it is
`ForeignKept` that says what it must not do then.

*Fairness.* `FairSpec` asks for `WF(Progress)`, since a command that holds the
lock is a running sequential program, and `WF(StartRecover)`, since the
wizard's home menu offers the interrupted run first and the operator is
assumed to take the offer as long as the engine accepts it. Nothing is assumed
of apply, abandon, backfill or the environment. Deadlock is not checked: a
completed or abandoned run is a proper end.

### The contract: Publication and ApplyRefinement

`Publication` is what one run promises to a reader of its journal, in five
variables. A work goes from the incoming folder to the library in the order
publish, archive, retire; the journal says "complete" only of a finished work,
"stale" only of one that is as it was found, and hands one to the operator only
while its source is there or it is finished; a work the journal has spoken of
is left alone; a run closed as COMPLETE has only complete works, one closed as
FAILED no half-done work, and a closed run stays closed. It knows no staging,
links, hashes, deaths or recovery.

`ApplyRefinement` maps the engine to it: `copies` is where an untouched item's
bytes are right (`source`, `library`, `archive`), `told` the terminal item
states, `verdict` the terminal run states. `ImplementsPublication` is
`Contract!Spec`, checked in `apply_crash` and proved (section 10) without power
losses. With a power loss it is false: the loss can undo a publication, which
is what `lost_publication` and `staged_dead_end` are about.

## 4. Decisions and PlanStore

A decision history is a sequence of rows; the position of a row stands for its
id. `Decisions` says what a history means: `Latest`, `Edits` (overrides),
`Authorization`, `Resolves`, `NeedsReview`, `Suppressed`, `RunAgrees`.

| Variable of `PlanStore` | In the code |
|---|---|
| `history`, `recorded` | table `decisions` by source; the number of rows of both kinds, for the bound |
| `choices` | `run_group_decisions` of the series |
| `plans` | `plans` with index, preconditions, supersession, invalidation and run of each |
| `builder` | `PlanBuilder.build` between its reads |
| `approving` | the plan whose approval has passed its checks but not yet its UPDATE |
| `lock` | what apply, recover or abandon, holding the process lock, does to which plan |

One action is one transaction, or one read whose result is used after another
process may have written. `PlanBuilder.build` reads head, identity and run
choice of each source apart, and the plan is stored later still; `approve`
checks invalidation, supersession and status before its UPDATE; apply checks
eligibility before it creates the run. Review and planning take no lock.
Destinations and their collisions are a nondeterministic part of a plan's
content; all comics are of one series; an override concerns one field that may
be missing and then blocks planning.

A plan may also be a document that is imported (`ImportFile`). Its preconditions
are what it says of itself: no decision, any decision on record, of another
source even (`Elsewhere`: the column refers to the whole table), and any run
choice. `_derive_indexes` copies them, and nothing ever compares the identity the
document claims with the decision it names. `Documents` are the claims that may
be imported, `MaxImports` bounds how often; an imported plan has one item.

- `EligibleIsCurrent`: a plan built here that the engine would apply states, for
  each of its items, the newest authorizing decision with the current
  overrides, not excluded since, in agreement with the run now selected. It is
  not so of an imported document, which may name the newest decisions and claim
  another identity; imports take part in the run all the same, since they
  supersede what was built.
- `OneLivePlan`: of two plans that share a source, imported ones included, only
  the newer can still be applied for the first time.
- `RefusalIsFinal`: an approved plan the engine refuses once is never accepted
  again, imported ones included. This is about the user who withdraws by any decision, a later
  change of mind included.

## 5. ReviewFlow

| Variable | In the code |
|---|---|
| `history`, `choices` | as above |
| `evidence` | the local evidence hash a scan would compute now |
| `session` | what the wizard keeps in memory: the audit, what was decided in this pass, the re-review baseline |
| `plan`, `built` | the newest plan and how far it is (a draft, invalidated, its run interrupted or ended), the number built |
| `taken` | the newest decision of each source an apply run was started on |
| `done` | sources published by a complete run with the destination intact |
| `unmarked` | comics whose decisions the last run choice has not looked at yet |
| `under` | history: how many run choices there were at a source's latest decision |

One action is one answer with every row it commits; where the code commits
several rows in separate transactions (the start-year override and the
acceptance, the items of a batch, a run choice and its marks) each is an
action, and `Die` may come between them and drops `session`. Planning is one
step, since `PlanStore` has its reads apart.

An apply run (`Apply`) takes the decisions its plan was built on, and completes,
fails or is interrupted; an interrupted one is recovered, with either end, or
abandoned (`RunEnds`), and until then the wizard starts nothing else
(`StartsFrom`). However a run ended, its decisions count as taken (`Consumed`):
`_reviewed_without_plan` asks only whether any `apply_runs` row of a plan names
the decision, so that after a failed run the source has to be decided again
before resume detection offers it. Approval and the draft's menus are part of
`Apply`.

What the providers know of a source is a sequence of candidates, best first.
The audit ranks those of the selected run, or, where that search brings none,
what the relaxed search brings of whatever run (`Ranked`); [S]earch and [V] know
of no selected run, so any candidate can be shown and accepted (`Displayed`). A
candidate may lack the year its run began in (`Yearless`) and is then accepted
only with the year of the file's name, confirmed by an override; an identity the
user types has its year asked for, so that `Manual` is assumed not to be one of
them.

- `ResumeIsTrue`: while a decision that authorizes its source and that no apply
  run was started on, or an unresolved source, waits, the wizard offers
  something; and the plan it offers, or the plan of the interrupted run it
  offers to recover, is contradicted by no later decision.
- `CompleteReviewPlansAll`: no identity accepted in a completed review is
  left out of the plan, but for one accepted after the choice of the run and in
  spite of it, which planning reports as `run_changed`, and one the choice has
  not looked at.
- `CompleteReviewIsFresh`: what it plans was decided in view of the evidence
  shown and after the heads a re-review started from.
- `ExplicitOutcomesStand`: every row of a source is the operator's answer at that
  source, or one of three steps that decide for many: a batch, which takes only
  sources still to be reviewed, in a re-review too, and never a candidate
  rejected on the same evidence; a reopening, which touches unresolved sources
  only; and the marks after a run choice, which set back acceptances of another
  run only.

## 6. RateLimiter and ProviderClient

| Variable | In the code |
|---|---|
| `ages` | `provider_rate_reservations`: how long ago each was made |
| `blocked` | time left until `blocked_until` |
| `read`, `sleep` | how long ago each process read its clock; how long it still sleeps |
| `cache` | the row of the request in `provider_cache`: schema, age, and age of the raw answer behind it |
| `client` | step, mode, schema version and attempt of each process |
| `installed` | the release that starts now |
| `promised`, `mixed` | history, used by properties only |

Time is relative, so the state stays finite while time goes on for ever. The
clock is read before `BEGIN IMMEDIATE` waits for the database; reading and
transaction are separate actions and the reading may be old by the busy
timeout. A reservation leaves the table when a later one finds it older than
the window; the table is a sequence, oldest first.

- `PolicyKept`: window and interval hold across processes, by the times the
  reservations carry.
- `BlockRespected`: nobody gets a reservation while a recorded Retry-After
  runs, however old its clock reading.
- `RowTellsItsAge`: no candidate outlives the TTL in the cache; it holds until
  a schema migration overwrites a newer row with an older answer (`mixed`),
  which the three separate steps of the migration allow and nothing in the
  code prevents.
- `NoStandstill`: while a process waits for the bucket, some request is let
  through or the process gives up. It does not say that *each* waiter gets its
  turn: the code gives no such guarantee.

*Fairness.* Time passes, and a process that waits for the bucket keeps
running. Nothing is assumed of the network, of other releases or of deaths.

## 7. LibraryCheck, Projection and LibraryRepair

`LibraryCheck` is how names are read back (`ComicReading`), the naming policy and
the findings of `library_check` that carry a file, and the repair plan drawn from them, over a library: a function
from paths to contents. `Projection` is the other side: the identity a
decision stands for with its overrides, what blocks it from a plan, and path
and metadata of what is then published. The policy is written twice in the
code, and `PublishedIsCanonical` compares the two.

| Variable of `LibraryRepair` | In the code |
|---|---|
| `files` | what lies at each path of the libraries and of Incoming |
| `verified` | a completed apply record: path and hash of a publication |
| `fixer` | each `library-fix`: its plan, step and temporary file |
| `reset` | the published reset |
| `meddling`, `current` | bound; history: versions of the user's files nobody replaced |
| `raced` | history: versions that came to a path in a race window, or came back to it between a repair's reading and its check |
| `mistaken` | history: versions a repair took for the file it had planned for |

A hash is the content it is the hash of. Each system call that changes a name
is an action; directory creation and removal are not modelled. A user edits a
file by replacing it, and each edit or arrival is a new version. The constants
are constrained as the code constrains them: what `classify` makes of a
container (a CBZ or CBR is a comic, an EPUB a book, and only a comic archive
carries a Format), Incoming outside the libraries, the name of a temporary
directory that is no folder of a library, distinct files at the start, a
decision that is about a book or a comic and whose volume is an integer, and a
source that could be inspected.

A name is the sequence of its parts between " - ". The check reads a name again
with `_comic_hypothesis`, which is no inverse of rendering: it knows a number, a
"v01", a "Volume 1" or an edition label by how the part reads, and takes most
names for a title whole. `ComicReading` does the same on parts. What is left out
of it: words within a part (Annual, Special, Book, TPB and the like), qualifiers
and years in parentheses, and release noise, none of which the policy writes;
metadata that itself contains " - "; and `{author}`, which `projection.py:148`
fills and `library_check.py` leaves empty for comics: no default template uses
it. Of a PDF the inspector reads title and author only, so a PDF book has no
series unless its name or folder makes it look like a comic (`LooksLikeComic`).
Whether a PDF comic's name begins with its folder is asked of whole parts.
A finding, `_collection_number_migration` and the hash of one file are taken
at one instant each: the check in `Check`, the other two in `Plan`, with
anything in between.

Two repairs of one file can overlap, and neither hashes its source in the same
step as it links or reads it. So a repair may take up a file that another one
moved to the path it had planned for: `mistaken` records it. A move then names
that file after the planned one; a rewrite notices at its hash, unless the
planned file has come back meanwhile, which `raced` records.

- `NothingLost`: every current version of a file lies somewhere, unless it came
  to a path between the last look at it and the call that removes or replaces
  what is there, or came back to it between a repair's reading and its check
  (`raced`); the calls the code uses cannot close these windows.
- `LeftoversReported`: a second copy left by a stopped repair is found by the
  next check. Not so for a mistaken file: in the library `Misnamed` a repair is
  about to give a titled annual the name with its title when the reset takes it
  away and another repair moves an untitled annual to its path. The first one
  links that under the titled name and dies. A file without a title is read
  with the title of its name, so the check finds either name right, and annuals
  without a number claim no slot. A comic without a series in its ComicInfo is
  excepted: it has its series from its folder or its name.
- `RepairSettles`: a file repaired as it was checked needs no repair, so that
  rerunning comes to an end, if its name follows from what it carries
  (`NamesByContent`): a book has its title, a comic series and title, or it is an
  issue read without a title. Otherwise it need not settle. An annual `A.cbz`
  without a title is read with the title "A" and becomes `A - A.cbz`, which is
  read with the title "A - A", and so on; `A - v01.cbz` without a title is read
  with the title "Volume 1" and becomes `A - v01 - Volume 1.cbz`. The model does
  this too; `MaxParts` bounds it.
- `PublishedIsCanonical`: with a file published under a complete name the
  check finds no fault, so library-fix does not move it from where the apply
  record says it is.

`Complete` in `PublishedIsCanonical` is the condition under which publisher and
check agree: each part of the name can be read from the file again. Outside it
they differ. A PDF book of a series has its series in its XMP, which the
inspector does not read: `pdf_book_moved` shows library-fix planning to rename
it as soon as it is published, although README.md, lines 305-306, says that a
warning marks what "does not match what kavita-ingest would publish today". A
one-shot or graphic novel without a number is published with Number "1" in its
metadata and no number in its name; a number written wider than the padding; a
Number that is no integer, or an item overridden into a collection, without
Volume; a title that reads as an edition label; no title where the name is read
with one; a Title or a book's series already in the source that the publication
neither sets nor clears. These are stated here and have no run of their own.
Nearby, `resolution.py` reads a manual identity's number under another key
(`sequence`) than the one the review records for a book (`series_index`), so a
typed index has no effect (`OfManual`).

## 8. Matching and AuditSession

`Matching` is the scorer with its weights, contradictions and eligibility.
Instead of two titles it has the band their similarity falls in; numbers and
years are compared by value. `AuditSession` is one audit: `catalogue` and
`selection` are its world, `resolved` and `probes` the candidate session,
`at`, `phase`, `shop`, `variant`, `todo`, `hits`, `longest` the progress
through run search, probing, run issues, relaxed search and book shops, and
`found`, `heard`, `refused`, `attempts` the answer. A search returns any few of
the records a provider holds, and every request may fail. Comic Vine's search
is for issues and volumes: a volume is thrown away before scoring
(`Identities`), but where the structured answer is tested unfiltered, for a
comic without a number, it counts as found, and the relaxed search is not made.
After an ambiguous series the answer is filtered first, and from the search of a
run only issues come.

Abstractions: a run has or lacks a start year wherever it is shown; a local
title fits an issue's title exactly or not at all; Comic Vine identifier
lookups find nothing without a request; a comic has a series name; a search
brings at most one volume; a provider always has a cache to ask,
so none is skipped as disabled; an eligible margin of zero, under which the
order of keys would choose, is excluded.

- `EligibleIsRight`: a candidate that may be accepted unseen is the item: the
  number and the series title agree and, of an issue (an annual or special
  likewise), the run has a start year and no other run of that name offers the
  number. A one-shot is exempt from the last two in the code, so it may be
  accepted unseen from an undated run or one of several. For books and collections title or ISBN (or
  the stated number, or two qualifiers) agree and nothing conflicts.
- `SelectionDecides`: where the chosen run holds the issue the candidates are
  that run's only.
- `ResolvedByName`, `ResolutionStable`: a series is resolved to a run of its
  name or by the user, and keeps it for the rest of the audit. Two selections
  that claim the same name are excepted: the one seeded last wins.
- `NoCandidateMeansAsked`: "no candidate" from a provider means that all its
  queries were answered, the widest included; only a comic without a number is
  given up before, when its first search found nothing but volumes.

## 9. Runs, bounds and findings

| Run | Question | Instance | Result |
|---|---|---|---|
| `apply_crash` | deaths, failures and foreign changes at any step | 2 items, any lifecycles, 1 death, 1 fault, 1 change | eight properties hold (585 091 states) |
| `apply_power` | power loss at any step | 2 items, 2 losses, 1 change | `JournalTruth`, `NothingLost` hold |
| `plan_races` | decisions between the reads of planning, approval and apply | 2 sources, one a comic, 1 candidate, 2 runs, 4 rows, 2 plans, one of them imported | four properties hold |
| `review_session` | any answers, death between any two rows, another scan, runs that fail or are interrupted | 2 comics of one series, 2 candidates, 2 runs, 3 rows, 2 plans, 2 evidence hashes | five properties hold |
| `provider_client` | stale clock readings, 429s, migrations, deaths | 2 processes, 2 requests in a window of 3, interval 1, busy timeout 1, TTL 1, 1 retry, Retry-After 0 or 2, 2 releases | five properties hold |
| `library_repair` | two repairs, a reset and the user at work | 19 libraries of one or two files and every publication, 2 repairs, 1 edit, arrival or overlapping repair, names of at most 4 parts | five properties hold (279 985 states) |
| `audit_session` | any few answers, any failures | 9 batches of 2 or 3 items, 3 runs of one name and one of another, 2 runs probed, 4 probes, 2 query variants, 2 hits | six properties hold (701 630 states) |
| `lost_publication` | is some copy always left? | 1 item, 1 death, 1 loss | violated |
| `staged_dead_end` | is a STAGED item with sound preconditions retried? | 1 item, 1 loss | violated |
| `abandon_uncertain` | is abandon refused when an outcome is uncertain? | 1 item, 1 death, 1 change | violated |
| `completed_replanned` | are completed sources left out of ordinary runs? | as `review_session` | violated |
| `pdf_book_moved` | does a published PDF book stay where it is? | the PDF books of series among the publications of `library_repair` | violated |

*Why the bounds are enough to be interesting.*

- Engine: items interact only through the loop, the run state and the
  preflight's all-or-nothing, for which two items (one ahead of, one behind
  the current one) suffice; the plan assigns any of the three lifecycles to
  each. One death at any step followed by a recovery reaches every recovery
  branch, and a fault or a foreign change can strike before, during or after
  it; two deaths pass as well and ask nothing new. Two power losses allow one
  during the recovery from the other. `NothingLost` is checked without process
  deaths, because with one it fails: that is `lost_publication`.
- Plans: a plan states or contradicts one source or both; four rows are enough
  for decide, plan, decide again in each of the windows, and to return to an
  earlier choice; two plans are the least for supersession, of a built plan by an
  imported one too. The proofs remove the bounds.
- Review: three rows give an acceptance, a contradicting run choice and a mark,
  with a death before each; two plans give one that is published or superseded.
  `c2` of run `r2` is on offer for source 1 whatever run is selected.
- Client: two processes are one that reads its clock and one that overtakes it;
  the window is longer than the interval and than the busy timeout, so that
  each of the three waits decides somewhere.
- Repair: one file misplaced and one in its way, or one published; the race
  needs one edit, one arrival or one overlapping repair. A name of four parts is
  one more than the policy gives, so that a name that grows is seen to grow. The
  two repairs are alike but for the name of their directory, which is a symmetry.
- Audit: three runs of one name with two looked at reach the ambiguous, the
  unique and the overlooked run; four probes can be spent by the second series
  so that the third meets an empty budget.

*Fairness.* `FairSpec` of the engine and that of the client are described with
their modules; all other specifications are safety only. Deadlock is not
checked where a command properly ends or a bound stops the environment: the
engine, plans, review and repair. It is checked for client and audit.

### Findings

1. `lost_publication`: a death between `os.link` and the fsync of the
   destination directory leaves a name that only the page cache knows. Recovery
   sees the destination, journals COMMITTED, removes the stage and the source,
   and never repeats the fsync. A power loss then leaves no copy.
2. `staged_dead_end`: STAGED is journalled before the staged file is synced.
   After a power loss the file may be missing, and recovery gives the item up,
   while `_proposed_recovery` announces that it will be staged again.
3. `abandon_uncertain`: recovery of a published COMMITTING item whose source
   has been edited journals STALE, and abandon counts STALE as safe.
4. `completed_replanned`: the wizard excludes completed sources from review,
   but `PlanBuilder.build` plans every reviewed source below the directory, so
   a source published earlier under `preserve` is in the next plan, whose
   destination conflict then keeps the plan from being approved.
5. `pdf_book_moved`: library-check reports a PDF book of a series as
   noncanonical where apply has published it, since it never reads the series
   back, and library-fix plans to rename it.

A further observation has no document to contradict: when a decision
invalidates the plan of an interrupted run with a STAGED or COMMITTING item,
recover refuses the plan and abandon refuses the item.

## 10. Proofs

The theorems assume what the modules assume of their constants and hold for
every value of them: any number of items, sources, runs, processes, and any
bounds.

### ApplyEngine

- `ApplyEngineProofs!TypeCorrect`: `Spec => []TypeOK`. `Typed` (the types of
  the records, the files and the process, split in three so that a step needs
  only the part it touches) is inductive.
- `ApplyEngineProofs!TransitionsAllowed`: `Spec => OnlyAllowedTransitions`.
  That a transition is allowed depends on the state the current item can be in
  at each step, so the inductive invariant adds `Control`: during preflight
  all items are PENDING (or already PREFLIGHT_OK before the counter), and at
  each step of a turn the state of the current item is one that `Fits` the
  step.
- `ApplyEngineTruthProofs!JournalTruthHolds`, when `MaxPowerLosses = 0`.
  `Promise` is not inductive: between a file operation and its journal row the
  files run ahead of the journal. `Here(i, p)` says what the files of the
  current item hold at step `p`; `Truth` requires it of an untouched current
  item and `Promise` of all untouched items; one lemma per group of actions
  shows the step from one to the next.
- `ApplyEngineTruthProofs!FailedRunsAreClean`, when `MaxPowerLosses = 0`:
  `Clean` and `Closing` add that a step about to close a run as FAILED sees
  only items whose promise is harmless.
- `ApplyEngineTruthProofs!ForeignFilesKept`, unconditionally: only `Link` and
  `LinkArchive` write to these places, and both require them empty.
- `ApplyEngineTruthProofs!PowerLossLosesNothing`:
  `Spec /\ [][BarriersReached]_vars => []NothingLost /\ []JournalTruth /\ []FailedRunClean`,
  for any number of power losses, deaths, failures and changes by others.
  `BarriersReached` says that no death and no failing operation hits a step
  between a change of a directory and its fsync. Without it the theorem is
  false: `lost_publication` is such a death. The invariant adds `Durable`: of
  an untouched item the disk has every file processes see, except, at the
  barrier itself, the one just changed, of which it has what was there before.
  A run closed as FAILED is at no barrier, so `Closing` lasts through a loss.
  `PowerLossAloneLosesNothing` draws the case of `apply_power`
  (`MaxKills = MaxFaults = 0`) from it.
- `ApplyEngineTruthProofs!CrashesStrandNone`: `Spec => CrashesStrandNothing`,
  unconditionally: faults, power losses and changes by others may be in the
  specification, and the property speaks of the time before the first of them.
  `Truth` is not enough for it, since a promise may leave open whether the
  staging file is there or what is at the archive, and every refusal in the code hangs
  on such a file. The invariant `Calm` therefore adds, for undisturbed states,
  what each journalled state says of stage and archive (`Whole`) and what
  each step of a turn finds (`Ready`). From these, every branch that refuses is
  contradicted step by step, except that of a PENDING item in
  `RecoverUnstaged`, which the code refuses on purpose. It is the safety half
  of `CrashedRunFinishes`.


### ApplyRefinement

- `ApplyRefinementProofs!EngineImplementsPublication`, when
  `MaxPowerLosses = 0`: `Spec => ImplementsPublication`. The initial states
  map to initial states, and one lemma per action shows that its step is a
  step of the contract or a stutter. The invariant is that of `JournalTruth`
  and `FailedRunClean` (`Typed`, `Control`, `Truth`, `Closing`) with `Shut`
  added: what makes recover refuse a closed run (an invalid plan, a stale or
  only complete items) is already true at the steps that close it.

### PlanStore

- `PlanStoreProofs!TypeCorrect`, `EligibleCurrent`, `OneLive`, `RefusalFinal`,
  all unconditional. The inductive invariant `IInv` has, besides `TypeOK` and
  `OneLivePlan`: `Reading` and `Kept`, that every item of the draft and of each
  stored plan that was built here is `Stated`: it names no decision or choice newer than the
  histories hold, and if it names the newest ones it says what they say; and
  `Checked`, that approval and lock refer to stored plans and a plan apply has
  checked has no run yet. `Stated` survives any new decision because
  histories and plans only grow, and eligibility requires the named decision
  to be the newest, which gives `EligibleIsCurrent`.

### ReviewFlow

- `ReviewFlowProofs!TypeCorrect`, `ResumeTrue`, `PlansAll`, `ReviewIsFresh`,
  `OutcomesStand`: the five properties of `review_session`, unconditionally.
  The inductive invariant `IInv` relates what the session remembers to what
  the tables say. `Records` is of the tables: an accepted candidate without
  its run's year has the override that confirms it (`Answerable`), an
  acceptance the last run choice has looked at is of that run or newer than the
  choice (`MarkedAgree`), and a draft, or the plan of an interrupted run, names
  the newest decisions (`DraftCurrent`). The latter lasts because nothing else is
  started until the run is recovered or abandoned (`RecoveryFirst`).
  `Session` is of the memory: the audit is one of the run selected now
  (`ShownIsSelected`) and knows each rejection of a source still open
  (`RejectionsKnown`); what a pass or a batch has left is still open
  (`PassOpen`), and a review with nothing left has nothing open
  (`NothingOpen`). That a batch may trust an audit made many rows earlier is
  `RejectionsKnown`, `PassOpen` together: a row added since has closed the
  source it is about.

### ProviderClient and RateLimiter

- `ProviderClientProofs!TypeCorrect`, `RowsTellTheirAge` and
  `BlocksRespected`, unconditionally. What is owed of a recorded Retry-After
  is never more than what is left of the block (`Owed`), and a reservation
  looks at the block last.
- `ProviderClientProofs!PolicyHolds`, when `Interval <= Window`. `reserve`
  counts and spaces only what is younger than the window, so that a longer
  interval would not be kept. The windows of `provider_runtime.py` are an hour
  or more and the default intervals at most seconds; `config.py` puts a lower
  bound on a configured interval and no upper one. The invariant is `Policy`: any two
  reservations in the table are the interval apart, and any two that are
  `max_requests` places apart the window. The step that needs an argument is a reservation with a clock
  reading that is older than what others have reserved since: their times are
  then in its future, are counted as in the window, and move its own later.

### LibraryRepair

All theorems of this module are unconditional: any libraries and metadata, any
number of overlapping repairs, edits, arrivals, failures and deaths, with a
reset among them.

- `TypeCorrect`, and `RepairsSettle`: `Spec => RepairSettles`. An action under
  way was planned of a finding (`Planned`), so that its destination is the
  canonical path of what was checked. For a book (`BookSettles`) and a comic
  (`ComicSettles`) named by what they carry, what a repair writes has the same
  canonical path when read at its destination, and none of the findings a
  transformation is made for; every other finding would have kept the file from
  being repaired.
- `NothingIsLost`: `Spec => []NothingLost`. `NothingLost` alone is not
  inductive, since between link and unlink a version is kept by a copy another
  process may be about to replace. `KeptSomewhere` asks for a copy nobody is
  about to take (`Doomed`); `StagedAsPlanned`, that what is staged is sound
  and, once hashed, of the planned version; `MendedBeforeRemoval`, that a sound
  copy of the version lies elsewhere before the source goes. A hash of the
  source vouches for what was staged only if the planned file did not come back
  in between; `ComingsBackRecorded` shows that whatever brings it back is
  recorded in `raced`.
- `LeftoversAreReported`: `Spec => []LeftoversReported`. Repairs may follow one
  another under names that grow, so two copies of a version need not have one
  canonical path. The invariant `Traced` says instead how they are related: the
  home of one is where repairs of a file with that content lead from the home of
  the other (`Reaches`, the closure under `Canonical` written without
  recursion), or one is what a repair makes of the other (`Mended`). A file the
  check finds no fault with is a fixed point of `Canonical` (`CleanIsPlaced`), and
  from a fixed point repairs lead nowhere else (`ReachesNoFurther`): so two
  copies at two paths are not both clean.
- `PublicationsAreCanonical`: `Spec => []PublishedIsCanonical`. The publisher's
  naming (`Projection`) and the check's (`LibraryCheck`) are compared case by
  case (`PublishedBook`, `PublishedPdf`, `PublishedArchive`) for every decision,
  override and source. The rendering of a number is left uninterpreted: both
  sides call it, and they agree on what they call it with. PDF books of a series are
  outside `Complete`, as `pdf_book_moved` says they must be. Of strings the proof
  takes one thing from `PublicationAssumption`: that appending a year to a
  series leaves it non-empty, which TLC evaluates on the decisions of the run.

### AuditSession

- `AuditSessionProofs!TypeCorrect`: in particular the probe budget is never
  overrun.
- `AuditSessionProofs!EligibleRight`, for an eligible score of at least 91 (the
  default is 92): no combination of weights makes up for a wrong number, title
  or edition, or for a rival run that was shown; one-shots are excepted from the
  latter as in the code. Of the audit it needs the type invariant only; the rest is the
  scorer's arithmetic, which holds for any set of candidates.
- `AuditSessionProofs!ResolutionsLast`, unconditionally, from `Memory`: what is
  stored under a name is a run of that name or one that was selected, a key
  whose run is being asked for has none yet, and what was probed fits the
  item.
- `AuditSessionProofs!ResolvedOnlyByName`, if `OneCredit`: the name of a
  series without its creator credit carries no second credit. `_run_alias_keys`
  cuts at the first "by", so one could only be left where punctuation hides
  it.
- `AuditSessionProofs!SelectionsDecide`: every choice is in the memory before
  the first item (`Seeded`), and an item whose chosen run holds it stays in the
  search of that run.
- `AuditSessionProofs!SilenceMeansAsked`: at each rung the providers behind
  have been heard to their widest query or are marked as refused (`Recorded`), the
  comic without a number that found volumes apart (`HeardOut`).

### Only model-checked

- `CrashedRunFinishes` and `NoStandstill`: liveness under fairness, ENABLED.
  That no death strands an item on the way is proved (`CrashesStrandNone`).
- What a recursive definition computes for every input (induction over data).
- That the theorems' hypotheses are met is checked where a run has them:
  `apply_crash` and `apply_power` are instances of the bounds assumed by the
  theorems on the engine.

## 11. Not modelled

- *Parsing and presentation* (`parsing.py`, `comicinfo.py`, `presentation.py`):
  text in, text out, without state, but for what the name of a file in the
  library says of a comic, which is in `LibraryCheck`.
- *Discovery, inspection, archive limits* (`discovery.py`, `scanner.py`,
  `inspectors/`, `archive_safety.py`): sequential reading of files. That a scan
  may see other evidence than an earlier one is in ReviewFlow.
- *Writer formats* (`writers/`, `calibre.py`): byte conversion. The engine sees
  that they publish onto the staging path in one rename, or raise.
- *Provider adapters*: translation of JSON. What their answers may be is in
  AuditSession.
- *Command line, configuration, diagnostics, migration*: each command calls one
  operation that is modelled with its component.
- *Read-only previews* (`rollback.py`, `inspect_recovery`, `status`): they
  change nothing; where a finding quotes what they announce, the run says what
  then happens.
- *Of modelled components*: collisions of destinations in `new_plan` (one
  nondeterministic outcome), hydration (copies fields of one record into
  another), directory creation and removal, file modes, messages, progress
  callbacks and activity counters.
