# Masthead in TLA+

Masthead is a local-first store of coding-agent sessions. A daemon (one Node
process, one thread, one SQLite writer) receives live events from agents,
imports transcripts, and offers the sessions to a *Workbench*: there a session
gets a quality decision, is put into a pack, is described by an authoring agent,
and is published to the *Logbook*, which people and agents read.

The specifications here cover the places where that program is most concurrent,
or most likely to be killed half way, and where a mistake costs data or publishes
something that should not be:

- **authoring V5**: many agents, a background preparation, a user who changes his mind;
- the **Workbench pipeline**: everything else that writes a session's row;
- **live ingest**: a write queue racing the deletion of data and the shutdown;
- **transcript import**: long jobs over files that grow, cancelled, retried and taken
  up again after a restart;
- **data-directory ownership**: several processes, one writer;
- the **production lifecycle**: a staged installation switched file by file;
- **Masthead Pages**: what leaves the machine, and over which answers get lost.

- [Inventory](#inventory)
- [Modules](#modules)
- [Runs](#runs), [bounds](#bounds), [fairness](#fairness)
- [Proofs](#proofs)
- [Where code and documents disagree](#where-code-and-documents-disagree)
- [What is only model-checked, what is not modelled](#limits)
- [Plan](#plan)

To check a run: `tlc -config MC_LiveIngest.cfg MC_LiveIngest`. To check the proofs of
a module: `tlapm LiveIngest_proofs.tla`. `PROJECT.json` maps every definition to
the lines it models, and lists runs, mutants, hazards and theorems.

## Inventory

Paths are relative to `src/` of the repository. "Interacts" says how.

| Component | State | Operations | Interacts | Correct when |
|---|---|---|---|---|
| **Live ingest** `daemon/liveIngestQueue.ts`, `/ingest` and the barrier in `daemon/server.ts` | pending events, timer, promise chain of flushes, barrier, mutation epoch | enqueue, timed / full / explicit flush, discard, close; accept or drop a request; begin and end a destructive mutation | writes sessions in one transaction per batch; the four destructive routes flush or discard it first | no event lost or reordered; deleted data stays deleted; nobody waits forever |
| **Authoring V5** `workbench/authoring/workbenchAuthoringV5Service.ts`, its repository, coordinator and API, migrations 036, 038, 039 | preparation rows with frozen readiness, outcomes, evidence; request, member and pack rows; drafts, receipts; the coordinator's in-memory queue | create, prepare a batch, finalise in small transactions, fail, retry, claim, save, finish, resume | reads and changes Workbench rows; triggers freeze evidence against deletion and live updates | packs partition the eligible sessions, appear all at once, are completed once; publishing only through a finish |
| **Workbench pipeline** `daemon/db/workbenchPipelineRepository.ts`, `workbench/transcriptQualityReconciler.ts`, `qualityReviewAging.ts`, `transcriptWorkflow.ts`, `importReconciliation.ts`, `legacyPublicationBackfill.ts`, `daemon/import/importRepair.ts` | one `workbench_session_state` row per session | reconcile, precheck, exclude, accept, claim, enroll, repair, dismiss, finish, backfill, age | called by live events, imports, routes, V5, the daemon's start, and the command line in its own process | a user's exclusion is not undone by automation; a published session stays published; an automatic decision is as new as its evidence |
| **Daemon ownership** `core/daemonOwnership.ts`, `daemon/databaseBackup.ts`, part of `scripts/masthead-production.js` | two SQLite leases, a compatibility sentinel file | acquire, quarantine a stale sentinel, release, clean up after a child | every start of a daemon or maintenance job; a daemon from before the leases | one writer per data directory, also across crashes |
| **Production lifecycle** `scripts/masthead-production.js`, `daemon/productionTransitionMaintenance.ts` | bundles, launchers, receipts, journals, markers, the database's transition | stage, activate, start, stop, finalize, abort, cancel; sweep and gate before each | switches what the desktop starts; migrates the database | what runs is one version; it can be gone back on while it may; an interrupted command can be run again |
| **Import coordinator** `daemon/import/importCoordinator.ts`, `daemon/db/importJobRepository.ts`, the import routes in `daemon/server.ts` | active and pending jobs in memory, job rows | queue, drain, cancel, resume, recover | runs work units | at most the configured number run; a cancelled job does nothing more; no job is lost by a restart |
| **Import work units** `daemon/import/importWorkUnitRunner.ts`, `importManifestService.ts`, `importCompletionReport.ts`, `daemon/db/importLedgerRepository.ts` | unit rows, cursors, failure groups | plan, run, checkpoint each 250 records, finish, report | writes sessions, hands them to the quality reconciler | progress never ahead of the data; re-ingestion harmless |
| **Artifact store** `daemon/db/sessionArtifactRepository.ts` | artifact versions and what they supersede | add, supersede, apply | called by a finish and by the UI | at most one current version |
| **Guided authoring V1-V4** | run records | read | retired; kept for audit | - |
| **Masthead Pages** `daemon/db/mastheadPagesRepository.ts`, `daemon/mastheadPagesApi.ts`, `app/mastheadPages/useMastheadPagesController.ts`, `electron/mastheadPages*.ts` | one row per lineage with at most one staged operation; the dialog's review; requests under way | finalize, confirm, retry, remove, record | the daemon, the dialog, the main process and a remote service | only confirmed bytes leave the machine; what the service did is not forgotten |
| **Enrichment** `enrichment/*` | - | call a provider, validate | produces the enrichment V5 applies | - |
| **Live projection** `core/sessionReducer.ts`, `core/replay.ts` | per-session projection | reduce, replay | reads events | replay equals incremental application |
| **Data revisions** `daemon/db/dataRevisionRepository.ts` | counters | bump, poll | UI refresh | a change is never missed |
| **Data lifecycle** `daemon/db/dataLifecycleRepository.ts`, backup, migrations | - | delete, retain, clear, back up | uses the ingest barrier | deletion is complete |
| **Sources, adapters, MCP, CLI, desktop shell, UI** | configuration files, windows | discovery, parsing, queries | read the above | - |

What is hard: several agents and a user act on one request between the steps of
a preparation; preparation is spread over transactions and over restarts; a
decision is taken from state read before an `await` or many transactions ago;
flushes fail and are retried; mutations overlap; answers of a remote service get
lost. Inside the daemon there are no threads and no partial writes: a synchronous
stretch of JavaScript and a SQLite transaction are atomic, and interleaving happens
at `await`s, timers, HTTP calls and between transactions. That is the grain of the
actions here. Between processes (ownership, the production lifecycle, the command
line) it is one system call: a file renamed, linked, unlinked or written.

The hazards in `PROJECT.json` point at the line where each of these bites and at
the properties that would notice; those of components not modelled yet carry a
note.

## Modules

| Module | Models |
|---|---|
| `FixedPacks` | the division of n sessions into packs, in closed form |
| `FixedPacksLoop` | the loop of `fixedPacks`, one iteration per step, with its running offset |
| `WorkbenchSessionState` | a `workbench_session_state` row, its transitions, and the two that V5 composes of them (`Disposed`, `FinishedRow`); used by `AuthoringV5` and `WorkbenchPipeline` |
| `AuthoringV5` | the V5 service, coordinator, tables and triggers, with the agents, the user, the import, deletions, failing steps and crashes around it |
| `AuthoringCampaign` | what V5 promises a caller: accepted, prepared, all packs at once, each handed out and completed once |
| `AuthoringV5Refinement` | the mapping that makes `AuthoringV5` an implementation of `AuthoringCampaign` |
| `WorkbenchPipeline` | all writers of a session's row, as callers of `WorkbenchSessionState` |
| `LiveIngestQueue` | the deferred queue: variables and operations, no callers |
| `LiveIngest` | the queue under its callers: `/ingest`, the immediate persistence chain, the barrier and the destructive mutations, and the shutdown |
| `ImportCoordinator` | the import queue: job rows, the in-memory queue and its slots, the routes that queue, cancel and retry, recovery and resumption |
| `ImportWorkUnits` | one import job from its manifest to its receipt: units, checkpoints, durable cursors, failure groups, over files that grow |
| `DataDirectoryOwnership` | leases, sentinel and quarantine, for daemons, maintenance children, the lifecycle command and a daemon without leases |
| `ProductionInstall` | the disk of an installation, and what every lifecycle command does first: the sweep and the gate |
| `ProductionStage` | `stage` and `activate`, with the database's preparation |
| `StagedProduction` | the whole: `finalize`, `abort`, cancel, `start`, `stop`, and the specification |
| `PagesPublication` | one lineage published and withdrawn: daemon, dialog, main process and host |
| `Subsequence` | a sequence filtered by position, used for `removeFlushedEvents` and `resume()` |
| `MC_*` | instances for TLC |
| `*_proofs` | theorems |

### Authoring V5

One action is one transaction (or, for `Create`, the transaction and the
`schedule` call behind it).

| Code | Action |
|---|---|
| `createWorkbenchAuthoringV5Request` | `Create` |
| `prepareWorkbenchAuthoringV5RequestStep`, ten ordinals per transaction, stopping at a session with further evidence pages | `PrepareBatch` |
| `disposeExcludedSessionFromPackagePath` | `Disposed`, inside `PrepareBatch` |
| `finalizeWorkbenchAuthoringV5Preparation` | `FinalizeNoEligible`, `FinalizeShell`, `FinalizeMembers`, `FinalizePack`, `FinalizeRelease` |
| the `catch` of the coordinator | `StepFails` |
| `retryFailedWorkbenchAuthoringV5Preparation` | `Retry` |
| `startWorkbenchAuthoringV5Pack`, `saveWorkbenchAuthoringV5Draft`, `finishWorkbenchAuthoringV5Pack` | `ClaimPack`, `SaveDraft`, `FinishPack` |
| quality route, transcript reconciler, `deleteSessionScope` | `UserExcludes`, `UserAccepts`, `TranscriptImported`, `DeleteSession` |
| process exit, `coordinator.resume()` | `Crash`, `Restart` |

`queue` is the coordinator's `queued` set (memory), everything else but `up` is
SQLite. `outcome[r]` is the list of prepared sessions; `pages[r]` counts the evidence
pages stored for the session in progress, so a transaction that stops in the
middle of a session resumes there. The freeze triggers appear as the guard
`~Frozen(s)` of `DeleteSession`; foreign keys as `MemberSlice(r) \subseteq stored`
and `PlannedMembers(...) \subseteq Members(r)`.

Abstractions: a request is its creation token; evidence is a number of pages and
whether any of it is usable; a draft is the disposition of each session in it;
`createdAt` order is the sequence `created`. The advisory `inspect` and `scaffold`
calls change nothing these properties see. The capture precheck may return any
of its three dispositions.

### Workbench pipeline

One action is what one caller writes to one row in one transaction. `AuthoringV5` models the
requests, with the user and the import as two actors among its many; `WorkbenchPipeline` has every
writer of the row, with a request reduced to "took the session", "dismissed it", "finished it". Both use the
same transitions from `WorkbenchSessionState`.

| Code | Action |
|---|---|
| `upsertLiveEvent` with `reconcileImportedTranscript`, one transaction | `LiveEvent` |
| evidence stored without a judgement: import units, and live events with `reconcileLiveEvidenceOnEveryEvent` off | `EvidenceArrives` |
| reconciliation at the end of a hydration or an import, with or without a hold for repair | `Reconcile`, cut by a crash `ReconcileCut` |
| quality route; mode `precheck` | `UserExcludes`, `UserAccepts`; `Precheck` |
| claim, enrollment, transcript routes | `Claim`, `EnrollMissing`, `TranscriptRoute` |
| `applyImportRepair` | `RepairReopens` |
| readiness of V5, `disposeExcludedSessionFromPackagePath`, `finishWorkbenchAuthoringV5Pack` | `PackTakes`, `PreparationDismisses`, `FinishPack` |
| backfill and ageing while the server is created | `Backfill`, `BackfillDone`, `StartupAges`, `Serves` |
| `age-stale-quality-reviews` of the command line, in its own process | `CliLists`, `CliAges`, `CliFails` |

`evidence` is what the precheck and the revision digest read: a revision number, whether any evidence is
there, and the disposition the precheck gives it, which may also change without new evidence (a
duplicate turned up). `behind` is a history variable: sessions whose row was last written from something
else than their evidence as it is.

### Live ingest

The promise chain `inFlight` is the sequence `chain`: its head is running, and a
job knows whether it retries (`retryOnFailure`) and who awaits it. `onFlush`
commits its transaction in its synchronous part and then awaits Git snapshots,
hence a batch is written in `QStart` and removed in `QSettleOk`, with anything in
between. The barrier is a variable that names the latest mutation; each mutation
remembers the one it displaced (`previous`), as the closure in the code does. `Shutdown` flushes
once more and closes the queue behind it.

### Transcript import

The two modules meet at a job row. `ImportCoordinator` treats a worker as something
that starts and ends; `ImportWorkUnits` is what happens in between, for one job at a
time, which `OneRunPerJob` of the first justifies.

| Code | `ImportCoordinator` |
|---|---|
| the import route: row, then `queueImportJob` | `QueueJob` |
| retry route, `resumeImportJob` | `RetryJob` |
| `cancelImportJob` | `CancelJob` |
| `drainImportQueue`, one microtask | `Drain` |
| the end of `runQueuedImportJob`, with its `catch` and `finally` | `Settle` |
| the `finally` callback of the drain, a later microtask | `Release` |
| `recoverInterruptedImportJobs` at start | `Start` |
| `resumeInterruptedImports`, after the awaited discovery | `ResumeInterrupted` |
| death; `daemon.close()` and exit | `Crash`; `Exit` |

A *run* is the attempt-th time a job is enqueued and stands for the cancellation
token made for it; `active` is the map `activeImportJobs`. A run leaves `working`
before it leaves its slot (`settled`), since the token is forgotten in one microtask and
the slot is given back in a later one. `resumeInterruptedImports` is one action: it has
no `await` between its jobs; it throws at a job that is being cancelled, and the server
closes itself on that unhandled rejection.

| Code | `ImportWorkUnits` |
|---|---|
| `createManifestForJob`, row by row | `PlanUnits`, `DieWhilePlanning` |
| the loop of `importTranscriptSourcesWithLedger` | `BeginUnit`, `ReportProgress`, `FinishJob` |
| `updateCursorAfterWorkUnit` | `CursorAfterUnit` |
| `runImportWorkUnit`: permission, parse, one record, the catch block, the verdict | `BeginUnit`, `ParseUnit`, `ImportLine`, `IngestThrows`, `RecordFailure`, `FinishUnit` |
| the checkpoint and the progress report behind it | `Checkpoint`, `SaveWhenDue` |
| `buildImportCompletionReport` and the job's final status | `Verdict`, `EndJob` |
| recovery of the job and of its units | `Recover` |
| the agent that owns the file | `AppendLine` |

`at` holds the local variables of the runner, lost by a crash; `unit`, `offset` and
`stored` are SQLite. Byte offsets are counted in lines. A line is *malformed* (the
adapter reports a failed record), *excluded* (of a session the user excluded), or is
imported, unless its ingestion throws. `thrown` is a history variable: lines whose
ingestion threw. Metadata jobs, session health and classification, and the indexing and
enrichment a unit queues change none of this and are left out; files only grow.

### Data-directory ownership

One action is one system call. A start takes the lease of its database, the lease of the directory, and
creates the sentinel; if one is there it examines it, renames a provably stale one into quarantine,
verifies that it renamed what it examined, and tries again.

| Code | Action |
|---|---|
| `acquireDaemonOwnership`, the leases | `Start`, `AcquireWriterLease`, `AcquireDirLease` |
| creating and writing the sentinel | `CreateSentinel`, `WriteSentinel` |
| examining, quarantining, verifying and linking back | `ExamineSentinel`, `QuarantineStale`, `VerifyQuarantined` |
| release | `Close`, `CheckOwnSentinel`, `UnlinkSentinel`, `FreeDirLease`, `FreeWriterLease` |
| the lifecycle command around a maintenance child: capture, kill, both leases, proof, quarantine | `CaptureEvidence`, `SignalChild`, `LeaseCleanup`, `CheckEvidence`, `QuarantineEvidence`, `VerifyEvidence`, `FreeCleanup` |
| a process dies; the system gives its identifier to another | `Crash`, `CrashParent`; `ReusePid`, `FreePid` |
| external: the daemon without leases, the operator who removes the file | `StartOld` ... `CrashOld`, `RemoveByOperator` |

A configuration is a database and whether the directory was named by its canonical path. `run` numbers the
starts and stands for what identifies a sentinel (inode and token); process identifiers are reused, numbers
are not. `lock` is the path, `moved` the file in quarantine.

The two cleanups treat a file they took by mistake differently. That of a start links back whatever it moved. That of
the lifecycle command reads it first, and the reading throws at anything but a record of this version with one name
(`Readable`; `masthead-production.js:4436-4448`, before the link at `:4492`): the sentinel of an old daemon stays in
quarantine. Two history variables say whose sentinel was lost: `replaced`, of a process that ran when the old daemon removed it,
and `stranded`, of one that ran when anybody else took it off the path and did not put it back.

### Production lifecycle

`ProductionInstall`, `ProductionStage` and `StagedProduction` are one specification in three files, by
command. One action is one durable write (an `atomicWrite`, a rename, an unlink) or the checks before it. Every
command begins with the sweep of an interrupted stage (`reconcileProductionStageIntent`) and the gate
(`gatePendingProductionLifecycle`), which refuses, resumes, keeps, or undoes a pending activation.

| Code | Actions |
|---|---|
| sweep and gate | `SweepNothing` ... `SweepIntent`; `GateClear` ... `GateUndoes`, `RestoreSurface`, `RestoreReceipt`, `RestoreDone` |
| `stageProductionInstallation` | `StageRetry` ... `StageDone`, `StageFails` |
| `activateStagedProductionInstallation` with the database's preparation | `ActivatePending` ... `ActivatePersist`, `PrepareSnapshot`, `PrepareMigrate`, `PrepareBind`, `Unprepare` |
| promotion of the snapshot in `productionTransitionMaintenance.ts`, shared by three commands | `RestoreDatabaseStep` |
| `finalize` | `FinalizeBegin`, `FinalizeProves`, `FinalizeRemovesBundle`, `FinalizeRemovesStaged`, `FinalizeMarks`, `DropReceipt`, `DropJournal` |
| `abort` of an activation; of what was never activated | `AbortBegin` ... `AbortMarks`; `CancelBegin` ... `CancelRecord` |
| `start`, `stop` | `StartInterrupted` ... `StartPrunes`; `Stop` |
| the process is killed; the daemon exits | `Die`; `DaemonExits` |

Versions are bundles: what a surface holds, what schema the database has and which daemon is up are all the
name of a bundle. A directory is `temp`, `present`, `partial` (a removal was begun) or `absent`; the four surfaces
are switched one at a time. Hashes and signatures are the comparisons they stand for. `superseded` is a history variable: whether a
finalization that had begun was rolled back (`whole`), and whether by then it had removed a part of the bundle it was rolled
back onto (`gutted`).

### Masthead Pages

| Code | Action |
|---|---|
| the dialog: open, close, finalize | `OpenReview`, `CloseReview`, `FinalizeReview` (with `StagePublication`, the daemon's half) |
| the four handlers that send | `ConfirmPublish`, `RetryPublication`, `RetryRemoval`, `ConfirmRemoval`; with nothing to send `NothingStaged` |
| the main process: fetch what is staged again and compare; send | `LoadStaged`, `Send`, `TransportFails` |
| external: the host | `HostAnswers`, `LateArrival` |
| recording the result in the daemon's row | `Published`, `PublishFailed`, `Withdrawn`, `RemovalFailed` |
| the catch blocks | `ConfirmThrew`, `OtherThrew` |
| the application quits | `Quit` |

A request is a number that stands for its bytes, its digest and its idempotency key. What the dialog shows is
taken to allow every button: more than the program does, never less. The review can be closed while a handler
runs and opened again, so handlers overlap. A handler has the daemon record its result, and the daemon's response may be lost
after it has done so (`Recorded`): the catch block then records a retryable failure over the result. `crossed` is
a history variable: since the last operation was staged, a result of an earlier one has been recorded.

## Runs

| Run | Configuration | Shows |
|---|---|---|
| `fixed_packs` | limits 5 and 12 as shipped, 1 to 72 sessions | loop = closed form; every session packed once; the size check never rejects |
| `authoring` | one re-enriching request over a ready, a published and a not yet imported session, packs of two, two saves, a failure, a crash | the invariants of V5, the stability of outcomes and receipts, that V5 implements `AuthoringCampaign`, and that every preparation settles |
| `workbench` | one session, three revisions, a crash, a listing of the command line | nobody but the user, a pack or the command line replaces an exclusion; nothing leaves the Logbook; automatic decisions are as new as the evidence |
| `ingest_barrier` | three events, one immediate, batches of two, two overlapping mutations, two failures, the shutdown | deferred data stays deleted; mutations exclude each other; only a failing last flush strands events and none is dropped; events leave the queue and every request is answered |
| `import_jobs` | three jobs, two slots, a retry, a crash | one run per job, exact slots, no lost wakeup, no forgotten job, no success over a cancellation; queued jobs start and cancellations end |
| `import_units` | two files of up to three lines, one denied, one with a malformed and an excluded line, a checkpoint every two lines, two jobs, a retry, a crash | counters, cursor and stored lines agree; a clean receipt hides nothing; checkpoints only advance; the job ends |
| `ownership` | two identifiers, two configurations of one directory, an old daemon, a lifecycle command, three starts | one writer among the daemons with leases; whoever serves has its sentinel in place but for the losses named; mistakes of a start's quarantine go back; starts end |
| `production` | two receipts, every command | what runs is one version; the bundle to go back to is kept until the cleanup of a finalization; what is current is whole but for one way back; finalized stays; commands end |
| `pages` | one lineage, three operations, two handlers | only confirmed bytes leave; the last outcome is recorded or staged, removed is withdrawn and a failed operation stays staged, each until an earlier result is recorded over it |
| `ingest_repopulation`, `pages_overlap`, `production_rollback` | as above, or smaller | violations, see below |

The invariants and the liveness of a component share a run: the specification is the
fair one, and fairness does not change which states are reachable.

`OnlyLastFlushStrands` deserves a word: when a `flushNow` fails, the code does not set the timer
again. Of its callers a mutation then discards what is pending, so only the last flush of a
shutdown leaves events behind.

Every property has a mutant in `PROJECT.json`: a plausible slip in a mapped
definition that makes TLC report it (the definitions marked "Mutant" in the
modules, each above the definition it alters). Deadlock checking is off where a system may stop: all requests
are answered, all packs completed, no further failure, start or crash allowed by the bounds.
`workbench`, `pages`, `production` never stop, and are checked for deadlock.

### Bounds

- *Packs.* 72 sessions are six full packs, so every remainder modulo the number
  of packs and every boundary between two numbers of packs occurs.
- *V5.* Three sessions in packs of at most two give two packs, one of them short, when all are
  eligible, and one when the late transcript is not;
  batches of two and a session with two evidence pages give preparation
  transactions that stop early, resume and cross a batch boundary; chunks of two
  give two member transactions. One failure and one crash can fall between any
  two of these. Two saves let a second agent replace the first one's draft.
- *Workbench.* No action reads another session's row, so one session is enough; its evidence moves on twice, so
  a hold, a dismissal and the evidence can carry three different revisions. The crash can fall inside a
  reconciliation; the listing of the command line can be overtaken by anything.
- *Barrier.* Two mutations are the least that can overlap; three events cover one
  before, one between and one immediate; batches of two leave one behind. The proofs remove these bounds.
- *Import jobs.* Three jobs for two slots keep one waiting; a crash with two running and
  one queued leaves a list of up to three to resume, in every order, while a retry
  and cancellations race it.
- *Import units.* Three lines and a checkpoint every two give a checkpoint in the middle of a
  file and one at its end, with a crash, a cancellation or a throwing line before,
  between and after; the denied file is the second unit that fails in another way. A second
  job over the same files starts at the cursors of the first. Lines are appended at any
  time until a file is full.
- *Ownership.* Three starts allow a dead owner, a successor that finds its sentinel, and a rival in between;
  identifiers are reused. The second configuration names another database, and the directory by another
  name, so that the lease of the database alone does not keep the two apart. A creation that fails
  twice stands for one that fails a hundred times. The proofs remove these bounds.
- *Production.* Two receipts: one to activate, and one staged beside or after it. Everything else is finite as it is; a
  command may fail or be killed after any write, as often as it is run.
- *Pages.* Three operations are a publication, a revision and a removal, or a removal and a publication after it; two
  handlers are the least that overlap, and each can be at work on any of the three. The proofs remove both bounds.
- `MaxDraftRevision`, `MaxRetries`, `MaxJobs`, `MaxLines`, `MaxFailures`, `MaxCrashes`, `MaxRevision`, `MaxListings`,
  `MaxStarts`, `MaxTimeouts` and `MaxRequests` only bound what would be unbounded; each appears in a guard of the
  action it bounds.

### Fairness

Weak fairness is assumed of what the event loop runs by itself: the coordinator's
next step (`setImmediate`), timers, promise continuations, a started mutation; and of
`Restart`, because the desktop launcher starts a daemon that is not running. Nothing is
assumed of agents, of the user, of an incoming request body, of a retry or of a growing file.
`PreparationSettles` therefore allows `failed`, which waits for a caller.

In the import modules fairness is on the same footing: the drain and the release of a slot are
microtasks; a worker ends (which `JobEnds` shows of `ImportWorkUnits`, where files end because
`ParseUnit` fixes how far it reads); discovery ends; a daemon that closed itself exits and is
started again. The worker is sequential, so one condition on all its steps (`Work`) is enough.
`QueuedJobsStart` is stated for the configured concurrency of the instance: a concurrency of 0,
which the parser accepts, starts nothing.

In ownership and the production lifecycle a process that was started and is not killed goes on: `Step(p)` of
each daemon, `ParentStep` and `Step` of the command. Whoever starts them, kills them, or gives a process
identifier to another program is not fair. The Workbench pipeline and Masthead Pages promise no progress by
themselves (everything waits for an event or a click), and assume no fairness.

## Proofs

TLC checks small instances; the theorems hold for every value of the constants
that satisfies the named assumptions (`PackSizeAssumption`, `MaxSessionsAssumption`, `SelectionAssumption`,
`EvidenceAssumption`, `BoundAssumption`, `QueueAssumption`, `IngestAssumption`, `ImportedJobs`, `ImportConcurrency`,
`ImportLines`, `ImportBounds` of both import modules, `PipelineAssumption`, `OwnershipAssumption`, `NoneAssumption`,
`NonceAssumption`, `AbsenceAssumption` and `PagesAssumption`), all of which TLC evaluates in the runs. Every safety
property of a passing run is a theorem.

**Packs** (first part of `AuthoringV5_proofs`). From `n = q * b + m` with `m < q` the offset of a
pack is the sum of the sizes before it, so consecutive packs meet and the last
ends at n. `PacksPartitionSessions`, `SizeCheckIsDead` and `ClosedFormIsTheLoop`, together
`PacksExact`, follow from the loop invariant `LoopInvariant`. The size check is superfluous exactly because
`2 * MinimumPackSize <= MaximumPackSize + 1`.

**Authoring V5** (`AuthoringV5_proofs`). Each invariant of the chain needs the one before:

- `TypesHold`: `TypeInv` is `TypeOK` with `OutcomesFit` (a preparation has no more outcomes than
  sessions). The step that matters is `SettledInterval`: one transaction settles an
  interval of ordinals that starts where the previous one stopped.
- `StagedUntilReadyHolds` (`StageInv`): `Staged` says that a request row exists only once all outcomes are
  known; this fixes the number of packs while they are inserted one at a time. `OutcomesNeverChange` follows.
- `EligibleNeverDeleted` (`KeptInv`): what the freeze triggers keep is every session that *may yet* be found
  eligible, so `Kept` speaks of the sessions that are ready and have evidence before anyone has judged them.
- `PacksAlwaysFollowPlan` (`PlanInv`): every pack holds what the plan gives it, less what was deleted, and the
  member rows are the eligible sessions. While the packs are inserted nothing eligible can go (`KeptInv`), so
  the plan the next transaction computes is the one the previous computed.
- `AccountsAlwaysAgree` (`AccountInv`): `TrackInv` ties a member row to the status and the receipt of its pack;
  `Completed` ties the request to its packs. The lemma behind the last finish is `ReceiptOfAll`: the receipt
  made of the packs completed before and the one that completes now lists every pack once.
- `CampaignIsImplemented`: the refinement of `AuthoringCampaign`, from `AccountInv`. Each action maps to one of
  the campaign or to a stutter: what `FinalizeShell`, `FinalizeMembers` and `FinalizePack` write is hidden until
  `FinalizeRelease` shows all packs in one step, a save is hidden, a deletion is `Forget`.
- `ReceiptsStayFinal`: a receipt is that of the pack's draft (`ReceiptsOfDrafts`) and both stand still.
- `NoPreparationForgotten`: needs `CreatedOnce`, that `created` lists every request with a
  preparation exactly once, since that is what `resume()` filters after a crash.

**Live ingest** (`LiveIngest_proofs`). The barrier remembers only the latest mutation and a
mutation waits only for the one it displaced. Exclusion therefore is not inductive. The
strengthening `MutationInv` numbers the mutations by epoch and says that `previous` is the
direct predecessor, that the barrier is up exactly while some mutation is not done,
and that a mutation past its wait has *all* earlier ones behind it. From it follow
`MutationsRunAlone` and `NothingAcceptedDuringMutations`. `DeferredEventsStayDeleted`
needs in addition that while a mutation runs, only events accepted before it are pending,
that a job it awaits is in the chain, and that the chain ends with nothing pending. `NothingIsDropped` rests on
the batch being taken out by event id and not by length. `OnlyLastFlushStrandsHolds` needs who awaits the jobs of
the chain, and that pending events have a timer, a job or a discard ahead while the queue is open.

**Import jobs** (`ImportCoordinator_proofs`). `OneRunPerJob` and `TrackedExactly` say where the
run of a job is, and neither is inductive: a slot that is given back, or a drain, could
disturb a run nobody has a token for. `ImportInv` adds two parts.

- `RunInv`: queue and workers have no job in common and none twice; each of their runs holds the
  token of its job; a token always belongs to such a run; a run that works is not `queued`
  in the table. `JobsRunOnce`, `TokensTrackRuns` and `JobsAreRemembered` follow.
- `SlotInv`: the counter is the number of workers and of slots not yet given back, of which no
  run is both, since no run has an attempt number the coordinator has yet to hand out.
  `SlotsAreUsed` follows: the slots are never exceeded and none is idle while a job waits.

`CancellationStands`, an action property, needs the types only: what a worker records depends on
the token and on the row it finds. The lemmas on the queue (`WithoutJob`, `SplitQueue`, `AppendRuns`) say what
cancelling, draining and enqueueing do to it.

**Import work units** (`ImportWorkUnits_proofs`). Between two checkpoints the rows say nothing of the lines already
in the database, so `UnitsInv` says the same thing (`Adds`) twice: of the row, up to its checkpoint, and
of the runner's counters, up to the line it is at (`RunnerInv`). A save makes the row what the runner is; a crash or a
cancellation forgets the runner. What keeps a rerun from counting a line twice is that the durable
cursor of a unit that is not done is where its row says (`RowInv`), and that every line thrown or
reported lies behind that cursor, where no later plan meets it (`LinesInv`). `CheckpointsAlwaysAddUp` is read off `RowInv`. `CleanReceiptHolds` needs also that every open
unit is still to be visited (`VisitInv`), and that a line in a failure group is counted as failed.
`CheckpointsNeverGoBack` follows action by action.

**Workbench pipeline** (`WorkbenchPipeline_proofs`). `AutomaticIsCurrent` speaks of dismissed rows, and ageing
dismisses with the revision it finds on a hold; so `PipelineInv` says the same of the rows that wait for a
review (`Current`): outside `behind`, an automatic dismissal and an automatic review hold carry the revision of
the evidence. It holds because the reconciler renews a hold whose revision differs (`HeldFor`), and
because a reconciliation that is cut has written no judgement yet. `DecisionsStand` follows action by
action: the lemmas say of each transition of a row whether it leaves an exclusion and the Logbook alone
(`Stands`) or only what the properties read (`SameJudgement`).

**Data-directory ownership** (`DataDirectoryOwnership_proofs`). The leases alone give `OneWriter`: whoever serves, or
touches the sentinel, holds the lease of the directory (`LeaseInv`). The other two properties rest on what a
sentinel says of its maker: starts are numbered, no two running processes share a number (`NumbersInv`), so a
sentinel with a running process's number names that process, and one whose maker is gone stays stale
whoever reuses the identifier (`FilesInv`). `SentinelInPlace` is inductive on top of these, once for each kind of
daemon: a new one's sentinel leaves the path by `ReplaceOld` only, since a cleanup holds both leases (`NewInPlace`); the old one's is at the
path, in the quarantine of a cleanup that is still comparing, or `stranded` (`OldInPlace`). A path holds one file, so
`ApartUntilLossHolds` follows: an old and a new daemon serve together only behind a loss that the history
variables name. `MistakesReturnHolds` follows step by step.

**Production lifecycle** (`StagedProduction_proofs`). A command relies on what an earlier one, dead by now, left on
disk. So the invariant `IInv` says first what each file on disk means for the others, whoever wrote it, and only
then what a running command may rely on.

- `DiskInv`: a recorded snapshot names one bundle with no lifecycle left (`PreviousInv`); what an intent, a receipt
  and a marker exclude (`IntentInv`, `ReceiptInv`, `MarkerInv`); where the surfaces are and which bundles are whole in
  each phase of a journal (`SurfaceInv`); the receipt that a journal carries (`CarriedInv`); the bundle whose schema
  the database has, by the phase and the pending transition (`TransitionInv`, `SchemaInv`).
- `ProcInv`: one part per kind of step (`IntentProc` to `StartProc`), of the command and its place. The gate and the sweep
  establish it from `DiskInv` alone, since the command has read nothing else.

`superseded`, a finalization that began and was undone (see below), is the exception in the parts that are false of it; only
`gutted` excuses a current bundle that is not whole. `OneVersionHolds`, `RollbackKeptHolds` (no exception) and
`CurrentIsWholeHolds` are consequences of `IInv`; `FinalizedStaysHolds` follows action by action. The proof was worth more than its theorems: `FinalizeMarks` had a `CASE` whose guards overlap on
a rerun, of which TLC took the first and a proof knows neither. It is an `IF` now.

**Masthead Pages** (`PagesPublication_proofs`). `OnlyConfirmedLeaves` speaks of requests under way; what keeps it is
the digest a flow was started with. `PagesInv` adds that names refer to staged operations (`NamesStaged`),
that a flow past the comparison of digests carries the confirmed request (`FlowsConfirmed`), and the same of
the host (`HostConfirmed`). It holds for any number of flows at once.

The other three properties are of any number of handlers too. `PublicationInv` adds what a handler carries (`Truthful`: an answer,
recorded however late, is what the host did), what a row says of the host (`RowInv`), and, until `crossed`, that what became of the last
operation is in the row or still staged (`LastInv`). `RecordedRow` says what any of the results writes. `FailedStaysStagedHolds` is a case
distinction over the writers of a row: an operation leaves it for its own final answer, for a newer operation, or under an earlier
one's result.

The facts about filtered sequences (the elements are those at the chosen positions, in order) are the first sections of
`LiveIngest_proofs` and `AuthoringV5_proofs`.

Liveness under fairness and `ENABLED` are model-checked only.

## Where code and documents disagree

Three runs expect a violation of a sentence the repository says about itself.

1. **Deleted data comes back** (`DeletedIsNotRepopulated`). A test says that after a clear,
   "deleted state is not repopulated", and the barrier ensures it for deferred events. Nothing
   waits for the immediate persistence chain.
2. **A retryable failure that is not kept** (`RetryableFailureKeepsPending`). "Retryable failures keep the staged
   pending operation for a later confirmed retry" (`docs/reference/masthead-pages-integration.md:71`). The dialog can be closed
   while it publishes (`MastheadPagesReviewDialog.tsx:94,108`). Opened again, a second operation is staged, sent, and fails
   retryably; then the receipt of the first is recorded, which writes a row without pending operation
   (`mastheadPagesRepository.ts:313`), whichever it was. `LatestIsTracked`, `RemovedIsWithdrawn` and `FailedStaysStaged`
   are stated up to this, by `crossed`.
3. **A rollback onto half a bundle** (`OnlyWholeIsCurrent`). `docs/reference/production-cold-activation.md:21` calls abort "the
   only supported supersession path" and has it re-attest the bundle it restores. A finalization killed while it removes the old
   bundle leaves the journal entry `finalize-cleanup`, which every command but `finalize` takes for an interrupted activation
   (`masthead-production.js:1173-1187`). The recovery checks that the old bundle is a directory (`:4990-5009`), not that it is
   whole, and makes it current. `CurrentIsWhole` is stated up to this, by `superseded`.

Seen while modelling, in the models, and without a run of their own:

*Authoring*

- *A hard reject that blocks.* ADR 0016 (line 31): hard rejects "are skipped and recorded". Rejecting a session that is
  already published makes `markWorkbenchQuality` throw, and the whole pack cannot finish with that draft.
- *Published without acceptance.* ADR 0009 (line 17): a session is published after Workbench has
  accepted its quality. `finishWorkbenchAuthoringV5Pack` does not read the row, so a session
  the user excluded while its pack was being authored is published with quality `failed`.
- *Dismissed though ready.* The wiki (`logbook-and-workbench.md`, lines 83-86) says that rows that are
  not ready are dismissed. Readiness is frozen at creation; a transcript imported in the
  meantime does not save its row.

*Workbench pipeline*

- *An exclusion that does not stick.* The wiki (`data-and-integrations.md:26`): "user exclusion remains sticky". A pack was
  given out with a session; the user excludes it; the pack hard-rejects it. The reject (`workbenchAuthoringV5Service.ts:605-614`) marks
  the row as dismissed automatically, without a revision, and the next live event reopens it. `DecisionsStand` names the finish
  among those that replace an exclusion.
- *Ageing.* The wiki (`logbook-and-workbench.md:100`) says a review hold "does not auto-age into Not Added unless a
  separate aging policy is enabled later"; every start of the daemon ages (`server.ts:271`). The comment at
  `qualityReviewAging.ts:121` ("Does not touch user decisions") holds of the start, and not of the command line beside a
  running daemon: it writes from its list and never looks at the row again.
- *An old date.* The activity that anchors a hold's age is inserted with INSERT OR IGNORE: a session that comes
  back to review at an evidence it was held for before is aged on the date of the first time.
- *An acceptance without author.* The quality route passes neither source nor revision, so a user's acceptance is
  not recorded as the user's and a later reconciliation may undo it.
- *A hold that never ages.* A crash between reopening and judging leaves the row on the package path without
  a suppression; ageing looks for one.
- *A row for a held session.* Import repair removes the row of a session; the claim route makes a new one.

*Import*

- *A cursor past unread lines.* The cursor written after a unit is the size the file has by then (`server.ts:1932`,
  `CursorAfterUnit`). Lines appended since it was read lie before the cursor, which `streamJsonl.ts:9` takes for "lines covered by a durable
  byte cursor", and are never imported.
- *A receipt that cannot be written.* A restart finalises a job that was being cancelled by marking its open
  units `cancelled`. When the job is retried they are skipped and stand in no column of the report, whose
  reconciliation assertion throws; every retry of such a job fails.
- *Half a manifest.* Manifest rows are inserted one at a time outside a transaction. A process that dies in
  between leaves some; the resumed job takes them for the whole and succeeds without the rest.
- *A cancelled job is queued again.* The list of interrupted jobs is made before the server listens
  and used after discovery. A job cancelled in between, after its row was reset to `queued`, is
  `cancelled` without a token and is queued by the resumption. In the same window a job whose source is gone is marked
  `failed` while a retry of it runs.
- *A line without a trace.* When ingestion of a line throws while the job is being cancelled, the catch
  block checkpoints past the line and throws again before it writes the failure group.
- *A phantom failure.* A cancellation noticed at a checkpoint is recorded on the unit as a failure of at
  least one record, though every record was imported; `CheckpointsAddUp` therefore bounds
  `failed` from below only.

*Ownership*

- *Reclaimed after all.* `docs/architecture/data-paths.md:27`: "Ordinary startup never reclaims an existing
  compatibility sentinel automatically". `daemonOwnership.ts:242` and `:275` do, when the sentinel is of this version, has one
  link and names a dead process; `docs/reference/production-cold-activation.md:12` says so too. The model follows the code.
- *Old and new overlap.* The same paragraph says of the sentinel: "so old and new writers cannot overlap in the
  supported/default layout". In the model they can, in four ways, which are the exceptions of `SentinelInPlace` and
  `ApartUntilLoss`. (1) An old daemon finds a dead process's sentinel; a new one reclaims it and serves; the old one
  then replaces the path. What an old daemon does is known from the documents only, which say that it may do this ("an uncooperative old daemon
  could replace the pathname concurrently"). (2) A daemon or a lifecycle command moves the old daemon's fresh sentinel
  instead of the stale one it had examined, and is killed before it puts it back. (3) The lifecycle command moves it, cannot read it, and leaves it in
  quarantine, although the paragraph says "a mismatch is restored or preserved without overwriting a newer canonical sentinel": preserved it is, but
  no longer in the way. (4) A daemon that closes checks its sentinel, is overtaken by a
  replacement, and unlinks the old daemon's. In each case the next new daemon finds no sentinel, and starts. There is no
  run that expects this violation, since the daemon without leases is not in the repository.

*Production lifecycle*

- *Another way back.* Before its cleanup, too, a finalization is none the gate resumes (`masthead-production.js:1667`): killed
  right after its first journal entry it is read as an interrupted activation and rolled back, behind a daemon that
  was proved live and after its database was completed. `DatabaseFollowsCurrent` speaks of the rest.
- *An abort that cannot be resumed.* "Rerunning the same command resumes an interrupted abort": not when it was killed
  while it removed the candidate, which is then neither whole nor gone.
- *A sweep that refuses.* A sweep killed between removing the candidate and the intent leaves a state the next
  sweep does not recognise.
- *A start that prunes.* An interrupted start removes every bundle but the one it went back to, also candidates
  of receipts that are staged.

## Limits

Only model-checked: the liveness properties (`PreparationSettles`, `IngestSettles`, `QueuedJobsStart`,
`CancellationEnds`, `JobEnds`, `CommandsEnd`, `StartsEnd`). The three kinds of result a proof cannot reach here are
liveness under fairness (and `ENABLED`), induction over data, and RECURSIVE operators; no module uses the last.

Left out of the modelled components:

- V5: the stall report, the advisory calls, the content of drafts and evidence; a failure whose recording fails as well
  (`workbenchAuthoringV5PreparationCoordinator.ts:30-48`), an unhandled rejection that leaves the preparation in no queue until the next start.
- Workbench pipeline: what the precheck reads, the age of a hold (any hold may be old enough), the statuses of
  optional artifact kinds, activity records, maintenance commands that wipe or reset rows, the deletion of a
  session, the configuration without backfill, and of readiness the test for usable evidence.
- Live ingest: duplicate event ids, Git refreshes, validation-only requests; a client that hangs up lets `server.close` return
  before its request is done; what else the shutdown closes, and with it that a failing final flush skips the close of
  the preparation coordinator (`server.ts:4064`); a mutation that throws (`server.ts:1004`).
- Import: metadata jobs, session health and classification, truncated or replaced files; the `await` between the last flush of a
  unit and its verdict (`importWorkUnitRunner.ts:152,238`), which are one step; a file whose size cannot be read after its unit
  (`server.ts:1932`); a database error while a run begins (`importCoordinator.ts:318-320`).
- Ownership: the instance manifest, file modes, symbolic links of the sentinel itself, more than one old daemon; the lifecycle
  command takes its two leases in one step.
- Production: the direct install, the transition and the cold activation flows of the same script, which share its
  helpers; hashes, permissions, the database's content. Every staging names a bundle of its own: a source that already is a bundle of the
  installation is staged in place by the code (`masthead-production.js:574-578`, `:604`), so that two receipts may share a candidate, which an
  abort then keeps although it writes its marker (`:1471`, `:1504`, `:1549-1563`, `:1525`). Therefore nothing is claimed about the
  candidate of an aborted receipt.
- Masthead Pages: batch review, connection and tokens, logbooks and covers, the outbound review's text analysis, the
  dialog's own copy of the row.

Not modelled at all, and why:

- enrichment, MCP, adapters, sources: text, prompts, file formats and third-party configuration, with no state of
  their own that several actors change;
- migrations, backup: sequential I/O inside one lease, which the ownership model covers;
- the UI and the desktop shell: views of the daemon's HTTP API;
- V1-V4 guided authoring: retired, read only;
- artifacts, the live projection, data revisions: see the plan.

The modelled code is a small part of the repository's lines. Most of the rest is of the kinds above: React views,
parsers, tests of distributions, command-line formatting, rehearsal scripts, and text analysis of artifacts, in which
there is no interleaving, no persistence step and no ordering to check.

## Plan

Done: the modules above. Next, in this order:

1. The queue together with the freeze triggers: a batch with one update of a frozen tool call fails as a whole at every
   retry (`sessionRepository.ts:458`).
2. An abstract job queue with cancellation, implemented by `ImportCoordinator`, and an abstract installation (staged,
   active, final, aborted) implemented by `StagedProduction`; with their step simulations.
3. "Every line is applied at least once and counted once" for `ImportWorkUnits`, over the units of all jobs of a file.
4. Data revisions (a change is never missed by a polling client), artifact versions, and the live projection as a pure
   function, compared with replay.

The runs are kept to a dozen, so a new component shares or replaces the run that says least.
