-------------------------- MODULE ImportWorkUnits --------------------------
(***************************************************************************)
(* What the worker of a transcript import job does: it plans one work unit *)
(* per transcript file, reads each file from its durable cursor to its end,*)
(* stores the lines one by one, and writes a checkpoint every so many      *)
(* lines (importTranscriptSourcesWithLedger, runImportWorkUnit).  The files*)
(* belong to agents that keep appending to them; the process may die, and  *)
(* the job may be cancelled and retried, between any two steps.            *)
(*                                                                         *)
(* One job at a time: ImportCoordinator shows that a job has one worker.   *)
(* A byte offset is a number of lines; every unit's permission is settled  *)
(* beforehand and does not change.                                         *)
(***************************************************************************)
EXTENDS Integers, FiniteSets

CONSTANTS
  Unit,                \* transcript files, one work unit each
  MaxLines,            \* bound: lines of a file
  Malformed,           \* lines an adapter cannot read: <<unit, line>>
  Excluded,            \* lines of sessions the user excluded from ingestion
  Permitted,           \* units whose source allows transcript import
  CheckpointInterval,  \* CHECKPOINT_RECORD_INTERVAL
  MaxJobs,             \* bound: jobs created
  MaxRetries,          \* bound: retries asked for
  MaxCrashes           \* bound: deaths of the process

ASSUME ImportLines ==
  /\ MaxLines \in Nat \ {0}
  /\ Malformed \subseteq Unit \X (1..MaxLines) /\ Excluded \subseteq Unit \X (1..MaxLines)
  /\ Malformed \cap Excluded = {}
  /\ Permitted \subseteq Unit
  /\ CheckpointInterval \in Nat \ {0}
ASSUME ImportBounds == MaxJobs \in Nat /\ MaxRetries \in Nat /\ MaxCrashes \in Nat

VARIABLES
  size,      \* lines in each file
  stored,    \* lines in the canonical tables
  grouped,   \* lines whose ingestion threw and that have a failure group
  thrown,    \* history: lines whose ingestion threw and that a checkpoint passed
  offset,    \* ingest_cursors.byte_offset, 0 where there is no row
  unit,      \* import_work_units, NoRow before the manifest exists
  job,       \* import_jobs.status
  pc,        \* where the worker is, "idle" when there is none
  todo,      \* units of the manifest the worker has yet to visit
  at,        \* the unit in hand and the local variables of its runner
  spent      \* how many of the bounded events have happened

ledger == <<stored, grouped, thrown, offset, unit>>
worker == <<pc, todo, at>>
vars == <<size, ledger, job, worker, spent>>

Line == Unit \X (1..MaxLines)
Count == 0..MaxLines
Done == {"succeeded", "succeeded_with_issues"}
UnitStatus == Done \cup {"queued", "running", "failed", "skipped", "cancelled"}
Terminal == Done \cup {"failed", "cancelled"}
NoRow == [status |-> "absent"]
Row == [status : UnitStatus, before : Count, cursor : Count,
        processed : Nat, imported : Nat, failed : Nat]
Runner == [unit : Unit, to : Count, cursor : Count, unsaved : Nat,
           processed : Nat, imported : Nat, failed : Nat]
NoRunner == [unit |-> "none"]

TypeOK ==
  /\ size \in [Unit -> Count]
  /\ stored \subseteq Line /\ grouped \subseteq Line /\ thrown \subseteq Line
  /\ offset \in [Unit -> Count]
  /\ unit \in [Unit -> Row \cup {NoRow}]
  /\ job \in Terminal \cup {"absent", "queued", "running", "cancelling"}
  /\ pc \in {"idle", "manifest", "units", "parse", "records", "caught", "stat", "progress", "down"}
  /\ todo \subseteq Unit
  /\ at \in Runner \cup {NoRunner}
  /\ spent \in [jobs : 0..MaxJobs, retries : 0..MaxRetries, crashes : 0..MaxCrashes]

Init ==
  /\ size \in [Unit -> {0, 1}]
  /\ stored = {} /\ grouped = {} /\ thrown = {}
  /\ offset = [u \in Unit |-> 0]
  /\ unit = [u \in Unit |-> NoRow]
  /\ job = "absent"
  /\ pc = "idle" /\ todo = {} /\ at = NoRunner
  /\ spent = [jobs |-> 0, retries |-> 0, crashes |-> 0]

Spend(kind, bound) == spent[kind] < bound /\ spent' = [spent EXCEPT ![kind] = @ + 1]

Units(statuses) == {u \in Unit : unit[u].status \in statuses}

----------------------------------------------------------------------------
(* The agent, and the requests the daemon answers *)

AppendLine(u) ==
  /\ size[u] < MaxLines
  /\ size' = [size EXCEPT ![u] = @ + 1]
  /\ UNCHANGED <<ledger, job, worker, spent>>

Up == pc # "down"

QueueJob ==
  /\ Up /\ pc = "idle"
  /\ job \in Terminal \cup {"absent"}
  /\ Spend("jobs", MaxJobs)
  /\ job' = "queued"
  /\ unit' = [u \in Unit |-> NoRow]
  /\ UNCHANGED <<size, stored, grouped, thrown, offset, worker>>

RetryJob ==
  /\ Up /\ pc = "idle"
  /\ job \in Terminal
  /\ Spend("retries", MaxRetries)
  /\ job' = "queued"
  /\ UNCHANGED <<size, ledger, worker>>

CancelJob ==
  /\ Up
  /\ job \in {"queued", "running"}
  /\ job' = IF job = "queued" THEN "cancelled" ELSE "cancelling"
  /\ UNCHANGED <<size, ledger, worker, spent>>

----------------------------------------------------------------------------
(* The worker *)

StartWorker ==
  /\ pc = "idle" /\ job = "queued"
  /\ job' = "running" /\ pc' = "manifest"
  /\ UNCHANGED <<size, ledger, todo, at, spent>>

(* The worker ends; the row records a verdict, or that it was cancelled.    *)
EndJob(verdict) ==
  /\ job' = IF job = "cancelling" THEN "cancelled" ELSE verdict
  /\ pc' = "idle" /\ todo' = {} /\ at' = NoRunner

(* controls.updateProgress and throwIfCancelled throw from here on.         *)
Aborting == job = "cancelling"
Abort == Aborting /\ EndJob("cancelled") /\ UNCHANGED <<size, ledger, spent>>

PlannedRow(u, status) ==
  [status |-> status, before |-> offset[u], cursor |-> offset[u],
   processed |-> 0, imported |-> 0, failed |-> 0]

(* The rows of a manifest; the scope defers some units.                     *)
Manifest(planned, deferred) ==
  [u \in Unit |-> CASE u \in planned \cap deferred -> PlannedRow(u, "skipped")
                   [] u \in planned \ deferred -> PlannedRow(u, "queued")
                   [] OTHER -> NoRow]

(* Mutant: every start of the worker plans its units.                        *)
AlwaysNeedsManifest == TRUE

(* A job that already has units keeps them, be they all or not.             *)
NeedsManifest == Units(UnitStatus) = {}

(* A cancellation is noticed before the plan is made or after it is stored. *)
PlanUnits ==
  /\ pc = "manifest"
  /\ \/ Abort
     \/ /\ \/ NeedsManifest /\ \E deferred \in SUBSET Unit : unit' = Manifest(Unit, deferred)
           \/ ~NeedsManifest /\ UNCHANGED unit
        /\ \/ Aborting /\ EndJob("cancelled")
           \/ /\ ~Aborting
              /\ todo' = {u \in Unit : unit'[u].status \in {"queued", "running", "failed"}}
              /\ pc' = "units"
              /\ UNCHANGED <<job, at>>
        /\ UNCHANGED <<size, stored, grouped, thrown, offset, spent>>

(* createManifestForJob inserts the rows one by one, outside a transaction: *)
(* a process that dies meanwhile leaves some of them.                       *)
DieWhilePlanning ==
  /\ pc = "manifest" /\ NeedsManifest
  /\ Spend("crashes", MaxCrashes)
  /\ \E planned \in SUBSET Unit \ {Unit}, deferred \in SUBSET Unit :
       unit' = Manifest(planned, deferred)
  /\ pc' = "down" /\ todo' = {} /\ at' = NoRunner
  /\ UNCHANGED <<size, stored, grouped, thrown, offset, job>>

(* Mutant: the runner counts from zero instead of from the row.              *)
OpenedFromZero(u) ==
  [unit |-> u, to |-> unit[u].cursor, cursor |-> unit[u].cursor, unsaved |-> 0,
   processed |-> 0, imported |-> 0, failed |-> 0]

(* The local variables of a runner that has read the row of its unit.       *)
Opened(u) ==
  [unit |-> u, to |-> unit[u].cursor, cursor |-> unit[u].cursor, unsaved |-> 0,
   processed |-> unit[u].processed, imported |-> unit[u].imported, failed |-> unit[u].failed]

Refused(u) == [unit[u] EXCEPT !.status = "failed", !.processed = 0, !.failed = 1]

BeginUnit(u) ==
  /\ pc = "units" /\ u \in todo
  /\ \/ Abort
     \/ /\ ~Aborting
        /\ todo' = todo \ {u}
        /\ at' = Opened(u)
        /\ \/ /\ u \in Permitted
              /\ unit' = [unit EXCEPT ![u].status = "running"]
              /\ pc' = "parse"
           \/ /\ u \notin Permitted
              /\ unit' = [unit EXCEPT ![u] = Refused(u)]
              /\ pc' = "progress"
        /\ UNCHANGED <<size, stored, grouped, thrown, offset, job, spent>>

AtLeastOne(n) == IF n = 0 THEN 1 ELSE n

(* The row of the unit in hand after its checkpoint or its end.             *)
Saved(runner, status) ==
  [unit[runner.unit] EXCEPT
     !.status = status, !.cursor = runner.cursor, !.processed = runner.processed,
     !.imported = runner.imported,
     !.failed = IF status = "failed" THEN AtLeastOne(runner.failed) ELSE runner.failed]

(* upsertCursor                                                             *)
CursorMoved(u, to) == offset' = [offset EXCEPT ![u] = to]

(* The unit's row and the cursor of its file, one transaction.              *)
Checkpoint(runner, status) ==
  /\ unit' = [unit EXCEPT ![runner.unit] = Saved(runner, status)]
  /\ CursorMoved(runner.unit, runner.cursor)

(* The whole file from the cursor to its end, as of now, or an exception.   *)
ParseUnit ==
  /\ pc = "parse"
  /\ \/ /\ at' = [at EXCEPT !.to = size[at.unit]]
        /\ pc' = "records"
        /\ UNCHANGED unit
     \/ /\ unit' = [unit EXCEPT ![at.unit] = Saved(at, "failed")]
        /\ pc' = "progress"
        /\ UNCHANGED at
  /\ UNCHANGED <<size, stored, grouped, thrown, offset, job, todo, spent>>

Advanced(imported, failed) ==
  [at EXCEPT !.cursor = @ + 1, !.processed = @ + 1, !.unsaved = @ + 1,
             !.imported = @ + imported, !.failed = @ + failed]

(* A checkpoint is followed by updateProgress.  When that throws, the unit  *)
(* is recorded as failed, and the job goes on to its next progress report.  *)
SaveWhenDue(runner, due) ==
  \/ /\ ~due
     /\ at' = runner /\ pc' = pc
     /\ UNCHANGED <<unit, offset>>
  \/ /\ due
     /\ Checkpoint(runner, IF Aborting THEN "failed" ELSE "running")
     /\ at' = [runner EXCEPT !.unsaved = 0]
     /\ pc' = IF Aborting THEN "progress" ELSE pc

NextLine == <<at.unit, at.cursor + 1>>

ImportLine ==
  /\ pc = "records" /\ at.cursor < at.to
  /\ LET runner == CASE NextLine \in Malformed -> Advanced(0, 1)
                     [] NextLine \in Excluded -> Advanced(0, 0)
                     [] OTHER -> Advanced(1, 0)
     IN  SaveWhenDue(runner, runner.unsaved >= CheckpointInterval)
  /\ stored' = stored \cup ({NextLine} \ (Malformed \cup Excluded))
  /\ UNCHANGED <<size, grouped, thrown, job, todo, spent>>

(* recordImportFailureGroup: a new group, or one more of an existing group.  *)
GroupFailure(u, line) == grouped' = grouped \cup {<<u, line>>}

(* ingestAdapterRecord throws.  The runner has already passed the line, and *)
(* its catch block first saves that position: when the job is being         *)
(* cancelled that throws again and leaves the unit running.  The failure    *)
(* group and the failed unit are written after the await.                   *)
IngestThrows ==
  /\ pc = "records" /\ at.cursor < at.to
  /\ NextLine \notin Malformed \cup Excluded
  /\ thrown' = thrown \cup {NextLine}
  /\ Checkpoint(Advanced(0, 0), "running")
  /\ \/ Aborting /\ EndJob("cancelled")
     \/ ~Aborting /\ pc' = "caught" /\ at' = Advanced(0, 0) /\ UNCHANGED <<job, todo>>
  /\ UNCHANGED <<size, stored, grouped, spent>>

RecordFailure ==
  /\ pc = "caught"
  /\ GroupFailure(at.unit, at.cursor)
  /\ unit' = [unit EXCEPT ![at.unit] = Saved(at, "failed")]
  /\ pc' = "progress"
  /\ UNCHANGED <<size, stored, thrown, offset, job, todo, at, spent>>

(* The verdict over a unit that was read to its end; repair says that its   *)
(* transcript was partial or of no single session.                          *)
UnitVerdict(repair) ==
  IF repair THEN "succeeded_with_issues"
  ELSE IF at.failed = 0 THEN "succeeded"
  ELSE IF at.imported > 0 THEN "succeeded_with_issues" ELSE "failed"

FinishUnit ==
  /\ pc = "records" /\ at.cursor = at.to
  /\ \/ /\ at.unsaved > 0 /\ Aborting
        /\ SaveWhenDue(at, TRUE)
     \/ /\ at.unsaved = 0 \/ ~Aborting
        /\ \E repair \in BOOLEAN :
             LET verdict == UnitVerdict(repair) IN
             /\ unit' = [unit EXCEPT ![at.unit] = [Saved(at, verdict) EXCEPT !.failed = at.failed]]
             /\ IF at.unsaved > 0 THEN CursorMoved(at.unit, at.cursor) ELSE UNCHANGED offset
             /\ pc' = IF verdict \in Done THEN "stat" ELSE "progress"
        /\ UNCHANGED at
  /\ UNCHANGED <<size, stored, grouped, thrown, job, todo, spent>>

(* updateCursorAfterWorkUnit: the cursor becomes the size the file has now. *)
CursorAfterUnit ==
  /\ pc = "stat"
  /\ CursorMoved(at.unit, size[at.unit])
  /\ pc' = "progress"
  /\ UNCHANGED <<size, stored, grouped, thrown, unit, job, todo, at, spent>>

ReportProgress ==
  /\ pc = "progress"
  /\ \/ Abort
     \/ /\ ~Aborting
        /\ pc' = "units" /\ at' = NoRunner
        /\ UNCHANGED <<size, ledger, job, todo, spent>>

(* buildImportCompletionReport throws over a unit in no column of its sum;  *)
(* an anomaly it finds in the imported sessions is an issue.                *)
Accounted == Units({"cancelled"}) = {}
(* Mutant: a verdict from the statuses of the units alone.                   *)
VerdictWithoutCounts(anomaly) ==
  IF ~Accounted THEN "failed"
  ELSE IF anomaly \/ Units({"succeeded_with_issues"}) # {} THEN "succeeded_with_issues"
  ELSE "succeeded"

Verdict(anomaly) ==
  IF ~Accounted THEN "failed"
  ELSE IF \E u \in Units(UnitStatus) : unit[u].failed > 0
       THEN IF \E u \in Units(UnitStatus) : unit[u].imported > 0 THEN "succeeded_with_issues" ELSE "failed"
  ELSE IF anomaly \/ Units({"succeeded_with_issues"}) # {} THEN "succeeded_with_issues"
  ELSE "succeeded"

FinishJob ==
  /\ pc = "units" /\ todo = {}
  /\ \E anomaly \in BOOLEAN : EndJob(Verdict(anomaly))
  /\ UNCHANGED <<size, ledger, spent>>

----------------------------------------------------------------------------
(* Death and recovery *)

Crash ==
  /\ Up
  /\ Spend("crashes", MaxCrashes)
  /\ pc' = "down" /\ todo' = {} /\ at' = NoRunner
  /\ UNCHANGED <<size, ledger, job>>

(* Mutant: only queued jobs are taken up again.                              *)
RecoverQueued ==
  /\ pc = "down"
  /\ pc' = "idle"
  /\ UNCHANGED <<size, ledger, job, todo, at, spent>>

(* recoverInterruptedImportJobs: a job being cancelled is finalised with    *)
(* its open units, any other starts again from the checkpoints of its units.*)
Recover ==
  /\ pc = "down"
  /\ pc' = "idle"
  /\ LET reset(u, from, to) == IF unit[u].status \in from
                               THEN [unit[u] EXCEPT !.status = to] ELSE unit[u]
     IN  \/ /\ job \in {"queued", "running"}
            /\ job' = "queued"
            /\ unit' = [u \in Unit |-> reset(u, {"running"}, "queued")]
         \/ /\ job = "cancelling"
            /\ job' = "cancelled"
            /\ unit' = [u \in Unit |-> reset(u, {"queued", "running"}, "cancelled")]
         \/ /\ job \notin {"queued", "running", "cancelling"}
            /\ UNCHANGED <<job, unit>>
  /\ UNCHANGED <<size, stored, grouped, thrown, offset, todo, at, spent>>

Work ==
  \/ StartWorker \/ PlanUnits \/ (\E u \in Unit : BeginUnit(u))
  \/ ParseUnit \/ ImportLine \/ IngestThrows \/ RecordFailure \/ FinishUnit
  \/ CursorAfterUnit \/ ReportProgress \/ FinishJob \/ Recover

Next ==
  \/ \E u \in Unit : AppendLine(u)
  \/ QueueJob \/ RetryJob \/ CancelJob
  \/ Work
  \/ Crash \/ DieWhilePlanning

Spec == Init /\ [][Next]_vars
FairSpec == Spec /\ WF_vars(Work)

----------------------------------------------------------------------------
(* Safety *)

Covered(u) == {<<u, l>> : l \in unit[u].before + 1 .. unit[u].cursor}

(* The counters of a unit and its cursor describe the same lines, however   *)
(* often the unit was interrupted: each line between the planned and the    *)
(* saved cursor was counted once, as imported or not, and                   *)
(* every line counted as imported is stored.  Between two checkpoints the   *)
(* counters are in memory while the lines are in the database already.      *)
CheckpointsAddUp ==
  \A u \in Units(UnitStatus) :
    LET imported == Covered(u) \ (Malformed \cup Excluded \cup thrown) IN
    /\ unit[u].processed = unit[u].cursor - unit[u].before
    /\ unit[u].imported = Cardinality(imported)
    /\ imported \subseteq stored
    /\ unit[u].failed >= Cardinality(Covered(u) \cap Malformed)

(* A clean receipt hides no failure that was recorded: when the job says    *)
(* succeeded, each of its units was read to its end or deferred by the      *)
(* scope, and no line of it is malformed or in a failure group.             *)
CleanReceipt ==
  job = "succeeded" =>
    \A u \in Units(UnitStatus) :
      /\ unit[u].status \in {"succeeded", "skipped"}
      /\ unit[u].failed = 0
      /\ Covered(u) \cap (Malformed \cup grouped) = {}

(* logbook-and-workbench.md: completed work units are not repeated.  And a  *)
(* retry or a restart takes no unit back behind its checkpoint.             *)
CheckpointsOnlyAdvance ==
  [][\A u \in Units(UnitStatus) :
       unit'[u] # NoRow => /\ unit'[u].cursor >= unit[u].cursor
                           /\ unit[u].status \in Done => unit'[u] = unit[u]]_vars

----------------------------------------------------------------------------
(* Liveness *)

(* A job that was asked for ends, in spite of restarts and of files that    *)
(* grow while they are read.                                                *)
JobEnds == job \in {"queued", "running", "cancelling"} ~> job \in Terminal
=============================================================================
