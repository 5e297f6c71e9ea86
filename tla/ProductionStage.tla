------------------------- MODULE ProductionStage --------------------------
(***************************************************************************)
(* The commands of scripts/masthead-production.js that bring a new bundle *)
(* in: stage copies it beside the installed one and reserves the          *)
(* launchers; activate migrates the database and switches the surfaces    *)
(* over.  Each begins with the sweep and the gate of ProductionInstall and *)
(* may fail or be killed between any two steps.                            *)
(***************************************************************************)
EXTENDS ProductionInstall

\* ----------------------------------------------------------------- stage
FailStage == proc' = [proc EXCEPT !.cmd = "failed", !.pc = "sweep"] /\ UNCHANGED <<outcome, superseded>>

Fresh(r) ==
  /\ receipt[r] = None /\ marker[r] = "none" /\ previous[r] = None
  /\ bundle[r] = "absent" /\ pending # r
  /\ \A file \in {journal, transition} : file # None => file.r # r

\* The retry of a stage whose receipt is durable returns that receipt, if the
\* request is the same one and nothing moved since.
StageRetry ==
  /\ At("stage", "body")
  /\ pending # None
  /\ IF receipt[pending] = NewReceipt /\ current = Rollback(pending) /\ Whole(pending) /\ ReceiptHolds(pending)
     THEN \/ pending' = None /\ End("done")
          \/ UNCHANGED pending /\ FailStage
     ELSE UNCHANGED pending /\ FailStage
  /\ UNCHANGED <<disk, intent, receipt, journal, marker, database, daemon>>

StageIntent(r) ==
  /\ At("stage", "body")
  /\ pending = None /\ Fresh(r)
  /\ intent' = [r |-> r, owns |-> FALSE]
  /\ proc' = [proc EXCEPT !.pc = "claim", !.r = r]
  /\ UNCHANGED <<disk, pending, receipt, journal, marker, database, daemon, outcome, superseded>>

\* The candidate gets a name of its own. (A source that already is a bundle of
\* the installation is staged in its place by the code, with no copy; two
\* receipts may then name one candidate. That case is left out.)
StageClaim ==
  /\ At("stage", "claim")
  /\ bundle' = [bundle EXCEPT ![proc.r] = "temp"]
  /\ Goto("own")
  /\ UNCHANGED <<surface, staged, torn, previous, records, database, daemon>>

StageOwn ==
  /\ At("stage", "own")
  /\ intent' = [intent EXCEPT !.owns = TRUE]
  /\ Goto("copy")
  /\ UNCHANGED <<disk, pending, receipt, journal, marker, database, daemon>>

StagePublish ==
  /\ At("stage", "copy")
  /\ bundle' = [bundle EXCEPT ![proc.r] = "present"]
  /\ Goto("reserve")
  /\ UNCHANGED <<surface, staged, torn, previous, records, database, daemon>>

\* What the surfaces held is recorded, and the three staged files are reserved.
StageReserve ==
  /\ At("stage", "reserve")
  /\ previous' = [previous EXCEPT ![proc.r] = surface]
  /\ Goto("files")
  /\ UNCHANGED <<surface, bundle, staged, torn, records, database, daemon>>

StageFile ==
  /\ At("stage", "files")
  /\ IF torn = proc.r THEN torn' = None /\ UNCHANGED staged
     ELSE /\ staged[proc.r] # StagedFiles
          /\ staged' = [staged EXCEPT ![proc.r] = @ \cup {Min(StagedFiles \ @)}]
          /\ torn' = proc.r
  /\ UNCHANGED <<surface, bundle, previous, records, database, daemon, proc, outcome, superseded>>

StageSeal ==
  /\ At("stage", "files")
  /\ ReceiptHolds(proc.r)
  /\ IF Whole(Rollback(proc.r)) THEN pending' = proc.r /\ Goto("publish") ELSE UNCHANGED pending /\ FailStage
  /\ UNCHANGED <<disk, intent, receipt, journal, marker, database, daemon>>

StageReceipt ==
  /\ At("stage", "publish")
  /\ receipt' = [receipt EXCEPT ![proc.r] = NewReceipt]
  /\ Goto("unintent")
  /\ UNCHANGED <<disk, intent, pending, journal, marker, database, daemon>>

StageUnintent ==
  /\ At("stage", "unintent")
  /\ intent' = None
  /\ Goto("unpend")
  /\ UNCHANGED <<disk, pending, receipt, journal, marker, database, daemon>>

StageDone ==
  /\ At("stage", "unpend")
  /\ pending' = None
  /\ End("done")
  /\ UNCHANGED <<disk, intent, receipt, journal, marker, database, daemon>>

\* Any step may throw, a write that fills the disk among them: the stage sweeps
\* what it left, in the same process.
StageFails ==
  /\ proc # None /\ proc.cmd = "stage"
  /\ proc.pc \in {"claim", "own", "copy", "reserve", "files", "publish", "unintent"}
  /\ FailStage
  /\ UNCHANGED <<disk, records, database, daemon>>

Stage == \/ StageRetry \/ (\E r \in Receipts : StageIntent(r)) \/ StageClaim \/ StageOwn \/ StagePublish
         \/ StageReserve \/ StageFile \/ StageSeal \/ StageReceipt \/ StageUnintent \/ StageDone

\* -------------------------------------------------------------- activate
ActivatePending ==
  /\ At("activate", "pending")
  /\ IF pending = None THEN UNCHANGED pending /\ Goto("gate")
     ELSE IF pending = proc.r /\ receipt[pending] = NewReceipt THEN pending' = None /\ Goto("gate")
     ELSE UNCHANGED pending /\ End("refused")
  /\ UNCHANGED <<disk, intent, receipt, journal, marker, database, daemon>>

\* What activation asks apart from the candidate itself. (Mutant of the next:
\* the candidate is not verified.)
ActivatableUnverified(r) ==
  /\ receipt[r] # None /\ Whole(Rollback(r)) /\ Offline
  /\ SurfacesBefore(r) /\ ReceiptHolds(r)

\* Both bundles are verified, production is offline, the surfaces are as they
\* were when the receipt was staged.
Activatable(r) == ActivatableUnverified(r) /\ Whole(r)

Preparable(r) ==
  transition # None => transition.r = r /\ transition.state \in {"snapshot_ready", "ready_to_activate"}

ActivateChecks ==
  /\ At("activate", "body")
  /\ Unless(Activatable(proc.r) /\ Preparable(proc.r), Goto("prepare"))
  /\ UNCHANGED <<disk, records, database, daemon>>

\* prepareProductionTransition: snapshot, migration in place, readiness.
PrepareSnapshot ==
  /\ At("activate", "prepare")
  /\ transition = None
  /\ transition' = [r |-> proc.r, source |-> schema, state |-> "snapshot_ready"]
  /\ UNCHANGED <<disk, records, schema, daemon, proc, outcome, superseded>>

PrepareMigrate ==
  /\ At("activate", "prepare")
  /\ transition # None /\ transition.state = "snapshot_ready"
  /\ schema' = proc.r
  /\ transition' = IF schema = proc.r THEN [transition EXCEPT !.state = "ready_to_activate"] ELSE transition
  /\ UNCHANGED <<disk, records, daemon, proc, outcome, superseded>>

PrepareFails ==
  /\ At("activate", "prepare")
  /\ transition # None /\ transition.state = "snapshot_ready"
  /\ Goto("unprepare")
  /\ UNCHANGED <<disk, records, database, daemon>>

\* The database is bound to the receipt, once.
PrepareBind ==
  /\ At("activate", "prepare")
  /\ transition # None /\ transition.state = "ready_to_activate"
  /\ LET bound == receipt[proc.r].source IN
     IF bound \in {None, transition.source}
     THEN receipt' = [receipt EXCEPT ![proc.r].source = transition.source] /\ Goto("begin")
     ELSE UNCHANGED receipt /\ End("refused")
  /\ UNCHANGED <<disk, intent, pending, journal, marker, database, daemon>>

\* restoreSnapshotInsideOwnership: the state is recorded, the snapshot promoted
\* over the database, the outcome recorded.
RestoreDatabaseStep ==
  IF transition.state # "restoring"
  THEN transition' = [transition EXCEPT !.state = "restoring"] /\ UNCHANGED schema
  ELSE IF schema # transition.source
  THEN schema' = transition.source /\ UNCHANGED transition
  ELSE transition' = [transition EXCEPT !.state = "restored"] /\ UNCHANGED schema

RestoresDatabase == \/ At("activate", "unprepare") \/ At("abort", "database") \/ At("start", "database")
                    \/ At("abort", "cancel-database") /\ transition.state = "restoring"
                    \/ At("abort", "cancel-database") /\ transition.state # "restored" /\ schema = transition.r

RestoreDatabase ==
  /\ RestoresDatabase
  /\ transition.state # "restored"
  /\ RestoreDatabaseStep
  /\ UNCHANGED <<disk, records, daemon, proc, outcome, superseded>>

Unprepare ==
  /\ At("activate", "unprepare")
  /\ transition.state = "restored"
  /\ transition' = None
  /\ End("refused")
  /\ UNCHANGED <<disk, records, schema, daemon>>

ActivateJournal ==
  /\ At("activate", "begin")
  /\ journal' = [r |-> proc.r, phase |-> "activating", rec |-> receipt[proc.r]]
  /\ proc' = [proc EXCEPT !.pc = "switch", !.rec = receipt[proc.r]]
  /\ UNCHANGED <<disk, intent, pending, receipt, marker, database, daemon, outcome, superseded>>

ActivateSwitch ==
  /\ At("activate", "switch")
  /\ ~AllSurfaces(proc.r)
  /\ LET s == Min({s \in Surfaces : surface[s] # proc.r}) IN surface' = [surface EXCEPT ![s] = proc.r]
  /\ UNCHANGED <<bundle, staged, torn, previous, records, database, daemon, proc, outcome, superseded>>

\* The journal holds the activated receipt before it says committed, and the
\* receipt file is written last.
ActivatePreCommit ==
  /\ At("activate", "switch")
  /\ AllSurfaces(proc.r)
  /\ journal' = [journal EXCEPT !.rec.activated = TRUE]
  /\ Goto("commit")
  /\ UNCHANGED <<disk, intent, pending, receipt, marker, database, daemon>>

ActivateCommit ==
  /\ At("activate", "commit")
  /\ journal' = [journal EXCEPT !.phase = "committed"]
  /\ Goto("persist")
  /\ UNCHANGED <<disk, intent, pending, receipt, marker, database, daemon>>

ActivatePersist ==
  /\ At("activate", "persist")
  /\ receipt' = [receipt EXCEPT ![proc.r] = journal.rec]
  /\ End("done")
  /\ UNCHANGED <<disk, intent, pending, journal, marker, database, daemon>>

ActivateFails ==
  /\ At("activate", "switch") \/ At("activate", "commit")
  /\ proc' = [proc EXCEPT !.cmd = "failed", !.pc = "restore"]
  /\ UNCHANGED <<disk, records, database, daemon, outcome, superseded>>

Activate == \/ ActivatePending \/ ActivateChecks \/ PrepareSnapshot \/ PrepareMigrate \/ PrepareBind
            \/ Unprepare \/ ActivateJournal \/ ActivateSwitch \/ ActivatePreCommit
            \/ ActivateCommit \/ ActivatePersist
=============================================================================
