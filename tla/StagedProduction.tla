------------------------- MODULE StagedProduction -------------------------
(***************************************************************************)
(* The staged installation of scripts/masthead-production.js as a whole:  *)
(* besides stage and activate, start and stop run the installed bundle,   *)
(* finalize removes the old one once the new daemon is live, abort goes   *)
(* back to it, or cancels what was never activated.  One command runs at a *)
(* time; it may be killed between any two writes, and its operator reruns *)
(* it, or another one.                                                     *)
(***************************************************************************)
EXTENDS ProductionStage


\* A receipt is loaded before anything else, from its file or from a journal.
Loadable(cmd, r) ==
  \/ receipt[r] # None
  \/ /\ journal # None /\ journal.r = r
     /\ journal.phase \in CASE cmd = "activate" -> {"committed"}
                            [] cmd = "finalize" -> {"finalize-cleanup"}
                            [] cmd = "abort" -> AbortPhases

\* There are as many stagings as Receipts has nonces.
InvokeStage == (pending # None \/ \E r \in Receipts : Fresh(r)) /\ Invoke("stage", None)
InvokeWith(cmd, r) == Loadable(cmd, r) /\ Invoke(cmd, r)
InvokeStart == Whole(surface[Lifecycle]) /\ Invoke("start", surface[Lifecycle])
InvokeStop == Invoke("stop", None)

\* -------------------------------------------------------------- finalize
LiveProof(r) == Whole(r) /\ AllSurfaces(r) /\ daemon = r

FinalizeBegin ==
  /\ At("finalize", "body")
  /\ journal # None => journal.phase # "finalize-cleanup"
  /\ LET r == proc.r IN
     IF receipt[r] # None /\ receipt[r].activated /\ OnDisk(Rollback(r)) /\ LiveProof(r)
     THEN journal' = [r |-> r, phase |-> "finalizing", rec |-> receipt[r]] /\ Goto("recheck")
     ELSE UNCHANGED journal /\ End("refused")
  /\ UNCHANGED <<disk, intent, pending, receipt, marker, database, daemon>>

\* Mutant: the cleanup begins before the journal says so.
FinalizeProvesUnrecorded ==
  /\ At("finalize", "recheck")
  /\ Unless(LiveProof(proc.r) /\ NothingElse(proc.r), Goto("clean"))
  /\ UNCHANGED <<disk, records, database, daemon>>

\* Proved again behind the journal, or for the rest of a cleanup that began.
FinalizeProves ==
  /\ \/ At("finalize", "recheck")
     \/ At("finalize", "body") /\ journal # None /\ journal.phase = "finalize-cleanup"
  /\ IF LiveProof(proc.r) /\ NothingElse(proc.r)
     THEN journal' = [journal EXCEPT !.phase = "finalize-cleanup"] /\ Goto("clean")
     ELSE UNCHANGED journal /\ End("refused")
  /\ UNCHANGED <<disk, intent, pending, receipt, marker, database, daemon>>

RemoveBundle(b) ==
  bundle' = [bundle EXCEPT ![b] = IF @ = "present" THEN "partial" ELSE "absent"]

Others(r) == {b \in Bundles \ {r} : OnDisk(b)}

FinalizeRemovesBundle ==
  /\ At("finalize", "clean")
  /\ \E b \in Others(proc.r) : RemoveBundle(b)
  /\ UNCHANGED <<surface, staged, torn, previous, records, database, daemon, proc, outcome, superseded>>

FinalizeRemovesStaged ==
  /\ At("finalize", "clean")
  /\ Others(proc.r) = {}
  /\ staged[proc.r] # {}
  /\ staged' = [staged EXCEPT ![proc.r] = @ \ {Min(@)}]
  /\ UNCHANGED <<surface, bundle, torn, previous, records, database, daemon, proc, outcome, superseded>>

\* Mutant: marked before the old bundle and the staged files are removed.
FinalizeMarksEarly ==
  /\ At("finalize", "clean")
  /\ marker' = [marker EXCEPT ![proc.r] = "finalized"]
  /\ UNCHANGED <<disk, intent, pending, receipt, journal, database, daemon, proc, outcome, superseded>>

\* The marker replaces those of earlier finalizations.
FinalizeMarks ==
  /\ At("finalize", "clean")
  /\ Others(proc.r) = {} /\ staged[proc.r] = {}
  /\ marker' = [r \in Receipts |-> IF r = proc.r THEN "finalized"
                                  ELSE IF marker[r] = "finalized" THEN "none" ELSE marker[r]]
  /\ Goto("drop")
  /\ UNCHANGED <<disk, intent, pending, receipt, journal, database, daemon>>

DropReceipt ==
  /\ At("finalize", "drop") \/ At("abort", "drop")
  /\ IF proc.cmd = "finalize" \/ receipt[proc.r] \in {None, proc.rec}
     THEN receipt' = [receipt EXCEPT ![proc.r] = None] /\ Goto("end")
     ELSE UNCHANGED receipt /\ End("refused")
  /\ UNCHANGED <<disk, intent, pending, journal, marker, database, daemon>>

DropJournal ==
  /\ At("finalize", "end") \/ At("abort", "end")
  /\ journal' = None
  /\ End("done")
  /\ UNCHANGED <<disk, intent, pending, receipt, marker, database, daemon>>

Finalize == \/ FinalizeBegin \/ FinalizeProves \/ FinalizeRemovesBundle \/ FinalizeRemovesStaged
            \/ FinalizeMarks \/ DropReceipt \/ DropJournal

\* ----------------------------------------------------------------- abort
AbortReceipt == IF receipt[proc.r] # None THEN receipt[proc.r] ELSE journal.rec
Resuming == journal # None /\ journal.phase \in AbortPhases
JournalPhase(phase) == journal' = [r |-> proc.r, phase |-> phase, rec |-> proc.rec']

\* An activation is aborted while its journal stands, offline, with both
\* bundles as they were staged and the database where the receipt says.
AbortBegin ==
  /\ At("abort", "body")
  /\ AbortReceipt.activated
  /\ LET r == proc.r
         cleaning == journal # None /\ journal.phase = "abort-cleanup"
         ok == /\ journal # None
               /\ Whole(Rollback(r))
               /\ cleaning \/ Whole(r)
               /\ Offline
     IN
     CASE ok /\ transition # None /\ transition.r = r ->
            /\ proc' = [proc EXCEPT !.pc = "database", !.rec = AbortReceipt]
            /\ JournalPhase("aborting") /\ UNCHANGED <<outcome, superseded>>
       [] ok /\ transition = None /\ schema = AbortReceipt.source /\ (cleaning => SurfacesBefore(r)) ->
            /\ proc' = [proc EXCEPT !.pc = IF cleaning THEN "clean" ELSE "surfaces", !.rec = AbortReceipt]
            /\ UNCHANGED <<journal, outcome, superseded>>
       [] OTHER -> UNCHANGED journal /\ End("refused")
  /\ UNCHANGED <<disk, intent, pending, receipt, marker, database, daemon>>

AbortDatabaseDone ==
  /\ At("abort", "database")
  /\ transition.state = "restored"
  /\ Unless(Offline, Goto("surfaces"))
  /\ UNCHANGED <<disk, records, database, daemon>>

AbortSurfaces ==
  /\ At("abort", "surfaces")
  /\ IF current \in {proc.r, Rollback(proc.r)} /\ ReceiptHolds(proc.r) /\ Undoable
     THEN journal' = [journal EXCEPT !.phase = "aborting"] /\ Goto("undo")
     ELSE UNCHANGED journal /\ End("refused")
  /\ UNCHANGED <<disk, intent, pending, receipt, marker, database, daemon>>

AbortUndo ==
  /\ At("abort", "undo")
  /\ Changed(proc.r) # {}
  /\ LET s == Min(Changed(proc.r)) IN surface' = [surface EXCEPT ![s] = previous[proc.r][s]]
  /\ UNCHANGED <<bundle, staged, torn, previous, records, database, daemon, proc, outcome, superseded>>

AbortComplete ==
  /\ At("abort", "undo")
  /\ Changed(proc.r) = {}
  /\ transition' = None
  /\ Unless(schema = proc.rec.source, Goto("clean"))
  /\ UNCHANGED <<disk, records, schema, daemon>>

\* cancelUnactivatedStagedProductionInstallation: the surfaces never moved; a
\* transition the receipt owns is undone, another receipt's left alone.
CancelBegin ==
  /\ At("abort", "body")
  /\ ~AbortReceipt.activated
  /\ LET r == proc.r
         rec == AbortReceipt
         cleaning == Resuming /\ journal.phase = "cancel-cleanup"
         foreign == transition # None /\ transition.r # r
         ok == /\ Whole(Rollback(r)) /\ SurfacesBefore(r) /\ Offline
               /\ cleaning \/ Whole(r)
     IN
     IF ok /\ transition # None /\ transition.r = r /\ rec.source \in {None, transition.source}
     THEN /\ proc' = [proc EXCEPT !.pc = "cancel", !.rec = [rec EXCEPT !.source = transition.source]]
          /\ receipt' = [receipt EXCEPT ![r] = proc.rec']
          /\ UNCHANGED <<outcome, superseded>>
     ELSE /\ IF /\ ok /\ (transition = None \/ foreign)
                /\ foreign => receipt[transition.r] # None /\ ~receipt[transition.r].activated
                /\ rec.source \in {None, schema}
             THEN proc' = [proc EXCEPT !.pc = "clean", !.rec = rec] /\ UNCHANGED <<outcome, superseded>>
             ELSE End("refused")
          /\ UNCHANGED receipt
  /\ UNCHANGED <<disk, intent, pending, journal, marker, database, daemon>>

CancelJournal ==
  /\ At("abort", "cancel")
  /\ journal' = [r |-> proc.r, phase |-> "cancelling", rec |-> proc.rec]
  /\ Goto("cancel-database")
  /\ UNCHANGED <<disk, intent, pending, receipt, marker, database, daemon>>

CancelDatabase ==
  /\ At("abort", "cancel-database")
  /\ transition.state # "restoring"
  /\ transition.state # "restored" => schema # transition.r
  /\ transition' = None
  /\ proc' = [proc EXCEPT !.pc = "cancel-persist", !.rec.cancelled = TRUE]
  /\ UNCHANGED <<disk, records, schema, daemon, outcome, superseded>>

CancelPersist ==
  /\ At("abort", "cancel-persist")
  /\ receipt' = [receipt EXCEPT ![proc.r] = proc.rec]
  /\ Goto("cancel-record")
  /\ UNCHANGED <<disk, intent, pending, journal, marker, database, daemon>>

CancelRecord ==
  /\ At("abort", "cancel-record")
  /\ journal' = [journal EXCEPT !.rec = proc.rec]
  /\ Unless(Offline, Goto("clean"))
  /\ UNCHANGED <<disk, intent, pending, receipt, marker, database, daemon>>

\* Either way the staged files go, then the candidate, which must still be the
\* bundle that was staged, or gone.
AbortCleans == At("abort", "clean") /\ journal # None /\ journal.phase \in {"abort-cleanup", "cancel-cleanup"}

AbortMarksCleanup ==
  /\ At("abort", "clean")
  /\ ~AbortCleans
  /\ journal' = [r |-> proc.r, rec |-> proc.rec,
                 phase |-> IF proc.rec.activated THEN "abort-cleanup" ELSE "cancel-cleanup"]
  /\ UNCHANGED <<disk, intent, pending, receipt, marker, database, daemon, proc, outcome, superseded>>

AbortRemovesStaged ==
  /\ AbortCleans
  /\ staged[proc.r] # {}
  /\ staged' = [staged EXCEPT ![proc.r] = @ \ {Min(@)}]
  /\ UNCHANGED <<surface, bundle, torn, previous, records, database, daemon, proc, outcome, superseded>>

AbortCandidate ==
  /\ AbortCleans
  /\ staged[proc.r] = {}
  /\ Unless(bundle[proc.r] # "partial", Goto("remove"))
  /\ UNCHANGED <<disk, records, database, daemon>>

AbortRemovesCandidate ==
  /\ At("abort", "remove")
  /\ OnDisk(proc.r)
  /\ RemoveBundle(proc.r)
  /\ UNCHANGED <<surface, staged, torn, previous, records, database, daemon, proc, outcome, superseded>>

AbortHygiene(r) ==
  /\ SurfacesBefore(r) /\ Whole(Rollback(r))
  /\ journal.phase = "abort-cleanup" =>
       /\ Others(Rollback(r)) = {}
       /\ \A q \in Receipts \ {r} : receipt[q] = None /\ 1 \notin staged[q] /\ bundle[q] # "temp"
  /\ proc.rec.source \in {None, schema}

AbortMarks ==
  /\ At("abort", "remove")
  /\ bundle[proc.r] = "absent"
  /\ IF AbortHygiene(proc.r)
     THEN marker' = [marker EXCEPT ![proc.r] = "aborted"] /\ Goto("drop")
     ELSE UNCHANGED marker /\ End("refused")
  /\ UNCHANGED <<disk, intent, pending, receipt, journal, database, daemon>>

Abort == \/ AbortBegin \/ AbortDatabaseDone \/ AbortSurfaces \/ AbortUndo \/ AbortComplete
         \/ CancelBegin \/ CancelJournal \/ CancelDatabase \/ CancelPersist \/ CancelRecord
         \/ AbortMarksCleanup \/ AbortRemovesStaged \/ AbortCandidate \/ AbortRemovesCandidate \/ AbortMarks

\* -------------------------------------------------------- start and stop
\* The transition a committed activation prepared, which its start completes.
Prepared == journal # None /\ journal.phase = "committed"
OldBundle == Rollback(transition.r)

\* The start first stops whatever runs, which may fail as Stop may.
StartInterrupted ==
  /\ At("start", "body")
  /\ transition # None /\ ~Prepared
  /\ IF /\ proc.r \in {OldBundle, transition.r}
        /\ Whole(OldBundle) /\ Whole(transition.r)
        /\ current \in {OldBundle, transition.r}
     THEN \/ daemon' = None /\ Goto("database")
          \/ UNCHANGED daemon /\ End("refused")
     ELSE UNCHANGED daemon /\ End("refused")
  /\ UNCHANGED <<disk, records, database>>

\* current, the lifecycle launcher and the desktop entry go back to the old
\* bundle: in one step here, since an activation that moved them has a journal,
\* which the gate settled, and they hold it already.
StartRecovered ==
  /\ At("start", "database")
  /\ transition.state = "restored"
  /\ surface' = [s \in Surfaces |-> IF s = 1 THEN surface[s] ELSE OldBundle]
  /\ proc' = [proc EXCEPT !.pc = "spawn", !.r = OldBundle]
  /\ UNCHANGED <<bundle, staged, torn, previous, records, database, daemon, outcome, superseded>>

StartGuard ==
  /\ At("start", "body")
  /\ Prepared \/ transition = None
  /\ Unless(/\ Prepared => journal.r = proc.r
            /\ transition # None => transition.r = proc.r /\ transition.state = "ready_to_activate"
            /\ current = proc.r,
            Goto("spawn"))
  /\ UNCHANGED <<disk, records, database, daemon>>

\* A daemon of another bundle stops the start; one that is not healthy in time
\* is stopped again.
StartDaemon ==
  /\ At("start", "spawn")
  /\ \/ daemon \in {None, proc.r} /\ daemon' = proc.r /\ Goto("complete")
     \/ daemon' = (IF daemon = proc.r THEN None ELSE daemon) /\ End("refused")
  /\ UNCHANGED <<disk, records, database>>

StartCompletes ==
  /\ At("start", "complete")
  /\ transition' = None
  /\ IF transition # None /\ ~Prepared THEN Goto("prune") ELSE End("done")
  /\ UNCHANGED <<disk, records, schema, daemon>>

\* An interrupted start keeps no bundle but the one it went back to.
StartPrunes ==
  /\ At("start", "prune")
  /\ IF Others(proc.r) = {} THEN UNCHANGED bundle /\ End("done")
     ELSE /\ \E b \in Others(proc.r) : RemoveBundle(b)
          /\ UNCHANGED <<proc, outcome, superseded>>
  /\ UNCHANGED <<surface, staged, torn, previous, records, database, daemon>>

\* Mutant: the exit of the signalled processes is awaited without a deadline.
StopAwaits ==
  /\ At("stop", "body")
  /\ daemon = None
  /\ End("done")
  /\ UNCHANGED <<disk, records, database, daemon>>

\* Every process is signalled and awaited; one that does not exit in time is
\* left alone.
Stop ==
  /\ At("stop", "body")
  /\ \/ daemon' = None /\ End("done")
     \/ UNCHANGED daemon /\ End("refused")
  /\ UNCHANGED <<disk, records, database>>

Start == \/ StartInterrupted \/ StartRecovered \/ StartGuard \/ StartDaemon
         \/ StartCompletes \/ StartPrunes

\* The app is closed, or its daemon dies, whatever command is running.
DaemonExits ==
  /\ daemon # None
  /\ daemon' = None
  /\ UNCHANGED <<disk, records, database, proc, outcome, superseded>>

\* ----------------------------------------------------------- specification
Step == Sweep \/ Gate \/ Stage \/ Activate \/ RestoreDatabase \/ Finalize \/ Abort \/ Start \/ Stop
Fails == StageFails \/ PrepareFails \/ ActivateFails \/ Die
Invocations == \/ InvokeStage \/ InvokeStart \/ InvokeStop
               \/ \E cmd \in {"activate", "finalize", "abort"}, r \in Receipts : InvokeWith(cmd, r)

Next == Step \/ Fails \/ Invocations \/ DaemonExits

Spec == Init /\ [][Next]_vars
FairSpec == Spec /\ WF_vars(Step)

\* -------------------------------------------------------------- properties
\* Outside a journal the four active surfaces belong to one bundle: no launcher
\* starts another version than the one that is current.
OneSurface == journal = None => AllSurfaces(current)

\* While an activation can still be undone, the bundle it goes back to is whole.
RollbackKept ==
  journal # None /\ journal.phase \in Phases \ {"finalize-cleanup"} => Whole(Rollback(journal.r))

\* The current bundle is whole, whatever command was killed where, unless a
\* finalization was killed while it removed the bundle it had replaced, and the
\* next command took its journal for that of an interrupted activation and made
\* that bundle current again.
CurrentIsWhole == superseded = "gutted" \/ Whole(current)

\* The same with no exception: the one way back that
\* docs/reference/production-cold-activation.md:21 supports re-attests the
\* bundle it goes back to. False, see the run production_rollback.
OnlyWholeIsCurrent == Whole(current)

\* With nothing pending, the database has the schema of the current bundle,
\* unless an activation was rolled back after its start had completed the
\* database and its finalization had begun.
DatabaseFollowsCurrent ==
  journal = None /\ transition = None /\ superseded = "no" => schema = current

\* Together: what runs is one version.
OneVersion == OneSurface /\ DatabaseFollowsCurrent

\* A daemon that ran behind a finalized marker is left only for a later receipt.
FinalizedStays ==
  [][\A r \in Receipts : marker[r] = "finalized" /\ current = r /\ current' # r =>
       journal # None /\ journal.phase = "activating" /\ journal.r # r]_vars

\* Every command that is not killed ends.
CommandsEnd == proc # None ~> proc = None
=============================================================================
