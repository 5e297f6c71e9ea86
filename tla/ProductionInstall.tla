------------------------- MODULE ProductionInstall -------------------------
(***************************************************************************)
(* The disk state of a production installation and what every lifecycle   *)
(* command of scripts/masthead-production.js does first: sweep an         *)
(* interrupted stage (reconcileProductionStageIntent) and settle a        *)
(* pending activation journal (gatePendingProductionLifecycle).           *)
(*                                                                         *)
(* A command runs alone, under the exclusive SQLite lifecycle lease; the  *)
(* process may die between any two writes, which frees the lease and      *)
(* leaves the disk as it is.  A file written with atomicWrite changes in  *)
(* one step, a directory removed with rm -r in two.                       *)
(***************************************************************************)
EXTENDS Naturals, FiniteSetsExt

CONSTANTS Receipts,   \* staging nonces; a receipt also names its candidate bundle
          Baseline,   \* the bundle installed before any of them
          None

ASSUME NonceAssumption == Baseline \notin Receipts /\ None \notin Receipts \cup {Baseline}

Bundles == Receipts \cup {Baseline}

\* The active surfaces, in the order the script switches them: the current
\* symlink, the instance launcher, the lifecycle launcher, the desktop entry.
\* The last three have a staged file.
Surfaces == 0..3
StagedFiles == 1..3
Lifecycle == 2

VARIABLES
  surface,     \* which bundle's version each active surface holds
  bundle,      \* each bundle's directory: "absent", "temp", "present" or "partial"
  staged,      \* the staged files of each receipt that are on disk
  torn,        \* the receipt whose last staged file is not written out yet
  previous,    \* what each receipt recorded of the surfaces when it was staged
  intent,      \* .masthead-install-stage.intent.json
  pending,     \* .masthead-install-stage.pending.json
  receipt,     \* the receipt files
  journal,     \* .masthead-install-activation.journal.json
  marker,      \* the completion markers beside the production root
  schema,      \* the bundle whose schema the database has
  transition,  \* <database>.production-transition.json
  daemon,      \* the bundle whose daemon is up and healthy
  proc,        \* the lifecycle command that holds the lease
  outcome,     \* how the last command ended
  superseded   \* history: an activation was rolled back after its finalization
               \* began, onto a bundle that was whole or that was half removed

disk == <<surface, bundle, staged, torn, previous>>
records == <<intent, pending, receipt, journal, marker>>
database == <<schema, transition>>
vars == <<disk, records, database, daemon, proc, outcome, superseded>>

\* A receipt file: whether the activation is recorded, the schema the database
\* had when it was prepared, and whether a cancellation recorded its outcome.
NewReceipt == [activated |-> FALSE, source |-> None, cancelled |-> FALSE]
Receipt == [activated: BOOLEAN, source: Bundles \cup {None}, cancelled: BOOLEAN]
Phases == {"activating", "committed", "finalizing", "finalize-cleanup",
           "aborting", "abort-cleanup", "cancelling", "cancel-cleanup"}
AbortPhases == {"aborting", "abort-cleanup", "cancelling", "cancel-cleanup"}
Commands == {"stage", "activate", "finalize", "abort", "start", "stop", "failed"}

\* Where a command is: before its body, in it, and undoing an activation.
Pcs == {"sweep", "sweep-intent", "pending", "gate", "body", "restore", "unjournal",
        "claim", "own", "copy", "reserve", "files", "publish", "unintent", "unpend",
        "prepare", "unprepare", "begin", "switch", "commit", "persist",
        "recheck", "clean", "remove", "drop", "end", "database", "surfaces", "undo",
        "cancel", "cancel-database", "cancel-persist", "cancel-record",
        "spawn", "complete", "prune"}

Snapshot == [Surfaces -> Bundles]
Intent == [r: Receipts, owns: BOOLEAN]
Journal == [r: Receipts, phase: Phases, rec: Receipt]
Transition == [r: Receipts, source: Bundles,
               state: {"snapshot_ready", "ready_to_activate", "restoring", "restored"}]
Process == [cmd: Commands, r: Bundles \cup {None}, pc: Pcs, rec: Receipt]

\* A file that is not there is none of those that are.
ASSUME AbsenceAssumption ==
  None \notin Receipt \cup Snapshot \cup Intent \cup Journal \cup Transition \cup Process

TypeOK ==
  /\ surface \in Snapshot
  /\ bundle \in [Bundles -> {"absent", "temp", "present", "partial"}]
  /\ staged \in [Receipts -> SUBSET StagedFiles]
  /\ torn \in Receipts \cup {None}
  /\ previous \in [Receipts -> Snapshot \cup {None}]
  /\ intent \in Intent \cup {None}
  /\ pending \in Receipts \cup {None}
  /\ receipt \in [Receipts -> Receipt \cup {None}]
  /\ journal \in Journal \cup {None}
  /\ marker \in [Receipts -> {"none", "finalized", "aborted"}]
  /\ schema \in Bundles
  /\ transition \in Transition \cup {None}
  /\ daemon \in Bundles \cup {None}
  /\ proc \in Process \cup {None}
  /\ outcome \in {"none", "done", "refused", "died"}
  /\ superseded \in {"no", "whole", "gutted"}

Init ==
  /\ surface = [s \in Surfaces |-> Baseline]
  /\ bundle = [b \in Bundles |-> IF b = Baseline THEN "present" ELSE "absent"]
  /\ staged = [r \in Receipts |-> {}]
  /\ torn = None
  /\ previous = [r \in Receipts |-> None]
  /\ intent = None
  /\ pending = None
  /\ receipt = [r \in Receipts |-> None]
  /\ journal = None
  /\ marker = [r \in Receipts |-> "none"]
  /\ schema = Baseline
  /\ transition = None
  /\ daemon = Baseline
  /\ proc = None
  /\ outcome = "none"
  /\ superseded = "no"

current == surface[0]
Rollback(r) == previous[r][0]
Offline == daemon = None
Whole(b) == bundle[b] = "present"
OnDisk(b) == bundle[b] \in {"present", "partial"}
AllSurfaces(b) == \A s \in Surfaces : surface[s] = b
SurfacesBefore(r) == surface = previous[r]
ReceiptHolds(r) == staged[r] = StagedFiles /\ torn # r

\* No other receipt, staged file or unfinished candidate is in the way of a
\* finalization.
NothingElse(r) == \A q \in Receipts \ {r} :
  receipt[q] = None /\ staged[q] = {} /\ bundle[q] # "temp"

\* ------------------------------------------------------------- processes
At(cmd, pc) == proc # None /\ proc.cmd = cmd /\ proc.pc = pc
Goto(pc) == proc' = [proc EXCEPT !.pc = pc] /\ UNCHANGED <<outcome, superseded>>
End(how) == proc' = None /\ outcome' = how /\ UNCHANGED superseded
Unless(ok, step) == IF ok THEN step ELSE End("refused")

Invoke(cmd, r) ==
  /\ proc = None
  /\ proc' = [cmd |-> cmd, r |-> r, pc |-> "sweep", rec |-> NewReceipt]
  /\ outcome' = "none"
  /\ UNCHANGED <<disk, records, database, daemon, superseded>>

\* The process is killed; the lease dies with it.
Die ==
  /\ proc # None
  /\ End("died")
  /\ UNCHANGED <<disk, records, database, daemon>>

\* -------------------------------------------- sweeping a stage left behind
Sweeping == proc # None /\ proc.pc = "sweep"
Swept == IF proc.cmd = "failed" THEN End("refused")
         ELSE Goto(IF proc.cmd = "activate" THEN "pending" ELSE "gate")

SweepNothing ==
  /\ Sweeping
  /\ intent = None
  /\ Swept
  /\ UNCHANGED <<disk, records, database, daemon>>

\* The receipt was published: the stage stands and only its intent goes.
SweepPublished ==
  /\ Sweeping
  /\ intent # None
  /\ receipt[intent.r] # None
  /\ IF Whole(intent.r) THEN intent' = None /\ Goto("sweep")
     ELSE UNCHANGED intent /\ End("refused")
  /\ UNCHANGED <<disk, pending, receipt, journal, marker, database, daemon>>

Unpublished == Sweeping /\ intent # None /\ receipt[intent.r] = None

\* A staged file is moved to its quarantine name and removed; one whose bytes
\* are not the reserved ones stays there, and the sweep gives up.
SweepStagedFile ==
  /\ Unpublished
  /\ staged[intent.r] # {}
  /\ LET r == intent.r IN
     IF torn = r /\ Cardinality(staged[r]) = 1
     THEN UNCHANGED staged /\ End("refused")
     ELSE staged' = [staged EXCEPT ![r] = @ \ {Min(@)}] /\ Goto("sweep")
  /\ UNCHANGED <<surface, bundle, torn, previous, records, database, daemon>>

\* The candidate must be found where its inode was recorded: one that is gone
\* already stops the sweep as a changed ownership does.
SweepCandidate ==
  /\ Unpublished
  /\ staged[intent.r] = {}
  /\ intent.owns
  /\ IF bundle[intent.r] # "absent" /\ current # intent.r
     THEN bundle' = [bundle EXCEPT ![intent.r] = "absent"] /\ Goto("sweep-intent")
     ELSE UNCHANGED bundle /\ End("refused")
  /\ UNCHANGED <<surface, staged, torn, previous, records, database, daemon>>

SweepIntent ==
  /\ \/ proc # None /\ proc.pc = "sweep-intent"
     \/ Unpublished /\ staged[intent.r] = {} /\ ~intent.owns
  /\ intent' = None
  /\ pending' = IF pending = intent.r THEN None ELSE pending
  /\ previous' = [previous EXCEPT ![intent.r] = None]
  /\ Swept
  /\ UNCHANGED <<surface, bundle, staged, torn, receipt, journal, marker, database, daemon>>

Sweep == SweepNothing \/ SweepPublished \/ SweepStagedFile \/ SweepCandidate \/ SweepIntent

\* ------------------------------------------- settling an activation journal
Gating == proc # None /\ proc.pc = "gate"

\* The receipt file is the one the journal was written with, or differs from it
\* only by an activation that the file does not record yet.
ReceiptMatchesJournal ==
  LET file == receipt[journal.r] IN
  file # None =>
    \/ file = journal.rec
    \/ ~file.activated /\ [file EXCEPT !.activated = TRUE] = journal.rec

JournalAdmits ==
  /\ proc.r = journal.r \/ proc.cmd \in {"stage", "start", "stop"}
  /\ ReceiptMatchesJournal

Resumes ==
  \/ proc.cmd = "finalize" /\ journal.phase = "finalize-cleanup"
  \/ proc.cmd = "abort" /\ journal.phase \in AbortPhases

Settleable ==
  /\ OnDisk(journal.r) /\ OnDisk(Rollback(journal.r))
  /\ current \in {journal.r, Rollback(journal.r)}
  /\ ReceiptHolds(journal.r)

CommittedStands ==
  /\ AllSurfaces(journal.r)
  /\ Whole(journal.r) /\ Whole(Rollback(journal.r))

Undoable == \A s \in StagedFiles : surface[s] \in {journal.r, previous[journal.r][s]}

GateClear ==
  /\ Gating
  /\ journal = None
  /\ Goto("body")
  /\ UNCHANGED <<disk, records, database, daemon>>

GateRefuses ==
  /\ Gating
  /\ journal # None
  /\ \/ ~JournalAdmits
     \/ ~Resumes /\ \/ journal.phase \in AbortPhases
                    \/ ~Settleable
                    \/ journal.phase = "committed" /\ ~CommittedStands
                    \/ journal.phase # "committed" /\ ~Undoable
  /\ End("refused")
  /\ UNCHANGED <<disk, records, database, daemon>>

GateResumes ==
  /\ Gating
  /\ journal # None /\ JournalAdmits /\ Resumes
  /\ proc' = [proc EXCEPT !.pc = "body", !.rec = IF receipt[journal.r] # None THEN receipt[journal.r] ELSE journal.rec]
  /\ UNCHANGED <<disk, records, database, daemon, outcome, superseded>>

\* A committed activation repairs its receipt; only a new stage is refused, and
\* activating again has nothing left to do.
GateCommitted ==
  /\ Gating
  /\ journal # None /\ JournalAdmits /\ Settleable
  /\ journal.phase = "committed" /\ CommittedStands
  /\ receipt' = [receipt EXCEPT ![journal.r] = journal.rec]
  /\ CASE proc.cmd = "stage" -> End("refused")
       [] proc.cmd = "activate" -> End("done")
       [] OTHER -> Goto("body")
  /\ UNCHANGED <<disk, intent, pending, journal, marker, database, daemon>>

\* Any other phase that no command resumes is an interrupted activation, the
\* phases of a finalization among them: both bundles need only be directories,
\* whatever finalize already removed from the one that becomes current again.
GateUndoes ==
  /\ Gating
  /\ journal # None /\ JournalAdmits /\ ~Resumes
  /\ journal.phase \notin AbortPhases \cup {"committed"}
  /\ Settleable /\ Undoable
  /\ proc' = [proc EXCEPT !.pc = "restore", !.r = journal.r,
                          !.rec = IF receipt[journal.r] # None THEN receipt[journal.r] ELSE journal.rec]
  /\ superseded' = IF journal.phase \notin {"finalizing", "finalize-cleanup"} \/ superseded = "gutted"
                   THEN superseded
                   ELSE IF Whole(Rollback(journal.r)) THEN "whole" ELSE "gutted"
  /\ UNCHANGED <<disk, records, database, daemon, outcome>>

Restoring == proc # None /\ proc.pc = "restore"
\* Mutant: the desktop entry is not restored.
ChangedButDesktop(r) == {s \in Surfaces \ {3} : surface[s] # previous[r][s]}
Changed(r) == {s \in Surfaces : surface[s] # previous[r][s]}

RestoreSurface ==
  /\ Restoring
  /\ Changed(proc.r) # {}
  /\ LET s == Min(Changed(proc.r)) IN surface' = [surface EXCEPT ![s] = previous[proc.r][s]]
  /\ UNCHANGED <<bundle, staged, torn, previous, records, database, daemon, proc, outcome, superseded>>

RestoreReceipt ==
  /\ Restoring
  /\ Changed(proc.r) = {}
  /\ receipt' = [receipt EXCEPT ![proc.r] = [proc.rec EXCEPT !.activated = FALSE]]
  /\ Goto("unjournal")
  /\ UNCHANGED <<disk, intent, pending, journal, marker, database, daemon>>

\* Only activate goes on after an undo; every other command asks to be rerun.
RestoreDone ==
  /\ proc # None /\ proc.pc = "unjournal"
  /\ journal' = None
  /\ UNCHANGED superseded
  /\ IF proc.cmd = "activate"
     THEN proc' = [proc EXCEPT !.pc = "body"] /\ UNCHANGED outcome
     ELSE proc' = None /\ outcome' = "refused"
  /\ UNCHANGED <<disk, intent, pending, receipt, marker, database, daemon>>

Gate == \/ GateClear \/ GateRefuses \/ GateResumes \/ GateCommitted \/ GateUndoes
        \/ RestoreSurface \/ RestoreReceipt \/ RestoreDone
=============================================================================
