---------------------- MODULE StagedProduction_proofs ----------------------
(***************************************************************************)
(* Theorems about the staged installation, for any number of stagings:      *)
(* what runs is one version, the bundle an activation can go back to stays  *)
(* whole, and so does the current one but for the rollback of a finalization *)
(* that removed it, and a finalized bundle is left only for another receipt, *)
(* whatever command is killed or fails where.                               *)
(*                                                                          *)
(* A command relies on what an earlier one, dead by now, left on disk.  So  *)
(* the invariant says what each file on disk means for the others           *)
(* (PreviousInv to SchemaInv), and only then what a running command may      *)
(* rely on (ProcInv).                                                       *)
(***************************************************************************)
EXTENDS StagedProduction, TLAPS

CancelPhases == {"cancelling", "cancel-cleanup"}
Forward == {"activating", "committed", "finalizing", "finalize-cleanup"}

\* The surfaces are back at, or never left, the bundle before the receipt.
Back == journal = None \/ journal.phase \in {"abort-cleanup"} \cup CancelPhases

\* A bundle with no lifecycle of its own any more: the baseline, or one whose
\* receipt was finalized.  No step makes it unsettled again.
Settled(b) ==
  /\ b \in Bundles /\ bundle[b] # "temp"
  /\ b \in Receipts =>
       /\ receipt[b] = None /\ previous[b] # None /\ marker[b] # "aborted"
       /\ journal # None => journal.r # b
       /\ intent # None => intent.r # b

\* A receipt names the bundle below it as the source of its database.
SourceOf(r, rec) == superseded # "no" \/ rec.source \in {None, Rollback(r)}

\* What a staging recorded: all surfaces at one settled bundle, not its own.
PreviousInv == \A r \in Receipts : previous[r] # None =>
  /\ Rollback(r) # r /\ Settled(Rollback(r))
  /\ \A s \in Surfaces : previous[r][s] = Rollback(r)

IntentInv == intent # None =>
  /\ marker[intent.r] = "none"
  /\ journal # None => journal.r # intent.r
  /\ transition # None => transition.r # intent.r

\* Only the receipt of the journal is activated, or stands beside a marker.
ReceiptInv == \A r \in Receipts : receipt[r] # None =>
  /\ previous[r] # None
  /\ SourceOf(r, receipt[r])
  /\ receipt[r].activated => journal # None /\ journal.r = r /\ journal.phase \notin CancelPhases
  /\ marker[r] # "none" => journal # None /\ journal.r = r

MarkerInv == \A r \in Receipts :
  /\ marker[r] = "finalized" /\ journal # None /\ journal.r = r =>
       journal.phase = "finalize-cleanup" /\ staged[r] = {}
  /\ marker[r] = "aborted" =>
       /\ journal # None /\ journal.r = r => journal.phase \in {"abort-cleanup", "cancel-cleanup"}
       /\ bundle[r] = "absent"
       /\ transition # None => transition.r # r

\* Outside a journal the surfaces are at one settled bundle; inside, each is at
\* the journal's bundle or the one before, both whole as the phase demands.
SurfaceInv ==
  /\ journal = None => AllSurfaces(current) /\ Settled(current) /\ (superseded = "gutted" \/ Whole(current))
  /\ journal # None =>
       /\ previous[journal.r] # None
       /\ \A s \in Surfaces : surface[s] \in {journal.r, Rollback(journal.r)}
       /\ journal.phase = "committed" => AllSurfaces(journal.r)
       /\ journal.phase \in {"finalizing", "finalize-cleanup"} =>
            superseded # "no" \/ AllSurfaces(journal.r)
       /\ journal.phase = "finalize-cleanup" =>
            \/ superseded = "gutted" \/ AllSurfaces(journal.r)
            \/ Whole(Rollback(journal.r))
       /\ Back => AllSurfaces(Rollback(journal.r))
       /\ journal.phase # "finalize-cleanup" => Whole(Rollback(journal.r))
       /\ ~Back => Whole(journal.r)

\* The receipt that the journal carries.
CarriedInv == journal # None =>
  /\ SourceOf(journal.r, journal.rec)
  /\ journal.phase \in {"committed", "finalizing", "finalize-cleanup", "aborting", "abort-cleanup"} =>
       journal.rec.activated
  /\ journal.phase \in CancelPhases => ~journal.rec.activated
  /\ journal.phase = "aborting" => receipt[journal.r] # None
  /\ journal.phase \in {"aborting", "abort-cleanup"} =>
       receipt[journal.r] = None \/ receipt[journal.r].activated

\* The schema is that of a pending transition's ends, and the transition is that
\* of the journal until the surfaces are back.
TransitionInv == transition # None =>
  /\ previous[transition.r] # None
  /\ superseded # "no" \/ transition.source = Rollback(transition.r)
  /\ schema \in {transition.r, transition.source}
  /\ transition.state = "ready_to_activate" => schema = transition.r
  /\ transition.state = "restored" => schema = transition.source
  /\ ~Back => transition.r = journal.r
  /\ Back => current = Rollback(transition.r) \/ bundle[Rollback(transition.r)] = "absent"

SchemaInv ==
  /\ journal # None /\ journal.phase \in Forward => schema = journal.r
  /\ journal # None /\ journal.phase = "activating" => transition # None
  /\ journal # None /\ journal.phase = "abort-cleanup" => transition = None
  /\ journal # None /\ journal.phase = "cancel-cleanup" /\ transition # None => transition.r # journal.r
  /\ transition = None /\ superseded = "no" /\ Back => schema = current
  /\ transition = None /\ superseded = "no" /\ ~Back => schema \in {journal.r, Rollback(journal.r)}

DiskInv == /\ PreviousInv /\ IntentInv /\ ReceiptInv /\ MarkerInv
           /\ SurfaceInv /\ CarriedInv /\ TransitionInv /\ SchemaInv

-----------------------------------------------------------------------------
StagePcs == {"claim", "own", "copy", "reserve", "files", "publish", "unintent"}
CancelPcs == {"cancel-database", "cancel-persist", "cancel-record"}
CleanPcs == {"clean", "remove", "drop", "end"}

\* An intent is swept before anything else, and held while staging.
IntentProc ==
  /\ proc.pc = "sweep-intent" => intent # None /\ receipt[intent.r] = None
  /\ proc.pc \in StagePcs => intent # None /\ intent.r = proc.r
  /\ proc.pc \notin {"sweep", "sweep-intent"} \cup StagePcs => intent = None

StageProc == proc.pc \in StagePcs =>
  /\ proc.cmd = "stage" /\ journal = None
  /\ proc.pc # "unintent" => receipt[proc.r] = None
  /\ proc.pc \in {"files", "publish", "unintent"} => previous[proc.r] # None

CommandProc ==
  /\ proc.cmd \in {"activate", "finalize", "abort"} => proc.r \in Receipts
  /\ proc.cmd = "abort" =>
       receipt[proc.r] # None \/ (journal # None /\ journal.r = proc.r) \/ proc.pc = "end"

\* What the gate lets through: no journal, a committed one whose receipt is
\* repaired, or the one the command resumes.
BodyProc == proc.pc = "body" =>
  /\ proc.cmd \in {"stage", "activate"} => journal = None
  /\ journal # None =>
       /\ \/ journal.phase = "committed"
          \/ proc.cmd = "finalize" /\ journal.phase = "finalize-cleanup"
          \/ proc.cmd = "abort" /\ journal.phase \in AbortPhases
       /\ proc.cmd \in {"finalize", "abort"} => journal.r = proc.r
       /\ journal.phase = "committed" => receipt[journal.r] # None /\ receipt[journal.r].activated

PrepareProc == proc.pc \in {"prepare", "unprepare", "begin"} =>
  /\ proc.cmd = "activate" /\ journal = None /\ receipt[proc.r] # None /\ SurfacesBefore(proc.r)
  /\ Whole(proc.r) /\ Whole(Rollback(proc.r))
  /\ transition # None => transition.r = proc.r
  /\ proc.pc # "prepare" => transition # None
  /\ proc.pc = "begin" => transition.state = "ready_to_activate"
  /\ proc.pc = "prepare" /\ transition # None => transition.state \in {"snapshot_ready", "ready_to_activate"}

ActivateProc == proc.pc \in {"switch", "commit", "persist"} =>
  /\ proc.cmd = "activate" /\ journal # None /\ journal.r = proc.r
  /\ journal.phase = IF proc.pc = "persist" THEN "committed" ELSE "activating"
  /\ proc.pc # "switch" => AllSurfaces(proc.r) /\ journal.rec.activated
  /\ SourceOf(proc.r, proc.rec)

\* Behind a finalization that began an undo sets superseded.
UndoProc == proc.pc \in {"restore", "unjournal"} =>
  /\ journal # None /\ journal.r = proc.r /\ journal.phase \in Forward \ {"committed"}
  /\ journal.phase # "activating" => superseded # "no"
  /\ journal.phase = "finalize-cleanup" => superseded = "gutted" \/ Whole(Rollback(proc.r))
  /\ marker[proc.r] # "finalized"
  /\ SourceOf(proc.r, proc.rec)
  /\ proc.pc = "unjournal" => SurfacesBefore(proc.r) /\ receipt[proc.r] # None /\ ~receipt[proc.r].activated

FinalizeProc == proc.cmd = "finalize" /\ proc.pc \in {"recheck"} \cup CleanPcs =>
  /\ journal # None /\ journal.r = proc.r
  /\ journal.phase = IF proc.pc = "recheck" THEN "finalizing" ELSE "finalize-cleanup"
  /\ proc.pc # "recheck" => AllSurfaces(proc.r)
  /\ proc.pc \in {"drop", "end"} => bundle[Rollback(proc.r)] = "absent"
  /\ proc.pc = "end" => receipt[proc.r] = None

\* An abort on its way back, database first.
AbortProc == proc.cmd = "abort" /\ proc.pc \in {"database", "surfaces", "undo"} =>
  /\ SourceOf(proc.r, proc.rec) /\ proc.rec.activated
  /\ journal # None /\ journal.r = proc.r /\ journal.phase \in {"committed", "aborting"}
  /\ receipt[proc.r] # None /\ receipt[proc.r].activated
  /\ proc.pc \in {"database", "undo"} => journal.phase = "aborting"
  /\ proc.pc = "database" => transition # None

CancelProc == proc.cmd = "abort" /\ proc.pc \in {"cancel"} \cup CancelPcs =>
  /\ SourceOf(proc.r, proc.rec) /\ ~proc.rec.activated
  /\ receipt[proc.r] # None /\ ~receipt[proc.r].activated
  /\ journal # None => journal.r = proc.r
  /\ proc.pc = "cancel" =>
       /\ journal = None \/ journal.phase \in CancelPhases
       /\ SurfacesBefore(proc.r) /\ Whole(Rollback(proc.r))
  /\ proc.pc \in {"cancel", "cancel-database"} => transition # None /\ transition.r = proc.r
  /\ proc.pc \in CancelPcs => journal # None /\ journal.phase = "cancelling"
  /\ proc.pc \in {"cancel-persist", "cancel-record"} => transition = None

CleanProc == proc.cmd = "abort" /\ proc.pc \in CleanPcs =>
  /\ previous[proc.r] # None /\ SourceOf(proc.r, proc.rec)
  /\ journal # None => journal.r = proc.r
  /\ SurfacesBefore(proc.r) /\ Whole(Rollback(proc.r))
  /\ transition # None => transition.r # proc.r /\ ~proc.rec.activated
  /\ superseded = "no" /\ transition = None => schema = Rollback(proc.r)
  /\ proc.pc = "clean" =>
       IF proc.rec.activated THEN journal # None /\ journal.phase \in {"aborting", "abort-cleanup"}
       ELSE /\ journal = None \/ journal.phase \in CancelPhases
            /\ receipt[proc.r] # None => ~receipt[proc.r].activated
  /\ proc.pc # "clean" => journal # None /\ journal.phase \in {"abort-cleanup", "cancel-cleanup"}
  /\ proc.pc \in {"drop", "end"} => bundle[proc.r] = "absent" /\ marker[proc.r] = "aborted"
  /\ proc.pc = "end" => receipt[proc.r] = None

StartProc == proc.cmd = "start" /\ proc.pc \in {"database", "spawn", "complete", "prune"} =>
  /\ journal # None => journal.phase = "committed" /\ proc.pc \in {"spawn", "complete"}
  /\ proc.pc = "database" => transition # None /\ current = Rollback(transition.r) /\ Whole(current)
  /\ proc.pc \in {"spawn", "complete"} /\ journal = None /\ transition # None =>
       /\ transition.state = "restored" /\ proc.r = Rollback(transition.r)
       /\ current = proc.r /\ Whole(proc.r)
  /\ proc.pc = "prune" => current = proc.r /\ transition = None

ProcInv == proc # None =>
  /\ IntentProc /\ StageProc /\ CommandProc /\ BodyProc /\ PrepareProc /\ ActivateProc
  /\ UndoProc /\ FinalizeProc /\ AbortProc /\ CancelProc /\ CleanProc /\ StartProc

IInv == TypeOK /\ DiskInv /\ ProcInv

-----------------------------------------------------------------------------
\* The least of a set of surfaces is one of them.
LEMMA MinElement ==
  ASSUME NEW S \in SUBSET (0 .. 3), S # {}
  PROVE  Min(S) \in S
<1>0. \A y \in S : y \in {0, 1, 2, 3}
  OBVIOUS
<1>1. \E x \in S : \A y \in S : x <= y
  <2>1. CASE 0 \in S
    BY <2>1
  <2>2. CASE 0 \notin S /\ 1 \in S
    BY <2>2
  <2>3. CASE 0 \notin S /\ 1 \notin S /\ 2 \in S
    <3>1. \A y \in S : y \in {2, 3}
      BY <2>3
    <3> QED
      BY <2>3, <3>1
  <2>4. CASE 0 \notin S /\ 1 \notin S /\ 2 \notin S
    <3>1. \A y \in S : y = 3
      BY <1>0, <2>4
    <3>2. PICK y \in S : TRUE
      OBVIOUS
    <3>3. y = 3 /\ 3 <= 3
      BY <3>1, <3>2
    <3> QED
      BY <3>1, <3>3
  <2> QED
    BY <2>1, <2>2, <2>3, <2>4
<1> QED
  BY <1>1 DEF Min

\* What is absent is none of the records.
LEMMA Absence ==
  /\ None \notin Receipt /\ None \notin Snapshot /\ None \notin Intent /\ None \notin Journal
  /\ None \notin Transition /\ None \notin Process
  BY AbsenceAssumption

ProcType == proc \in Process \cup {None}

\* How a step moves the command on.
LEMMA Goes ==
  ASSUME proc \in Process, NEW pc \in Pcs, Goto(pc)
  PROVE  /\ proc' \in Process /\ proc' # None
         /\ proc'.cmd = proc.cmd /\ proc'.r = proc.r /\ proc'.pc = pc /\ proc'.rec = proc.rec
         /\ outcome' = outcome /\ superseded' = superseded
<1>1. proc' \in Process
  BY DEF Goto, Process
<1> QED
  BY <1>1, Absence DEF Goto, Process

LEMMA Ends ==
  ASSUME NEW how, End(how)
  PROVE  proc' = None /\ outcome' = how /\ superseded' = superseded
  BY DEF End

\* The records by their fields, so that no later step has to look inside.
LEMMA ReceiptFields ==
  /\ NewReceipt \in Receipt /\ ~NewReceipt.activated /\ NewReceipt.source = None
  /\ \A f \in Receipt : f # None /\ f.activated \in BOOLEAN /\ f.source \in Bundles \cup {None}
  /\ \A f \in Receipt, b \in BOOLEAN :
       LET g == [f EXCEPT !.activated = b] IN
       g \in Receipt /\ g.activated = b /\ g.source = f.source
  /\ \A f \in Receipt, b \in Bundles \cup {None} :
       LET g == [f EXCEPT !.source = b] IN
       g \in Receipt /\ g.activated = f.activated /\ g.source = b
  /\ \A f \in Receipt :
       LET g == [f EXCEPT !.cancelled = TRUE] IN
       g \in Receipt /\ g.activated = f.activated /\ g.source = f.source
  BY Absence DEF Receipt, NewReceipt

LEMMA IntentFields == \A i \in Intent : i # None /\ i.r \in Receipts /\ i.owns \in BOOLEAN
  BY Absence DEF Intent

LEMMA JournalFields ==
  /\ \A j \in Journal : j # None /\ j.r \in Receipts /\ j.phase \in Phases /\ j.rec \in Receipt
  /\ \A j \in Journal, rec \in Receipt :
       LET k == [j EXCEPT !.rec = rec] IN
       k \in Journal /\ k.r = j.r /\ k.phase = j.phase /\ k.rec = rec
  BY Absence DEF Journal

LEMMA JournalActivated ==
  ASSUME NEW j \in Journal
  PROVE  LET k == [j EXCEPT !.rec.activated = TRUE] IN
         /\ k \in Journal /\ k.r = j.r /\ k.phase = j.phase
         /\ k.rec.activated /\ k.rec.source = j.rec.source
<1> DEFINE k == [j EXCEPT !.rec.activated = TRUE]
           rec == [j.rec EXCEPT !.activated = TRUE]
<1>1. j.rec \in Receipt
  BY JournalFields
<1>2. rec \in Receipt /\ rec.activated /\ rec.source = j.rec.source
  BY <1>1, ReceiptFields
<1>3. k = [j EXCEPT !.rec = rec]
  BY DEF Journal
<1> HIDE DEF rec, k
<1>4. k \in Journal /\ k.r = j.r /\ k.phase = j.phase /\ k.rec = rec
  BY <1>2, <1>3, JournalFields
<1> QED
  BY <1>2, <1>4 DEF k

States == {"snapshot_ready", "ready_to_activate", "restoring", "restored"}

LEMMA TransitionFields ==
  \A t \in Transition : t # None /\ t.r \in Receipts /\ t.source \in Bundles /\ t.state \in States
  BY Absence DEF Transition, States

LEMMA ProcFields ==
  \A p \in Process : /\ p # None /\ p.cmd \in Commands /\ p.r \in Bundles \cup {None}
                     /\ p.pc \in Pcs /\ p.rec \in Receipt
  BY Absence DEF Process


LEMMA SurfaceSet ==
  ASSUME TypeOK, NEW r \in Receipts, NEW b \in Bundles
  PROVE  /\ Changed(r) # {} => Min(Changed(r)) \in Changed(r)
         /\ ~AllSurfaces(r) => Min({s \in Surfaces : surface[s] # r}) \in {s \in Surfaces : surface[s] # r}
         /\ \A s \in Surfaces : /\ [surface EXCEPT ![s] = b] \in Snapshot
                                /\ previous[r] # None => [surface EXCEPT ![s] = previous[r][s]] \in Snapshot
<1>1. Changed(r) # {} => Min(Changed(r)) \in Changed(r)
  BY MinElement DEF Changed, Surfaces
<1>2. ~AllSurfaces(r) => Min({s \in Surfaces : surface[s] # r}) \in {s \in Surfaces : surface[s] # r}
  BY MinElement DEF AllSurfaces, Surfaces
<1> QED
  BY <1>1, <1>2 DEF TypeOK, Snapshot

-----------------------------------------------------------------------------
\* The fields of what is on disk, typed.
LEMMA Typed ==
  ASSUME TypeOK
  PROVE  /\ journal # None => /\ journal \in Journal /\ journal.r \in Receipts
                              /\ journal.phase \in Phases /\ journal.rec \in Receipt
         /\ intent # None => intent \in Intent /\ intent.r \in Receipts
         /\ transition # None => /\ transition \in Transition /\ transition.r \in Receipts
                                 /\ transition.source \in Bundles /\ transition.state \in States
         /\ proc # None => /\ proc \in Process /\ proc.cmd \in Commands /\ proc.r \in Bundles \cup {None}
                           /\ proc.pc \in Pcs /\ proc.rec \in Receipt
         /\ \A r \in Receipts : /\ r \in Bundles
                                /\ receipt[r] # None => receipt[r] \in Receipt
                                /\ previous[r] # None => previous[r] \in Snapshot /\ Rollback(r) \in Bundles
         /\ \A s \in Surfaces : surface[s] \in Bundles
         /\ current \in Bundles
         /\ surface \in Snapshot /\ bundle \in [Bundles -> {"absent", "temp", "present", "partial"}]
         /\ staged \in [Receipts -> SUBSET StagedFiles] /\ previous \in [Receipts -> Snapshot \cup {None}]
         /\ receipt \in [Receipts -> Receipt \cup {None}]
         /\ marker \in [Receipts -> {"none", "finalized", "aborted"}]
         /\ outcome \in {"none", "done", "refused", "died"}
<1>1. 0 \in Surfaces
  BY DEF Surfaces
<1>2. /\ journal # None => journal \in Journal
      /\ intent # None => intent \in Intent
      /\ transition # None => transition \in Transition
      /\ proc # None => proc \in Process
  BY DEF TypeOK
<1>3. /\ \A r \in Receipts : /\ r \in Bundles
                             /\ receipt[r] # None => receipt[r] \in Receipt
                             /\ previous[r] # None => previous[r] \in Snapshot /\ Rollback(r) \in Bundles
      /\ \A s \in Surfaces : surface[s] \in Bundles
      /\ current \in Bundles
  BY <1>1 DEF TypeOK, Snapshot, Rollback, current, Bundles
<1>4. /\ surface \in Snapshot /\ bundle \in [Bundles -> {"absent", "temp", "present", "partial"}]
      /\ staged \in [Receipts -> SUBSET StagedFiles] /\ previous \in [Receipts -> Snapshot \cup {None}]
      /\ receipt \in [Receipts -> Receipt \cup {None}]
      /\ marker \in [Receipts -> {"none", "finalized", "aborted"}]
      /\ outcome \in {"none", "done", "refused", "died"}
  BY DEF TypeOK
<1> QED
  BY <1>2, <1>3, <1>4, JournalFields, IntentFields, TransitionFields, ProcFields

\* What each part of the invariant reads.
LEMMA Frame ==
  ASSUME DiskInv
  PROVE  /\ UNCHANGED <<previous, receipt, marker, journal, intent, bundle>> => PreviousInv'
         /\ UNCHANGED <<intent, marker, journal, transition>> => IntentInv'
         /\ UNCHANGED <<receipt, previous, superseded, journal, marker>> => ReceiptInv'
         /\ UNCHANGED <<marker, journal, staged, bundle, transition>> => MarkerInv'
         /\ UNCHANGED <<journal, surface, previous, bundle, superseded, receipt, marker, intent>> => SurfaceInv'
         /\ UNCHANGED <<journal, superseded, previous, receipt>> => CarriedInv'
         /\ UNCHANGED <<transition, previous, superseded, schema, journal, surface, bundle>> => TransitionInv'
         /\ UNCHANGED <<journal, schema, transition, superseded, surface, previous>> => SchemaInv'
<1>1. UNCHANGED <<previous, receipt, marker, journal, intent, bundle>> => PreviousInv'
  BY DEF DiskInv, PreviousInv, Settled, Rollback
<1>2. UNCHANGED <<intent, marker, journal, transition>> => IntentInv'
  BY DEF DiskInv, IntentInv
<1>3. UNCHANGED <<receipt, previous, superseded, journal, marker>> => ReceiptInv'
  BY DEF DiskInv, ReceiptInv, SourceOf, Rollback
<1>4. UNCHANGED <<marker, journal, staged, bundle, transition>> => MarkerInv'
  BY DEF DiskInv, MarkerInv
<1>5. UNCHANGED <<journal, surface, previous, bundle, superseded, receipt, marker, intent>> => SurfaceInv'
  BY DEF DiskInv, SurfaceInv, Settled, Rollback, Back, AllSurfaces, current, Whole
<1>6. UNCHANGED <<journal, superseded, previous, receipt>> => CarriedInv'
  BY DEF DiskInv, CarriedInv, SourceOf, Rollback
<1>7. UNCHANGED <<transition, previous, superseded, schema, journal, surface, bundle>> => TransitionInv'
  BY DEF DiskInv, TransitionInv, Rollback, Back, current
<1>8. UNCHANGED <<journal, schema, transition, superseded, surface, previous>> => SchemaInv'
  BY DEF DiskInv, SchemaInv, Rollback, Back, current
<1> QED
  BY <1>1, <1>2, <1>3, <1>4, <1>5, <1>6, <1>7, <1>8

\* A command that ends leaves a good disk behind; the next one starts on it.
LEMMA Ended ==
  ASSUME IInv, NEW how \in {"none", "done", "refused", "died"}, End(how),
         UNCHANGED <<disk, records, database, daemon>>
  PROVE  IInv'
<1>1. TypeOK /\ DiskInv
  BY DEF IInv
<1>2. proc' = None /\ outcome' \in {"none", "done", "refused", "died"} /\ superseded' = superseded
  BY Ends
<1>3. TypeOK'
  BY <1>1, <1>2 DEF TypeOK, disk, records, database
<1>4. DiskInv'
  BY <1>1, <1>2, Frame DEF DiskInv, disk, records, database
<1> QED
  BY <1>2, <1>3, <1>4 DEF IInv, ProcInv

LEMMA Refused ==
  ASSUME IInv, End("refused"), UNCHANGED <<disk, records, database, daemon>>
  PROVE  IInv'
  BY Ended

-----------------------------------------------------------------------------
\* The sweep of a stage that was left behind.
LEMMA SweepNothingKeeps == IInv /\ SweepNothing => IInv'
<1> SUFFICES ASSUME IInv, SweepNothing PROVE IInv'
  OBVIOUS
<1>1. TypeOK /\ DiskInv /\ ProcInv
  BY DEF IInv
<1>2. proc # None /\ proc.pc = "sweep" /\ intent = None
  BY <1>1, Typed DEF SweepNothing, ProcInv, Sweeping
<1>0. CASE ~(proc.cmd # "failed")
  BY <1>0, <1>2, Refused DEF SweepNothing, Unless, Swept
<1>c. CASE proc.cmd # "failed"
  <2>1. /\ outcome' = outcome
        /\ proc' \in Process /\ proc' # None /\ proc'.cmd = proc.cmd /\ proc'.r = proc.r /\ proc'.rec = proc.rec
        /\ proc'.pc \in {"pending", "gate"}
        /\ UNCHANGED <<surface, bundle, staged, torn, previous, intent, pending, receipt, journal, marker,
                      schema, transition, daemon, outcome, superseded>>
    BY <1>1, <1>2, <1>c, Typed, Goes DEF SweepNothing, Unless, disk, records, database, Swept, Pcs
  <2>2. TypeOK'
    BY <1>1, <1>2, <1>c, <2>1, Typed DEF TypeOK
  <2>3. PreviousInv' /\ IntentInv' /\ ReceiptInv' /\ MarkerInv' /\ SurfaceInv' /\ CarriedInv'
          /\ TransitionInv' /\ SchemaInv'
    BY <1>1, <2>1, Frame DEF DiskInv
  <2>4. ProcInv'
    BY <1>1, <1>2, <1>c, <2>1, Typed
      DEF ProcInv, IntentProc, StageProc, CommandProc, BodyProc, PrepareProc, ActivateProc, UndoProc,
         FinalizeProc, AbortProc, CancelProc, CleanProc, StartProc, StagePcs, CancelPcs, CleanPcs,
         SourceOf, Rollback, CancelPhases, Forward, Back, Whole, SurfacesBefore, AllSurfaces, current
  <2> QED
    BY <2>2, <2>3, <2>4 DEF IInv, DiskInv
<1> QED
  BY <1>0, <1>c

LEMMA SweepPublishedKeeps == IInv /\ SweepPublished => IInv'
<1> SUFFICES ASSUME IInv, SweepPublished PROVE IInv'
  OBVIOUS
<1>1. TypeOK /\ DiskInv /\ ProcInv
  BY DEF IInv
<1>2. proc # None /\ proc.pc = "sweep" /\ intent # None
  BY <1>1, Typed DEF SweepPublished, ProcInv, Sweeping
<1>0. CASE ~(Whole(intent.r))
  BY <1>0, <1>2, Refused DEF SweepPublished, Unless, records, disk
<1>c. CASE Whole(intent.r)
  <2>1. /\ intent' = None
        /\ proc' \in Process /\ proc' # None /\ proc'.cmd = proc.cmd /\ proc'.r = proc.r /\ proc'.rec =
              proc.rec /\ proc'.pc = "sweep" /\ outcome' = outcome
        /\ UNCHANGED <<surface, bundle, staged, torn, previous, pending, receipt, journal, marker, schema,
                      transition, daemon, outcome, superseded>>
    BY <1>1, <1>2, <1>c, Typed, Goes DEF SweepPublished, Unless, disk, records, database, Pcs
  <2>2. TypeOK'
    BY <1>1, <1>2, <1>c, <2>1, Typed DEF TypeOK
  <2>3. PreviousInv'
    BY <1>1, <1>2, <1>c, <2>1, Typed DEF DiskInv, PreviousInv, Settled, Rollback
  <2>4. IntentInv'
    BY <1>1, <1>2, <1>c, <2>1, Typed DEF DiskInv, IntentInv
  <2>5. SurfaceInv'
    BY <1>1, <1>2, <1>c, <2>1, Typed
      DEF DiskInv, SurfaceInv, Settled, Rollback, Back, CancelPhases, AllSurfaces, current, Whole
  <2>6. ReceiptInv' /\ MarkerInv' /\ CarriedInv' /\ TransitionInv' /\ SchemaInv'
    BY <1>1, <2>1, Frame DEF DiskInv
  <2>7. ProcInv'
    BY <1>1, <1>2, <1>c, <2>1, Typed
      DEF ProcInv, IntentProc, StageProc, CommandProc, BodyProc, PrepareProc, ActivateProc, UndoProc,
         FinalizeProc, AbortProc, CancelProc, CleanProc, StartProc, StagePcs, CancelPcs, CleanPcs,
         SourceOf, Rollback, CancelPhases, Forward, Back, Whole, SurfacesBefore, AllSurfaces, current
  <2> QED
    BY <2>2, <2>3, <2>4, <2>5, <2>6, <2>7 DEF IInv, DiskInv
<1> QED
  BY <1>0, <1>c

LEMMA SweepStagedFileKeeps == IInv /\ SweepStagedFile => IInv'
<1> SUFFICES ASSUME IInv, SweepStagedFile PROVE IInv'
  OBVIOUS
<1> DEFINE i == intent.r
<1>1. TypeOK /\ DiskInv /\ ProcInv
  BY DEF IInv
<1>2. proc # None /\ proc.pc = "sweep" /\ i \in Receipts
  BY <1>1, Typed DEF SweepStagedFile, ProcInv, Sweeping, Unpublished
<1>0. CASE ~(~(torn = i /\ Cardinality(staged[i]) = 1))
  BY <1>0, <1>2, Refused DEF SweepStagedFile, Unless, disk
<1>c. CASE ~(torn = i /\ Cardinality(staged[i]) = 1)
  <2>1. /\ staged' \in [Receipts -> SUBSET StagedFiles] /\ \A q \in Receipts : staged'[q] \subseteq staged[q]
        /\ proc' \in Process /\ proc' # None /\ proc'.cmd = proc.cmd /\ proc'.r = proc.r /\ proc'.rec =
              proc.rec /\ proc'.pc = "sweep" /\ outcome' = outcome
        /\ UNCHANGED <<surface, bundle, torn, previous, intent, pending, receipt, journal, marker, schema,
                      transition, daemon, outcome, superseded>>
    BY <1>1, <1>2, <1>c, Typed, Goes DEF SweepStagedFile, Unless, disk, records, database, Pcs, TypeOK
  <2> HIDE DEF i
  <2>2. TypeOK'
    BY <1>1, <1>2, <1>c, <2>1, Typed DEF TypeOK
  <2>3. MarkerInv'
    BY <1>1, <1>2, <1>c, <2>1, Typed DEF DiskInv, MarkerInv
  <2>4. PreviousInv' /\ IntentInv' /\ ReceiptInv' /\ SurfaceInv' /\ CarriedInv' /\ TransitionInv' /\ SchemaInv'
    BY <1>1, <2>1, Frame DEF DiskInv
  <2>5. ProcInv'
    BY <1>1, <1>2, <1>c, <2>1, Typed
      DEF ProcInv, IntentProc, StageProc, CommandProc, BodyProc, PrepareProc, ActivateProc, UndoProc,
         FinalizeProc, AbortProc, CancelProc, CleanProc, StartProc, StagePcs, CancelPcs, CleanPcs,
         SourceOf, Rollback, CancelPhases, Forward, Back, Whole, SurfacesBefore, AllSurfaces, current
  <2> QED
    BY <2>2, <2>3, <2>4, <2>5 DEF IInv, DiskInv
<1> QED
  BY <1>0, <1>c

LEMMA SweepCandidateKeeps == IInv /\ SweepCandidate => IInv'
<1> SUFFICES ASSUME IInv, SweepCandidate PROVE IInv'
  OBVIOUS
<1> DEFINE i == intent.r
<1>1. TypeOK /\ DiskInv /\ ProcInv
  BY DEF IInv
<1>2. proc # None /\ proc.pc = "sweep" /\ intent # None /\ i = intent.r /\ i \in Receipts /\ receipt[i] = None
  BY <1>1, Typed DEF SweepCandidate, ProcInv, Sweeping, Unpublished
<1>0. CASE ~(bundle[i] # "absent" /\ current # i)
  BY <1>0, <1>2, Refused DEF SweepCandidate, Unless, disk
<1>c. CASE bundle[i] # "absent" /\ current # i
  <2>1. /\ bundle' = [bundle EXCEPT ![i] = "absent"]
        /\ proc' \in Process /\ proc' # None /\ proc'.cmd = proc.cmd /\ proc'.r = proc.r /\ proc'.rec =
              proc.rec /\ proc'.pc = "sweep-intent" /\ outcome' = outcome
        /\ UNCHANGED <<surface, staged, torn, previous, intent, pending, receipt, journal, marker, schema,
                      transition, daemon, outcome, superseded>>
    BY <1>1, <1>2, <1>c, Typed, Goes DEF SweepCandidate, Unless, disk, records, database, Pcs
  <2> HIDE DEF i
  <2>2. TypeOK'
    BY <1>1, <1>2, <1>c, <2>1, Typed DEF TypeOK
  <2>3. PreviousInv'
    BY <1>1, <1>2, <1>c, <2>1, Typed DEF DiskInv, PreviousInv, Settled, Rollback
  <2>4. MarkerInv'
    BY <1>1, <1>2, <1>c, <2>1, Typed DEF DiskInv, MarkerInv
  <2>5. SurfaceInv'
    BY <1>1, <1>2, <1>c, <2>1, Typed
      DEF DiskInv, SurfaceInv, Settled, Rollback, Back, CancelPhases, AllSurfaces, current, Whole,
         PreviousInv, IntentInv
  <2>6. TransitionInv'
    BY <1>1, <1>2, <1>c, <2>1, Typed DEF DiskInv, TransitionInv, Rollback, Back, CancelPhases, current
  <2>7. IntentInv' /\ ReceiptInv' /\ CarriedInv' /\ SchemaInv'
    BY <1>1, <2>1, Frame DEF DiskInv
  <2>8. ProcInv'
    BY <1>1, <1>2, <1>c, <2>1, Typed
      DEF ProcInv, IntentProc, StageProc, CommandProc, BodyProc, PrepareProc, ActivateProc, UndoProc,
         FinalizeProc, AbortProc, CancelProc, CleanProc, StartProc, StagePcs, CancelPcs, CleanPcs,
         SourceOf, Rollback, CancelPhases, Forward, Back, Whole, SurfacesBefore, AllSurfaces, current
  <2> QED
    BY <2>2, <2>3, <2>4, <2>5, <2>6, <2>7, <2>8 DEF IInv, DiskInv
<1> QED
  BY <1>0, <1>c

LEMMA SweepIntentKeeps == IInv /\ SweepIntent => IInv'
<1> SUFFICES ASSUME IInv, SweepIntent PROVE IInv'
  OBVIOUS
<1> DEFINE i == intent.r
<1>1. TypeOK /\ DiskInv /\ ProcInv
  BY DEF IInv
<1>2. proc # None /\ intent # None /\ i = intent.r /\ i \in Receipts /\ receipt[i] = None
  BY <1>1, Typed DEF SweepIntent, ProcInv, Sweeping, Unpublished, IntentProc
<1>3. /\ intent' = None /\ pending' \in Receipts \cup {None} /\ previous' = [previous EXCEPT ![i] = None]
      /\ outcome' \in {"none", "done", "refused", "died"}
      /\ proc' = None \/ (/\ proc' \in Process /\ proc' # None /\ proc'.cmd = proc.cmd /\ proc'.r = proc.r
                     /\ proc'.pc \in {"pending", "gate"})
      /\ UNCHANGED <<surface, bundle, staged, torn, receipt, journal, marker, schema, transition, daemon,
                    superseded>>
  BY <1>1, <1>2, Typed, Goes, Ends DEF SweepIntent, Unless, disk, records, database, Swept, Pcs, TypeOK
<1> HIDE DEF i
<1>4. TypeOK'
  BY <1>1, <1>2, <1>3, Typed DEF TypeOK
<1>5. PreviousInv'
  BY <1>1, <1>2, <1>3, Typed DEF DiskInv, PreviousInv, Settled, Rollback
<1>6. IntentInv'
  BY <1>1, <1>2, <1>3, Typed DEF DiskInv, IntentInv
<1>7. ReceiptInv'
  BY <1>1, <1>2, <1>3, Typed DEF DiskInv, ReceiptInv, SourceOf, Rollback, CancelPhases
<1>8. SurfaceInv'
  BY <1>1, <1>2, <1>3, Typed
    DEF DiskInv, SurfaceInv, Settled, Rollback, Back, CancelPhases, AllSurfaces, current, Whole, IntentInv
<1>9. CarriedInv'
  BY <1>1, <1>2, <1>3, Typed DEF DiskInv, CarriedInv, SourceOf, Rollback, CancelPhases, IntentInv
<1>10. TransitionInv'
  BY <1>1, <1>2, <1>3, Typed DEF DiskInv, TransitionInv, Rollback, Back, CancelPhases, current, IntentInv
<1>11. SchemaInv'
  BY <1>1, <1>2, <1>3, Typed DEF DiskInv, SchemaInv, Rollback, Back, CancelPhases, Forward, current, IntentInv
<1>12. MarkerInv'
  BY <1>1, <1>3, Frame DEF DiskInv
<1>13. ProcInv'
  BY <1>1, <1>2, <1>3, Typed
    DEF ProcInv, IntentProc, StageProc, CommandProc, BodyProc, PrepareProc, ActivateProc, UndoProc,
       FinalizeProc, AbortProc, CancelProc, CleanProc, StartProc, StagePcs, CancelPcs, CleanPcs, SourceOf,
       Rollback, CancelPhases, Forward, Back, Whole, SurfacesBefore, AllSurfaces, current
<1> QED
  BY <1>4, <1>5, <1>6, <1>7, <1>8, <1>9, <1>10, <1>11, <1>12, <1>13 DEF IInv, DiskInv

-----------------------------------------------------------------------------
\* The gate: a journal is settled before the command's body runs.
LEMMA GateClearKeeps == IInv /\ GateClear => IInv'
<1> SUFFICES ASSUME IInv, GateClear PROVE IInv'
  OBVIOUS
<1>1. TypeOK /\ DiskInv /\ ProcInv
  BY DEF IInv
<1>2. proc # None /\ proc.pc = "gate" /\ intent = None /\ journal = None
  BY <1>1, Typed DEF GateClear, ProcInv, Gating, IntentProc, StagePcs
<1>3. /\ proc' \in Process /\ proc' # None /\ proc'.cmd = proc.cmd /\ proc'.r = proc.r /\ proc'.rec = proc.rec
            /\ proc'.pc = "body" /\ outcome' = outcome
      /\ UNCHANGED <<surface, bundle, staged, torn, previous, intent, pending, receipt, journal, marker,
                    schema, transition, daemon, outcome, superseded>>
  BY <1>1, <1>2, Typed, Goes DEF GateClear, Unless, disk, records, database, Pcs
<1>4. TypeOK'
  BY <1>1, <1>2, <1>3, Typed DEF TypeOK
<1>5. PreviousInv' /\ IntentInv' /\ ReceiptInv' /\ MarkerInv' /\ SurfaceInv' /\ CarriedInv' /\ TransitionInv'
        /\ SchemaInv'
  BY <1>1, <1>3, Frame DEF DiskInv
<1>6. ProcInv'
  BY <1>1, <1>2, <1>3, Typed
    DEF ProcInv, IntentProc, StageProc, CommandProc, BodyProc, PrepareProc, ActivateProc, UndoProc,
       FinalizeProc, AbortProc, CancelProc, CleanProc, StartProc, StagePcs, CancelPcs, CleanPcs, SourceOf,
       Rollback, CancelPhases, Forward, Back, Whole, SurfacesBefore, AllSurfaces, current
<1> QED
  BY <1>4, <1>5, <1>6 DEF IInv, DiskInv

LEMMA GateRefusesKeeps == IInv /\ GateRefuses => IInv'
  BY Refused DEF GateRefuses

LEMMA GateResumesKeeps == IInv /\ GateResumes => IInv'
<1> SUFFICES ASSUME IInv, GateResumes PROVE IInv'
  OBVIOUS
<1> DEFINE file == IF receipt[journal.r] # None THEN receipt[journal.r] ELSE journal.rec
<1>1. TypeOK /\ DiskInv /\ ProcInv
  BY DEF IInv
<1>2. /\ proc # None /\ proc.pc = "gate" /\ intent = None /\ journal # None /\ journal.r = proc.r
      /\ \/ proc.cmd = "finalize" /\ journal.phase = "finalize-cleanup"
         \/ proc.cmd = "abort" /\ journal.phase \in AbortPhases
      /\ file \in Receipt
  BY <1>1, Typed DEF GateResumes, ProcInv, Gating, IntentProc, StagePcs, Resumes, JournalAdmits
<1>3. proc' = [proc EXCEPT !.pc = "body", !.rec = file]
  BY <1>1, <1>2, Typed DEF GateResumes
<1>4. proc' \in Process /\ proc' # None /\ proc'.cmd = proc.cmd /\ proc'.r = proc.r /\ proc'.pc = "body"
         /\ proc'.rec = file
  <2>1. proc \in Process /\ "body" \in Pcs /\ file \in Receipt
    BY <1>1, <1>2, Typed DEF Pcs
  <2> HIDE DEF file
  <2> QED
    BY <1>3, <2>1, Absence DEF Process
<1>5. UNCHANGED <<surface, bundle, staged, torn, previous, intent, pending, receipt, journal, marker, schema,
                 transition, daemon, outcome, superseded>>
  BY <1>1, <1>2, <1>3, <1>4, Typed DEF GateResumes, Unless, disk, records, database
<1> HIDE DEF file
<1>6. TypeOK'
  BY <1>1, <1>2, <1>3, <1>4, <1>5, Typed DEF TypeOK
<1>7. PreviousInv' /\ IntentInv' /\ ReceiptInv' /\ MarkerInv' /\ SurfaceInv' /\ CarriedInv' /\ TransitionInv'
        /\ SchemaInv'
  BY <1>1, <1>5, Frame DEF DiskInv
<1>8. ProcInv'
  BY <1>1, <1>2, <1>3, <1>4, <1>5, Typed
    DEF ProcInv, IntentProc, StageProc, CommandProc, BodyProc, PrepareProc, ActivateProc, UndoProc,
       FinalizeProc, AbortProc, CancelProc, CleanProc, StartProc, StagePcs, CancelPcs, CleanPcs, SourceOf,
       Rollback, CancelPhases, Forward, Back, Whole, SurfacesBefore, AllSurfaces, current, AbortPhases
<1> QED
  BY <1>6, <1>7, <1>8 DEF IInv, DiskInv

LEMMA GateCommittedKeeps == IInv /\ GateCommitted => IInv'
<1> SUFFICES ASSUME IInv, GateCommitted PROVE IInv'
  OBVIOUS
<1> DEFINE j == journal.r
<1>1. TypeOK /\ DiskInv /\ ProcInv
  BY DEF IInv
<1>2. /\ proc # None /\ proc.pc = "gate" /\ intent = None /\ journal # None /\ journal.phase = "committed"
            /\ j = journal.r
      /\ j = proc.r \/ proc.cmd \in {"stage", "start", "stop"}
      /\ j \in Receipts /\ journal.rec \in Receipt /\ journal.rec # None /\ journal.rec.activated
  BY <1>1, Typed, ReceiptFields
    DEF GateCommitted, ProcInv, Gating, IntentProc, StagePcs, JournalAdmits, DiskInv, CarriedInv
<1>3. /\ receipt' = [receipt EXCEPT ![j] = journal.rec]
      /\ receipt'[j] = journal.rec /\ \A q \in Receipts : q # j => receipt'[q] = receipt[q]
      /\ outcome' \in {"none", "done", "refused", "died"}
      /\ proc' = None \/ (/\ proc' \in Process /\ proc' # None /\ proc'.cmd = proc.cmd /\ proc'.r = proc.r
            /\ proc'.pc = "body"
                     /\ proc.cmd \notin {"stage", "activate"})
      /\ UNCHANGED <<surface, bundle, staged, torn, previous, intent, pending, journal, marker, schema,
                    transition, daemon, superseded>>
  BY <1>1, <1>2, Typed, Goes, Ends DEF GateCommitted, Unless, disk, records, database, Pcs
<1> HIDE DEF j
<1>4. TypeOK'
  BY <1>1, <1>2, <1>3, Typed DEF TypeOK
<1>5. PreviousInv'
  BY <1>1, <1>2, <1>3, Typed DEF DiskInv, PreviousInv, Settled, Rollback
<1>6. ReceiptInv'
  BY <1>1, <1>2, <1>3, Typed DEF DiskInv, ReceiptInv, SourceOf, Rollback, CancelPhases, CarriedInv, SurfaceInv
<1>7. SurfaceInv'
  BY <1>1, <1>2, <1>3, Typed
    DEF DiskInv, SurfaceInv, Settled, Rollback, Back, CancelPhases, AllSurfaces, current, Whole
<1>8. CarriedInv'
  BY <1>1, <1>2, <1>3, Typed DEF DiskInv, CarriedInv, SourceOf, Rollback, CancelPhases
<1>9. IntentInv' /\ MarkerInv' /\ TransitionInv' /\ SchemaInv'
  BY <1>1, <1>3, Frame DEF DiskInv
<1>10. ProcInv'
  BY <1>1, <1>2, <1>3, Typed
    DEF ProcInv, IntentProc, StageProc, CommandProc, BodyProc, PrepareProc, ActivateProc, UndoProc,
       FinalizeProc, AbortProc, CancelProc, CleanProc, StartProc, StagePcs, CancelPcs, CleanPcs, SourceOf,
       Rollback, CancelPhases, Forward, Back, Whole, SurfacesBefore, AllSurfaces, current, DiskInv,
       CarriedInv
<1> QED
  BY <1>4, <1>5, <1>6, <1>7, <1>8, <1>9, <1>10 DEF IInv, DiskInv

LEMMA GateUndoesKeeps == IInv /\ GateUndoes => IInv'
<1> SUFFICES ASSUME IInv, GateUndoes PROVE IInv'
  OBVIOUS
<1> DEFINE file == IF receipt[journal.r] # None THEN receipt[journal.r] ELSE journal.rec
<1>1. TypeOK /\ DiskInv /\ ProcInv
  BY DEF IInv
<1>2. /\ proc # None /\ proc.pc = "gate" /\ intent = None /\ journal # None
      /\ journal.phase \in {"activating", "finalizing", "finalize-cleanup"}
      /\ marker[journal.r] # "finalized"
      /\ file \in Receipt /\ SourceOf(journal.r, file) /\ journal.r \in Bundles /\ file = IF
            receipt[journal.r] # None THEN receipt[journal.r] ELSE journal.rec
  <2>1. proc # None /\ proc.pc = "gate" /\ intent = None /\ journal # None
    BY <1>1 DEF GateUndoes, ProcInv, Gating, IntentProc, StagePcs
  <2>2. journal.phase \in {"activating", "finalizing", "finalize-cleanup"}
    BY <1>1, <2>1, Typed DEF GateUndoes, Phases, AbortPhases
  <2>3. journal.r \in Receipts /\ journal.r \in Bundles /\ file \in Receipt
    BY <1>1, <2>1, Typed
  <2>4. staged[journal.r] # {}
    BY DEF GateUndoes, Settleable, ReceiptHolds, StagedFiles
  <2>5. marker[journal.r] # "finalized"
    BY <1>1, <2>1, <2>3, <2>4 DEF DiskInv, MarkerInv
  <2>6. SourceOf(journal.r, receipt[journal.r]) \/ receipt[journal.r] = None
    BY <1>1, <2>3 DEF DiskInv, ReceiptInv
  <2>7. SourceOf(journal.r, journal.rec)
    BY <1>1, <2>1 DEF DiskInv, CarriedInv
  <2> QED
    BY <2>1, <2>2, <2>3, <2>5, <2>6, <2>7
<1>3. proc' = [proc EXCEPT !.pc = "restore", !.r = journal.r, !.rec = file]
  BY <1>1, <1>2, Typed DEF GateUndoes
<1>4. proc' \in Process /\ proc' # None /\ proc'.cmd = proc.cmd /\ proc'.r = journal.r /\ proc'.pc = "restore"
         /\ proc'.rec = file
  <2>1. proc \in Process /\ "restore" \in Pcs /\ file \in Receipt /\ journal.r \in Bundles
    BY <1>1, <1>2, Typed DEF Pcs
  <2> HIDE DEF file
  <2> QED
    BY <1>3, <2>1, Absence DEF Process
<1>5. /\ superseded' \in {"no", "whole", "gutted"}
      /\ superseded # "no" => superseded' # "no"
      /\ superseded = "gutted" => superseded' = "gutted"
      /\ journal.phase # "activating" =>
           superseded' # "no" /\ (superseded' = "gutted" \/ Whole(Rollback(journal.r)))
      /\ journal.phase = "activating" => superseded' = superseded
      /\ UNCHANGED <<surface, bundle, staged, torn, previous, intent, pending, receipt, journal, marker,
                    schema, transition, daemon, outcome>>
  BY <1>1, <1>2, <1>3, <1>4, Typed DEF GateUndoes, Unless, disk, records, database, TypeOK
<1> HIDE DEF file
<1>6. TypeOK'
  BY <1>1, <1>2, <1>3, <1>4, <1>5, Typed DEF TypeOK
<1>7. ReceiptInv'
  BY <1>1, <1>2, <1>3, <1>4, <1>5, Typed DEF DiskInv, ReceiptInv, SourceOf, Rollback, CancelPhases
<1>8. SurfaceInv'
  BY <1>1, <1>2, <1>3, <1>4, <1>5, Typed
    DEF DiskInv, SurfaceInv, Settled, Rollback, Back, CancelPhases, AllSurfaces, current, Whole
<1>9. CarriedInv'
  BY <1>1, <1>2, <1>3, <1>4, <1>5, Typed DEF DiskInv, CarriedInv, SourceOf, Rollback, CancelPhases
<1>10. TransitionInv'
  BY <1>1, <1>2, <1>3, <1>4, <1>5, Typed DEF DiskInv, TransitionInv, Rollback, Back, CancelPhases, current
<1>11. SchemaInv'
  BY <1>1, <1>2, <1>3, <1>4, <1>5, Typed DEF DiskInv, SchemaInv, Rollback, Back, CancelPhases, Forward, current
<1>12. PreviousInv' /\ IntentInv' /\ MarkerInv'
  BY <1>1, <1>5, Frame DEF DiskInv
<1>13. ProcInv'
  BY <1>1, <1>2, <1>3, <1>4, <1>5, Typed
    DEF ProcInv, IntentProc, StageProc, CommandProc, BodyProc, PrepareProc, ActivateProc, UndoProc,
       FinalizeProc, AbortProc, CancelProc, CleanProc, StartProc, StagePcs, CancelPcs, CleanPcs, SourceOf,
       Rollback, CancelPhases, Forward, Back, Whole, SurfacesBefore, AllSurfaces, current
<1> QED
  BY <1>6, <1>7, <1>8, <1>9, <1>10, <1>11, <1>12, <1>13 DEF IInv, DiskInv

LEMMA RestoreSurfaceKeeps == IInv /\ RestoreSurface => IInv'
<1> SUFFICES ASSUME IInv, RestoreSurface PROVE IInv'
  OBVIOUS
<1> DEFINE r == proc.r
           s == Min(Changed(proc.r))
<1>1. TypeOK /\ DiskInv /\ ProcInv
  BY DEF IInv
<1>2. /\ proc # None /\ proc.pc = "restore" /\ intent = None /\ r \in Receipts /\ r = proc.r /\ proc.rec \in
            Receipt
      /\ journal # None /\ journal.r = r /\ journal.phase \in {"activating", "finalizing", "finalize-cleanup"}
      /\ journal.phase # "activating" => superseded # "no"
      /\ journal.phase = "finalize-cleanup" => superseded = "gutted" \/ Whole(Rollback(r))
      /\ previous[r] # None /\ previous[r] \in Snapshot /\ \A t \in Surfaces : previous[r][t] = Rollback(r)
  BY <1>1, Typed DEF RestoreSurface, ProcInv, Restoring, UndoProc, IntentProc, StagePcs, Forward, DiskInv,
     SurfaceInv, PreviousInv
<1>3. /\ s \in Surfaces /\ surface' = [surface EXCEPT ![s] = Rollback(r)] /\ surface' \in Snapshot
      /\ UNCHANGED <<bundle, staged, torn, previous, intent, pending, receipt, journal, marker, schema,
                    transition, daemon, proc, outcome, superseded>>
  BY <1>1, <1>2, Typed, SurfaceSet DEF RestoreSurface, Unless, disk, records, database, Changed
<1> HIDE DEF r, s
<1>4. TypeOK'
  BY <1>1, <1>2, <1>3, Typed DEF TypeOK
<1>5. SurfaceInv'
  BY <1>1, <1>2, <1>3, Typed
    DEF DiskInv, SurfaceInv, Settled, Rollback, Back, CancelPhases, AllSurfaces, current, Whole, TypeOK,
       Snapshot
<1>6. TransitionInv'
  BY <1>1, <1>2, <1>3, Typed DEF DiskInv, TransitionInv, Rollback, Back, CancelPhases, current
<1>7. SchemaInv'
  BY <1>1, <1>2, <1>3, Typed DEF DiskInv, SchemaInv, Rollback, Back, CancelPhases, Forward, current
<1>8. PreviousInv' /\ IntentInv' /\ ReceiptInv' /\ MarkerInv' /\ CarriedInv'
  BY <1>1, <1>3, Frame DEF DiskInv
<1>9. ProcInv'
  BY <1>1, <1>2, <1>3, Typed
    DEF ProcInv, IntentProc, StageProc, CommandProc, BodyProc, PrepareProc, ActivateProc, UndoProc,
       FinalizeProc, AbortProc, CancelProc, CleanProc, StartProc, StagePcs, CancelPcs, CleanPcs, SourceOf,
       Rollback, CancelPhases, Forward, Back, Whole, SurfacesBefore, AllSurfaces, current
<1> QED
  BY <1>4, <1>5, <1>6, <1>7, <1>8, <1>9 DEF IInv, DiskInv

LEMMA RestoreReceiptKeeps == IInv /\ RestoreReceipt => IInv'
<1> SUFFICES ASSUME IInv, RestoreReceipt PROVE IInv'
  OBVIOUS
<1> DEFINE r == proc.r
           file == [proc.rec EXCEPT !.activated = FALSE]
<1>1. TypeOK /\ DiskInv /\ ProcInv
  BY DEF IInv
<1>2. /\ proc # None /\ proc.pc = "restore" /\ intent = None /\ r \in Receipts /\ r = proc.r /\ proc.rec \in
            Receipt
      /\ journal # None /\ journal.r = r /\ journal.phase \in {"activating", "finalizing", "finalize-cleanup"}
      /\ journal.phase # "activating" => superseded # "no"
      /\ journal.phase = "finalize-cleanup" => superseded = "gutted" \/ Whole(Rollback(r))
      /\ previous[r] # None /\ previous[r] \in Snapshot /\ \A t \in Surfaces : previous[r][t] = Rollback(r)
      /\ surface = previous[r]
      /\ SourceOf(r, proc.rec)
  BY <1>1, Typed DEF RestoreReceipt, ProcInv, Restoring, UndoProc, IntentProc, StagePcs, Forward, DiskInv,
     SurfaceInv, PreviousInv, Changed, TypeOK, Snapshot
<1>3. /\ file \in Receipt /\ file # None /\ ~file.activated /\ file.source = proc.rec.source
      /\ receipt' = [receipt EXCEPT ![r] = file]
      /\ receipt'[r] = file /\ \A q \in Receipts : q # r => receipt'[q] = receipt[q]
      /\ proc' \in Process /\ proc' # None /\ proc'.cmd = proc.cmd /\ proc'.r = proc.r /\ proc'.rec = proc.rec
            /\ proc'.pc = "unjournal" /\ outcome' = outcome
      /\ UNCHANGED <<surface, bundle, staged, torn, previous, intent, pending, journal, marker, schema,
                    transition, daemon, outcome, superseded>>
  BY <1>1, <1>2, Typed, Goes, ReceiptFields DEF RestoreReceipt, Unless, disk, records, database, Pcs
<1> HIDE DEF r, file
<1>4. TypeOK'
  BY <1>1, <1>2, <1>3, Typed DEF TypeOK
<1>5. PreviousInv'
  BY <1>1, <1>2, <1>3, Typed DEF DiskInv, PreviousInv, Settled, Rollback
<1>6. ReceiptInv'
  BY <1>1, <1>2, <1>3, Typed DEF DiskInv, ReceiptInv, SourceOf, Rollback, CancelPhases
<1>7. SurfaceInv'
  BY <1>1, <1>2, <1>3, Typed
    DEF DiskInv, SurfaceInv, Settled, Rollback, Back, CancelPhases, AllSurfaces, current, Whole
<1>8. CarriedInv'
  BY <1>1, <1>2, <1>3, Typed DEF DiskInv, CarriedInv, SourceOf, Rollback, CancelPhases
<1>9. IntentInv' /\ MarkerInv' /\ TransitionInv' /\ SchemaInv'
  BY <1>1, <1>3, Frame DEF DiskInv
<1>10. ProcInv'
  BY <1>1, <1>2, <1>3, Typed
    DEF ProcInv, IntentProc, StageProc, CommandProc, BodyProc, PrepareProc, ActivateProc, UndoProc,
       FinalizeProc, AbortProc, CancelProc, CleanProc, StartProc, StagePcs, CancelPcs, CleanPcs, SourceOf,
       Rollback, CancelPhases, Forward, Back, Whole, SurfacesBefore, AllSurfaces, current
<1> QED
  BY <1>4, <1>5, <1>6, <1>7, <1>8, <1>9, <1>10 DEF IInv, DiskInv

LEMMA RestoreDoneKeeps == IInv /\ RestoreDone => IInv'
<1> SUFFICES ASSUME IInv, RestoreDone PROVE IInv'
  OBVIOUS
<1> DEFINE r == proc.r
<1>1. TypeOK /\ DiskInv /\ ProcInv
  BY DEF IInv
<1>2. /\ proc # None /\ proc.pc = "unjournal" /\ intent = None /\ r \in Receipts /\ r = proc.r /\ proc.rec \in
            Receipt
      /\ journal # None /\ journal.r = r /\ journal.phase \in {"activating", "finalizing", "finalize-cleanup"}
      /\ journal.phase # "activating" => superseded # "no"
      /\ journal.phase = "finalize-cleanup" => superseded = "gutted" \/ Whole(Rollback(r))
      /\ previous[r] # None /\ previous[r] \in Snapshot /\ \A t \in Surfaces : previous[r][t] = Rollback(r)
      /\ surface = previous[r]
      /\ receipt[r] # None /\ ~receipt[r].activated
      /\ marker[r] = "none"
  BY <1>1, Typed DEF RestoreDone, ProcInv, UndoProc, IntentProc, StagePcs, Forward, SurfacesBefore, DiskInv,
     SurfaceInv, PreviousInv, MarkerInv, TypeOK
<1>3. /\ \/ proc.cmd = "activate" /\ Goto("body")
         \/ End("refused")
  BY <1>1, <1>2, Typed DEF RestoreDone, Goto, End
<1>4. /\ journal' = None
      /\ outcome' \in {"none", "done", "refused", "died"}
      /\ proc' = None \/ (/\ proc' \in Process /\ proc' # None /\ proc'.cmd = proc.cmd /\ proc'.r = proc.r
                     /\ proc'.pc = "body" /\ proc.cmd = "activate")
      /\ UNCHANGED <<surface, bundle, staged, torn, previous, intent, pending, receipt, marker, schema,
                    transition, daemon, superseded>>
  BY <1>1, <1>2, <1>3, Typed, Goes, Ends DEF RestoreDone, Unless, disk, records, database, Pcs
<1> HIDE DEF r
<1>5. TypeOK'
  BY <1>1, <1>2, <1>3, <1>4, Typed DEF TypeOK
<1>6. PreviousInv'
  BY <1>1, <1>2, <1>3, <1>4, Typed DEF DiskInv, PreviousInv, Settled, Rollback
<1>7. IntentInv'
  BY <1>1, <1>2, <1>3, <1>4, Typed DEF DiskInv, IntentInv
<1>8. ReceiptInv'
  BY <1>1, <1>2, <1>3, <1>4, Typed DEF DiskInv, ReceiptInv, SourceOf, Rollback, CancelPhases
<1>9. MarkerInv'
  BY <1>1, <1>2, <1>3, <1>4, Typed DEF DiskInv, MarkerInv
<1>10. SurfaceInv'
  BY <1>1, <1>2, <1>3, <1>4, Typed
    DEF DiskInv, SurfaceInv, Settled, Rollback, Back, CancelPhases, AllSurfaces, current, Whole,
       PreviousInv
<1>11. CarriedInv'
  BY <1>1, <1>2, <1>3, <1>4, Typed DEF DiskInv, CarriedInv, SourceOf, Rollback, CancelPhases
<1>12. TransitionInv'
  BY <1>1, <1>2, <1>3, <1>4, Typed
    DEF DiskInv, TransitionInv, Rollback, Back, CancelPhases, current, PreviousInv, SurfaceInv, Forward
<1>13. SchemaInv'
  BY <1>1, <1>2, <1>3, <1>4, Typed
    DEF DiskInv, SchemaInv, Rollback, Back, CancelPhases, Forward, current, SurfaceInv
<1>14. ProcInv'
  BY <1>1, <1>2, <1>3, <1>4, Typed
    DEF ProcInv, IntentProc, StageProc, CommandProc, BodyProc, PrepareProc, ActivateProc, UndoProc,
       FinalizeProc, AbortProc, CancelProc, CleanProc, StartProc, StagePcs, CancelPcs, CleanPcs, SourceOf,
       Rollback, CancelPhases, Forward, Back, Whole, SurfacesBefore, AllSurfaces, current
<1> QED
  BY <1>5, <1>6, <1>7, <1>8, <1>9, <1>10, <1>11, <1>12, <1>13, <1>14 DEF IInv, DiskInv

-----------------------------------------------------------------------------
\* Staging: until its receipt is published nothing but the intent is about it.
LEMMA FailedStage ==
  ASSUME IInv, proc # None, proc.cmd = "stage", FailStage, UNCHANGED <<disk, records, database, daemon>>
  PROVE  IInv'
<1>1. TypeOK /\ DiskInv /\ ProcInv
  BY DEF IInv
<1>2. proc \in Process /\ proc' = [proc EXCEPT !.cmd = "failed", !.pc = "sweep"]
  BY <1>1, Typed DEF FailStage
<1>3. proc' \in Process /\ proc' # None /\ proc'.cmd = "failed" /\ proc'.pc = "sweep"
  BY <1>2, Absence DEF Process, Pcs, Commands
<1>4. UNCHANGED <<outcome, superseded>>
  BY DEF FailStage
<1>5. TypeOK'
  BY <1>1, <1>3, <1>4 DEF TypeOK, disk, records, database
<1>6. DiskInv'
  BY <1>1, <1>4, Frame DEF DiskInv, disk, records, database
<1>7. ProcInv'
  BY <1>3 DEF ProcInv, IntentProc, StageProc, CommandProc, BodyProc, PrepareProc, ActivateProc, UndoProc,
     FinalizeProc, AbortProc, CancelProc, CleanProc, StartProc, StagePcs, CancelPcs, CleanPcs
<1> QED
  BY <1>5, <1>6, <1>7 DEF IInv

LEMMA StageRetryKeeps == IInv /\ StageRetry => IInv'
<1> SUFFICES ASSUME IInv, StageRetry PROVE IInv'
  OBVIOUS
<1>1. TypeOK /\ DiskInv
  BY DEF IInv
<1>2. proc # None /\ proc.cmd = "stage"
  BY DEF StageRetry, At
<1>3. CASE pending' = pending /\ FailStage
  BY <1>2, <1>3, FailedStage DEF StageRetry, records
<1>4. CASE pending' = None /\ End("done")
  <2>1. proc' = None /\ outcome' = "done" /\ superseded' = superseded
    BY <1>4, Ends
  <2>2. TypeOK'
    BY <1>1, <1>4, <2>1 DEF TypeOK, StageRetry, disk, database
  <2>3. DiskInv'
    BY <1>1, <2>1, Frame DEF DiskInv, StageRetry, disk, database
  <2> QED
    BY <2>1, <2>2, <2>3 DEF IInv, ProcInv
<1> QED
  BY <1>3, <1>4 DEF StageRetry

LEMMA StageIntentKeeps ==
  ASSUME IInv, NEW r \in Receipts, StageIntent(r)
  PROVE  IInv'
<1>1. TypeOK /\ DiskInv /\ ProcInv
  BY DEF IInv
<1>2. /\ proc # None /\ proc.cmd = "stage" /\ proc.pc = "body" /\ journal = None /\ intent = None
      /\ receipt[r] = None /\ marker[r] = "none" /\ previous[r] = None
      /\ transition # None => transition.r # r
  BY <1>1, Typed DEF StageIntent, ProcInv, At, Fresh, IntentProc, BodyProc, StagePcs
<1>3. intent' = [r |-> r, owns |-> FALSE]
  BY DEF StageIntent
<1>4. proc' = [proc EXCEPT !.pc = "claim", !.r = r]
  BY DEF StageIntent
<1>5. intent' \in Intent /\ intent'.r = r
  BY <1>3 DEF Intent
<1>6. intent' # None
  BY <1>5, Absence
<1>7. proc' \in Process /\ proc' # None /\ proc'.cmd = proc.cmd /\ proc'.r = r /\ proc'.pc = "claim"
         /\ proc'.rec = proc.rec
  <2>1. proc \in Process /\ "claim" \in Pcs /\ r \in Bundles
    BY <1>1, <1>2, Typed DEF Pcs, Bundles
  <2> QED
    BY <1>4, <2>1, Absence DEF Process
<1>8. /\ intent'.r = r
      /\ UNCHANGED <<surface, bundle, staged, torn, previous, pending, receipt, journal, marker, schema,
                    transition, daemon, outcome, superseded>>
  BY <1>1, <1>2, <1>3, <1>4, <1>5, <1>6, <1>7, Typed DEF StageIntent, Unless, disk, records, database
<1>9. TypeOK'
  BY <1>1, <1>2, <1>3, <1>4, <1>5, <1>6, <1>7, <1>8, Typed DEF TypeOK
<1>10. PreviousInv'
  BY <1>1, <1>2, <1>3, <1>4, <1>5, <1>6, <1>7, <1>8, Typed DEF DiskInv, PreviousInv, Settled, Rollback
<1>11. IntentInv'
  BY <1>1, <1>2, <1>3, <1>4, <1>5, <1>6, <1>7, <1>8, Typed DEF DiskInv, IntentInv
<1>12. SurfaceInv'
  BY <1>1, <1>2, <1>3, <1>4, <1>5, <1>6, <1>7, <1>8, Typed
    DEF DiskInv, SurfaceInv, Settled, Rollback, Back, CancelPhases, AllSurfaces, current, Whole
<1>13. ReceiptInv' /\ MarkerInv' /\ CarriedInv' /\ TransitionInv' /\ SchemaInv'
  BY <1>1, <1>8, Frame DEF DiskInv
<1>14. ProcInv'
  BY <1>1, <1>2, <1>3, <1>4, <1>5, <1>6, <1>7, <1>8, Typed
    DEF ProcInv, IntentProc, StageProc, CommandProc, BodyProc, PrepareProc, ActivateProc, UndoProc,
       FinalizeProc, AbortProc, CancelProc, CleanProc, StartProc, StagePcs, CancelPcs, CleanPcs, SourceOf,
       Rollback, CancelPhases, Forward, Back, Whole, SurfacesBefore, AllSurfaces, current
<1> QED
  BY <1>9, <1>10, <1>11, <1>12, <1>13, <1>14 DEF IInv, DiskInv

LEMMA StageClaimKeeps == IInv /\ StageClaim => IInv'
<1> SUFFICES ASSUME IInv, StageClaim PROVE IInv'
  OBVIOUS
<1> DEFINE r == proc.r
<1>1. TypeOK /\ DiskInv /\ ProcInv
  BY DEF IInv
<1>2. /\ proc # None /\ proc.cmd = "stage" /\ proc.pc = "claim" /\ journal = None
      /\ intent # None /\ intent.r = r /\ r \in Receipts /\ r = proc.r
      /\ receipt[r] = None
  BY <1>1, Typed DEF StageClaim, ProcInv, At, IntentProc, StageProc, StagePcs
<1>3. /\ bundle' = [bundle EXCEPT ![r] = "temp"]
      /\ proc' \in Process /\ proc' # None /\ proc'.cmd = proc.cmd /\ proc'.r = proc.r /\ proc'.rec = proc.rec
            /\ proc'.pc = "own" /\ outcome' = outcome
      /\ UNCHANGED <<surface, staged, torn, previous, intent, pending, receipt, journal, marker, schema,
                    transition, daemon, outcome, superseded>>
  BY <1>1, <1>2, Typed, Goes DEF StageClaim, Unless, disk, records, database, Pcs
<1> HIDE DEF r
<1>4. TypeOK'
  BY <1>1, <1>2, <1>3, Typed DEF TypeOK
<1>5. PreviousInv'
  BY <1>1, <1>2, <1>3, Typed DEF DiskInv, PreviousInv, Settled, Rollback
<1>6. MarkerInv'
  BY <1>1, <1>2, <1>3, Typed DEF DiskInv, MarkerInv, IntentInv
<1>7. SurfaceInv'
  BY <1>1, <1>2, <1>3, Typed
    DEF DiskInv, SurfaceInv, Settled, Rollback, Back, CancelPhases, AllSurfaces, current, Whole
<1>8. TransitionInv'
  BY <1>1, <1>2, <1>3, Typed
    DEF DiskInv, TransitionInv, Rollback, Back, CancelPhases, current, PreviousInv, Settled
<1>9. IntentInv' /\ ReceiptInv' /\ CarriedInv' /\ SchemaInv'
  BY <1>1, <1>3, Frame DEF DiskInv
<1>10. ProcInv'
  BY <1>1, <1>2, <1>3, Typed
    DEF ProcInv, IntentProc, StageProc, CommandProc, BodyProc, PrepareProc, ActivateProc, UndoProc,
       FinalizeProc, AbortProc, CancelProc, CleanProc, StartProc, StagePcs, CancelPcs, CleanPcs, SourceOf,
       Rollback, CancelPhases, Forward, Back, Whole, SurfacesBefore, AllSurfaces, current
<1> QED
  BY <1>4, <1>5, <1>6, <1>7, <1>8, <1>9, <1>10 DEF IInv, DiskInv

LEMMA StageOwnKeeps == IInv /\ StageOwn => IInv'
<1> SUFFICES ASSUME IInv, StageOwn PROVE IInv'
  OBVIOUS
<1> DEFINE r == proc.r
<1>1. TypeOK /\ DiskInv /\ ProcInv
  BY DEF IInv
<1>2. /\ proc # None /\ proc.cmd = "stage" /\ proc.pc = "own" /\ journal = None
      /\ intent # None /\ intent.r = r /\ r \in Receipts /\ r = proc.r
      /\ receipt[r] = None
      /\ intent \in Intent
  BY <1>1, Typed DEF StageOwn, ProcInv, At, IntentProc, StageProc, StagePcs
<1>3. intent' = [intent EXCEPT !.owns = TRUE]
  BY <1>1, <1>2, Typed DEF StageOwn
<1>4. intent' \in Intent /\ intent' # None /\ intent'.r = r
  BY <1>1, <1>2, <1>3, Typed, Absence DEF Intent
<1>5. /\ proc' \in Process /\ proc' # None /\ proc'.cmd = proc.cmd /\ proc'.r = proc.r /\ proc'.rec = proc.rec
            /\ proc'.pc = "copy" /\ outcome' = outcome
      /\ UNCHANGED <<surface, bundle, staged, torn, previous, pending, receipt, journal, marker, schema,
                    transition, daemon, outcome, superseded>>
  BY <1>1, <1>2, <1>3, <1>4, Typed, Goes DEF StageOwn, Unless, disk, records, database, Pcs
<1> HIDE DEF r
<1>6. TypeOK'
  BY <1>1, <1>2, <1>3, <1>4, <1>5, Typed DEF TypeOK
<1>7. PreviousInv'
  BY <1>1, <1>2, <1>3, <1>4, <1>5, Typed DEF DiskInv, PreviousInv, Settled, Rollback
<1>8. IntentInv'
  BY <1>1, <1>2, <1>3, <1>4, <1>5, Typed DEF DiskInv, IntentInv
<1>9. SurfaceInv'
  BY <1>1, <1>2, <1>3, <1>4, <1>5, Typed
    DEF DiskInv, SurfaceInv, Settled, Rollback, Back, CancelPhases, AllSurfaces, current, Whole
<1>10. ReceiptInv' /\ MarkerInv' /\ CarriedInv' /\ TransitionInv' /\ SchemaInv'
  BY <1>1, <1>5, Frame DEF DiskInv
<1>11. ProcInv'
  BY <1>1, <1>2, <1>3, <1>4, <1>5, Typed
    DEF ProcInv, IntentProc, StageProc, CommandProc, BodyProc, PrepareProc, ActivateProc, UndoProc,
       FinalizeProc, AbortProc, CancelProc, CleanProc, StartProc, StagePcs, CancelPcs, CleanPcs, SourceOf,
       Rollback, CancelPhases, Forward, Back, Whole, SurfacesBefore, AllSurfaces, current
<1> QED
  BY <1>6, <1>7, <1>8, <1>9, <1>10, <1>11 DEF IInv, DiskInv

LEMMA StagePublishKeeps == IInv /\ StagePublish => IInv'
<1> SUFFICES ASSUME IInv, StagePublish PROVE IInv'
  OBVIOUS
<1> DEFINE r == proc.r
<1>1. TypeOK /\ DiskInv /\ ProcInv
  BY DEF IInv
<1>2. /\ proc # None /\ proc.cmd = "stage" /\ proc.pc = "copy" /\ journal = None
      /\ intent # None /\ intent.r = r /\ r \in Receipts /\ r = proc.r
      /\ receipt[r] = None
  BY <1>1, Typed DEF StagePublish, ProcInv, At, IntentProc, StageProc, StagePcs
<1>3. /\ bundle' = [bundle EXCEPT ![r] = "present"]
      /\ proc' \in Process /\ proc' # None /\ proc'.cmd = proc.cmd /\ proc'.r = proc.r /\ proc'.rec = proc.rec
            /\ proc'.pc = "reserve" /\ outcome' = outcome
      /\ UNCHANGED <<surface, staged, torn, previous, intent, pending, receipt, journal, marker, schema,
                    transition, daemon, outcome, superseded>>
  BY <1>1, <1>2, Typed, Goes DEF StagePublish, Unless, disk, records, database, Pcs
<1> HIDE DEF r
<1>4. TypeOK'
  BY <1>1, <1>2, <1>3, Typed DEF TypeOK
<1>5. PreviousInv'
  BY <1>1, <1>2, <1>3, Typed DEF DiskInv, PreviousInv, Settled, Rollback
<1>6. MarkerInv'
  BY <1>1, <1>2, <1>3, Typed DEF DiskInv, MarkerInv, IntentInv
<1>7. SurfaceInv'
  BY <1>1, <1>2, <1>3, Typed
    DEF DiskInv, SurfaceInv, Settled, Rollback, Back, CancelPhases, AllSurfaces, current, Whole
<1>8. TransitionInv'
  BY <1>1, <1>2, <1>3, Typed
    DEF DiskInv, TransitionInv, Rollback, Back, CancelPhases, current, PreviousInv, Settled
<1>9. IntentInv' /\ ReceiptInv' /\ CarriedInv' /\ SchemaInv'
  BY <1>1, <1>3, Frame DEF DiskInv
<1>10. ProcInv'
  BY <1>1, <1>2, <1>3, Typed
    DEF ProcInv, IntentProc, StageProc, CommandProc, BodyProc, PrepareProc, ActivateProc, UndoProc,
       FinalizeProc, AbortProc, CancelProc, CleanProc, StartProc, StagePcs, CancelPcs, CleanPcs, SourceOf,
       Rollback, CancelPhases, Forward, Back, Whole, SurfacesBefore, AllSurfaces, current
<1> QED
  BY <1>4, <1>5, <1>6, <1>7, <1>8, <1>9, <1>10 DEF IInv, DiskInv

LEMMA StageReserveKeeps == IInv /\ StageReserve => IInv'
<1> SUFFICES ASSUME IInv, StageReserve PROVE IInv'
  OBVIOUS
<1> DEFINE r == proc.r
<1>1. TypeOK /\ DiskInv /\ ProcInv
  BY DEF IInv
<1>2. /\ proc # None /\ proc.cmd = "stage" /\ proc.pc = "reserve" /\ journal = None
      /\ intent # None /\ intent.r = r /\ r \in Receipts /\ r = proc.r
      /\ receipt[r] = None
  BY <1>1, Typed DEF StageReserve, ProcInv, At, IntentProc, StageProc, StagePcs
<1>3. /\ previous' = [previous EXCEPT ![r] = surface]
      /\ surface \in Snapshot /\ surface # None /\ previous'[r] = surface
      /\ proc' \in Process /\ proc' # None /\ proc'.cmd = proc.cmd /\ proc'.r = proc.r /\ proc'.rec = proc.rec
            /\ proc'.pc = "files" /\ outcome' = outcome
      /\ UNCHANGED <<surface, bundle, staged, torn, intent, pending, receipt, journal, marker, schema,
                    transition, daemon, outcome, superseded>>
  BY <1>1, <1>2, Typed, Goes, Absence DEF StageReserve, Unless, disk, records, database, Pcs
<1> HIDE DEF r
<1>4. TypeOK'
  BY <1>1, <1>2, <1>3, Typed DEF TypeOK
<1>5. PreviousInv'
  BY <1>1, <1>2, <1>3, Typed DEF DiskInv, PreviousInv, Settled, Rollback, SurfaceInv, AllSurfaces, current
<1>6. ReceiptInv'
  BY <1>1, <1>2, <1>3, Typed DEF DiskInv, ReceiptInv, SourceOf, Rollback, CancelPhases
<1>7. SurfaceInv'
  BY <1>1, <1>2, <1>3, Typed
    DEF DiskInv, SurfaceInv, Settled, Rollback, Back, CancelPhases, AllSurfaces, current, Whole
<1>8. CarriedInv'
  BY <1>1, <1>2, <1>3, Typed DEF DiskInv, CarriedInv, SourceOf, Rollback, CancelPhases
<1>9. TransitionInv'
  BY <1>1, <1>2, <1>3, Typed DEF DiskInv, TransitionInv, Rollback, Back, CancelPhases, current, IntentInv
<1>10. SchemaInv'
  BY <1>1, <1>2, <1>3, Typed DEF DiskInv, SchemaInv, Rollback, Back, CancelPhases, Forward, current
<1>11. IntentInv' /\ MarkerInv'
  BY <1>1, <1>3, Frame DEF DiskInv
<1>12. ProcInv'
  BY <1>1, <1>2, <1>3, Typed
    DEF ProcInv, IntentProc, StageProc, CommandProc, BodyProc, PrepareProc, ActivateProc, UndoProc,
       FinalizeProc, AbortProc, CancelProc, CleanProc, StartProc, StagePcs, CancelPcs, CleanPcs, SourceOf,
       Rollback, CancelPhases, Forward, Back, Whole, SurfacesBefore, AllSurfaces, current
<1> QED
  BY <1>4, <1>5, <1>6, <1>7, <1>8, <1>9, <1>10, <1>11, <1>12 DEF IInv, DiskInv

LEMMA StageFileKeeps == IInv /\ StageFile => IInv'
<1> SUFFICES ASSUME IInv, StageFile PROVE IInv'
  OBVIOUS
<1> DEFINE r == proc.r
<1>1. TypeOK /\ DiskInv /\ ProcInv
  BY DEF IInv
<1>2. /\ proc # None /\ proc.cmd = "stage" /\ proc.pc = "files" /\ journal = None
      /\ intent # None /\ intent.r = r /\ r \in Receipts /\ r = proc.r
      /\ receipt[r] = None /\ previous[r] # None
  BY <1>1, Typed DEF StageFile, ProcInv, At, IntentProc, StageProc, StagePcs
<1>3. /\ staged' \in [Receipts -> SUBSET StagedFiles] /\ torn' \in Receipts \cup {None}
      /\ UNCHANGED <<surface, bundle, previous, intent, pending, receipt, journal, marker, schema, transition,
                    daemon, proc, outcome, superseded>>
  <2>1. UNCHANGED <<surface, bundle, previous, intent, pending, receipt, journal, marker, schema, transition,
                    daemon, proc, outcome, superseded>>
    BY DEF StageFile, records, database
  <2>2. staged \in [Receipts -> SUBSET StagedFiles] /\ torn \in Receipts \cup {None}
    BY <1>1 DEF TypeOK
  <2>3. staged[r] # StagedFiles => Min(StagedFiles \ staged[r]) \in StagedFiles
    <3>1. StagedFiles \subseteq 0 .. 3
      BY DEF StagedFiles
    <3> QED
      BY <1>2, <2>2, <3>1, MinElement
  <2>4. \/ staged' = staged /\ torn' = None
        \/ /\ staged[r] # StagedFiles /\ torn' = r
           /\ staged' = [staged EXCEPT ![r] = @ \cup {Min(StagedFiles \ @)}]
    BY DEF StageFile
  <2> HIDE DEF r
  <2> QED
    BY <1>2, <2>1, <2>2, <2>3, <2>4
<1> HIDE DEF r
<1>4. TypeOK'
  BY <1>1, <1>2, <1>3, Typed DEF TypeOK
<1>5. MarkerInv'
  BY <1>1, <1>2, <1>3, Typed DEF DiskInv, MarkerInv
<1>6. PreviousInv' /\ IntentInv' /\ ReceiptInv' /\ SurfaceInv' /\ CarriedInv' /\ TransitionInv' /\ SchemaInv'
  BY <1>1, <1>3, Frame DEF DiskInv
<1>7. ProcInv'
  BY <1>1, <1>2, <1>3, Typed
    DEF ProcInv, IntentProc, StageProc, CommandProc, BodyProc, PrepareProc, ActivateProc, UndoProc,
       FinalizeProc, AbortProc, CancelProc, CleanProc, StartProc, StagePcs, CancelPcs, CleanPcs, SourceOf,
       Rollback, CancelPhases, Forward, Back, Whole, SurfacesBefore, AllSurfaces, current
<1> QED
  BY <1>4, <1>5, <1>6, <1>7 DEF IInv, DiskInv

LEMMA StageSealKeeps == IInv /\ StageSeal => IInv'
<1> SUFFICES ASSUME IInv, StageSeal PROVE IInv'
  OBVIOUS
<1>1. TypeOK /\ DiskInv /\ ProcInv
  BY DEF IInv
<1>2. proc # None /\ proc.cmd = "stage" /\ proc.pc = "files"
  BY DEF StageSeal, At
<1>3. CASE pending' = pending /\ FailStage
  BY <1>2, <1>3, FailedStage DEF StageSeal, records
<1>4. CASE pending' = proc.r /\ Goto("publish")
  <2>1. intent # None /\ intent.r = proc.r /\ proc.r \in Receipts /\ receipt[proc.r] = None
          /\ previous[proc.r] # None /\ journal = None
    BY <1>1, <1>2, Typed DEF ProcInv, IntentProc, StageProc, StagePcs
  <2>2. /\ proc' \in Process /\ proc' # None /\ proc'.cmd = proc.cmd /\ proc'.r = proc.r /\ proc'.pc = "publish"
        /\ UNCHANGED <<outcome, superseded>>
    BY <1>1, <1>2, <1>4, Typed, Goes DEF Pcs
  <2>3. TypeOK'
    BY <1>1, <1>4, <2>1, <2>2 DEF TypeOK, StageSeal, disk, database
  <2>4. DiskInv'
    BY <1>1, <2>2, Frame DEF DiskInv, StageSeal, disk, database
  <2>5. ProcInv'
    BY <1>2, <2>1, <2>2
      DEF ProcInv, IntentProc, StageProc, CommandProc, BodyProc, PrepareProc, ActivateProc, UndoProc,
         FinalizeProc, AbortProc, CancelProc, CleanProc, StartProc, StagePcs, CancelPcs, CleanPcs,
         StageSeal, disk, database
  <2> QED
    BY <2>3, <2>4, <2>5 DEF IInv
<1> QED
  BY <1>3, <1>4 DEF StageSeal

LEMMA StageReceiptKeeps == IInv /\ StageReceipt => IInv'
<1> SUFFICES ASSUME IInv, StageReceipt PROVE IInv'
  OBVIOUS
<1> DEFINE r == proc.r
<1>1. TypeOK /\ DiskInv /\ ProcInv
  BY DEF IInv
<1>2. /\ proc # None /\ proc.cmd = "stage" /\ proc.pc = "publish" /\ journal = None
      /\ intent # None /\ intent.r = r /\ r \in Receipts /\ r = proc.r
      /\ receipt[r] = None /\ previous[r] # None
  BY <1>1, Typed DEF StageReceipt, ProcInv, At, IntentProc, StageProc, StagePcs
<1>3. /\ receipt' = [receipt EXCEPT ![r] = NewReceipt]
      /\ receipt'[r] = NewReceipt /\ \A q \in Receipts : q # r => receipt'[q] = receipt[q]
      /\ NewReceipt \in Receipt /\ NewReceipt # None /\ ~NewReceipt.activated /\ NewReceipt.source = None
      /\ proc' \in Process /\ proc' # None /\ proc'.cmd = proc.cmd /\ proc'.r = proc.r /\ proc'.rec = proc.rec
            /\ proc'.pc = "unintent" /\ outcome' = outcome
      /\ UNCHANGED <<surface, bundle, staged, torn, previous, intent, pending, journal, marker, schema,
                    transition, daemon, outcome, superseded>>
  BY <1>1, <1>2, Typed, Goes, ReceiptFields DEF StageReceipt, Unless, disk, records, database, Pcs
<1> HIDE DEF r
<1>4. TypeOK'
  BY <1>1, <1>2, <1>3, Typed DEF TypeOK
<1>5. PreviousInv'
  BY <1>1, <1>2, <1>3, Typed DEF DiskInv, PreviousInv, Settled, Rollback
<1>6. ReceiptInv'
  BY <1>1, <1>2, <1>3, Typed DEF DiskInv, ReceiptInv, SourceOf, Rollback, CancelPhases, IntentInv
<1>7. SurfaceInv'
  BY <1>1, <1>2, <1>3, Typed
    DEF DiskInv, SurfaceInv, Settled, Rollback, Back, CancelPhases, AllSurfaces, current, Whole
<1>8. CarriedInv'
  BY <1>1, <1>2, <1>3, Typed DEF DiskInv, CarriedInv, SourceOf, Rollback, CancelPhases
<1>9. IntentInv' /\ MarkerInv' /\ TransitionInv' /\ SchemaInv'
  BY <1>1, <1>3, Frame DEF DiskInv
<1>10. ProcInv'
  BY <1>1, <1>2, <1>3, Typed
    DEF ProcInv, IntentProc, StageProc, CommandProc, BodyProc, PrepareProc, ActivateProc, UndoProc,
       FinalizeProc, AbortProc, CancelProc, CleanProc, StartProc, StagePcs, CancelPcs, CleanPcs, SourceOf,
       Rollback, CancelPhases, Forward, Back, Whole, SurfacesBefore, AllSurfaces, current
<1> QED
  BY <1>4, <1>5, <1>6, <1>7, <1>8, <1>9, <1>10 DEF IInv, DiskInv

LEMMA StageUnintentKeeps == IInv /\ StageUnintent => IInv'
<1> SUFFICES ASSUME IInv, StageUnintent PROVE IInv'
  OBVIOUS
<1> DEFINE r == proc.r
<1>1. TypeOK /\ DiskInv /\ ProcInv
  BY DEF IInv
<1>2. /\ proc # None /\ proc.cmd = "stage" /\ proc.pc = "unintent" /\ journal = None
      /\ intent # None /\ intent.r = r /\ r \in Receipts /\ r = proc.r
  BY <1>1, Typed DEF StageUnintent, ProcInv, At, IntentProc, StageProc, StagePcs
<1>3. /\ intent' = None
      /\ proc' \in Process /\ proc' # None /\ proc'.cmd = proc.cmd /\ proc'.r = proc.r /\ proc'.rec = proc.rec
            /\ proc'.pc = "unpend" /\ outcome' = outcome
      /\ UNCHANGED <<surface, bundle, staged, torn, previous, pending, receipt, journal, marker, schema,
                    transition, daemon, outcome, superseded>>
  BY <1>1, <1>2, Typed, Goes DEF StageUnintent, Unless, disk, records, database, Pcs
<1> HIDE DEF r
<1>4. TypeOK'
  BY <1>1, <1>2, <1>3, Typed DEF TypeOK
<1>5. PreviousInv'
  BY <1>1, <1>2, <1>3, Typed DEF DiskInv, PreviousInv, Settled, Rollback
<1>6. IntentInv'
  BY <1>1, <1>2, <1>3, Typed DEF DiskInv, IntentInv
<1>7. SurfaceInv'
  BY <1>1, <1>2, <1>3, Typed
    DEF DiskInv, SurfaceInv, Settled, Rollback, Back, CancelPhases, AllSurfaces, current, Whole
<1>8. ReceiptInv' /\ MarkerInv' /\ CarriedInv' /\ TransitionInv' /\ SchemaInv'
  BY <1>1, <1>3, Frame DEF DiskInv
<1>9. ProcInv'
  BY <1>1, <1>2, <1>3, Typed
    DEF ProcInv, IntentProc, StageProc, CommandProc, BodyProc, PrepareProc, ActivateProc, UndoProc,
       FinalizeProc, AbortProc, CancelProc, CleanProc, StartProc, StagePcs, CancelPcs, CleanPcs, SourceOf,
       Rollback, CancelPhases, Forward, Back, Whole, SurfacesBefore, AllSurfaces, current
<1> QED
  BY <1>4, <1>5, <1>6, <1>7, <1>8, <1>9 DEF IInv, DiskInv

LEMMA StageDoneKeeps == IInv /\ StageDone => IInv'
<1> SUFFICES ASSUME IInv, StageDone PROVE IInv'
  OBVIOUS
<1>1. TypeOK /\ DiskInv /\ ProcInv
  BY DEF IInv
<1>2. proc # None
  BY <1>1, Typed DEF StageDone, ProcInv, At
<1>3. /\ pending' = None
      /\ proc' = None /\ outcome' \in {"none", "done", "refused", "died"}
      /\ UNCHANGED <<surface, bundle, staged, torn, previous, intent, receipt, journal, marker, schema,
                    transition, daemon, superseded>>
  BY <1>1, <1>2, Typed, Ends DEF StageDone, Unless, disk, records, database
<1>4. TypeOK'
  BY <1>1, <1>2, <1>3, Typed DEF TypeOK
<1>5. PreviousInv' /\ IntentInv' /\ ReceiptInv' /\ MarkerInv' /\ SurfaceInv' /\ CarriedInv' /\ TransitionInv'
        /\ SchemaInv'
  BY <1>1, <1>3, Frame DEF DiskInv
<1>6. ProcInv'
  BY <1>3 DEF ProcInv
<1> QED
  BY <1>4, <1>5, <1>6 DEF IInv, DiskInv

LEMMA StageFailsKeeps == IInv /\ StageFails => IInv'
  BY FailedStage DEF StageFails

-----------------------------------------------------------------------------
\* Activation: the database first, then the journal, the surfaces, the receipt.
LEMMA ActivatePendingKeeps == IInv /\ ActivatePending => IInv'
<1> SUFFICES ASSUME IInv, ActivatePending PROVE IInv'
  OBVIOUS
<1>1. TypeOK /\ DiskInv /\ ProcInv
  BY DEF IInv
<1>2. proc # None /\ proc.cmd = "activate" /\ proc.pc = "pending" /\ intent = None
  BY <1>1, Typed DEF ActivatePending, ProcInv, At, IntentProc, StagePcs
<1>3. /\ pending' \in {pending, None}
      /\ outcome' \in {"none", "done", "refused", "died"}
      /\ proc' = None \/ (/\ proc' \in Process /\ proc' # None /\ proc'.cmd = proc.cmd /\ proc'.r = proc.r
                     /\ proc'.pc = "gate")
      /\ UNCHANGED <<surface, bundle, staged, torn, previous, intent, receipt, journal, marker, schema,
                    transition, daemon, superseded>>
  BY <1>1, <1>2, Typed, Goes, Ends DEF ActivatePending, Unless, disk, records, database, Pcs
<1>4. TypeOK'
  BY <1>1, <1>2, <1>3, Typed DEF TypeOK
<1>5. PreviousInv' /\ IntentInv' /\ ReceiptInv' /\ MarkerInv' /\ SurfaceInv' /\ CarriedInv' /\ TransitionInv'
        /\ SchemaInv'
  BY <1>1, <1>3, Frame DEF DiskInv
<1>6. ProcInv'
  BY <1>1, <1>2, <1>3, Typed
    DEF ProcInv, IntentProc, StageProc, CommandProc, BodyProc, PrepareProc, ActivateProc, UndoProc,
       FinalizeProc, AbortProc, CancelProc, CleanProc, StartProc, StagePcs, CancelPcs, CleanPcs, SourceOf,
       Rollback, CancelPhases, Forward, Back, Whole, SurfacesBefore, AllSurfaces, current
<1> QED
  BY <1>4, <1>5, <1>6 DEF IInv, DiskInv

LEMMA ActivateChecksKeeps == IInv /\ ActivateChecks => IInv'
<1> SUFFICES ASSUME IInv, ActivateChecks PROVE IInv'
  OBVIOUS
<1> DEFINE r == proc.r
<1>1. TypeOK /\ DiskInv /\ ProcInv
  BY DEF IInv
<1>2. /\ proc # None /\ proc.cmd = "activate" /\ proc.pc = "body" /\ intent = None /\ r \in Receipts /\ r =
            proc.r
      /\ journal = None
  BY <1>1, Typed DEF ActivateChecks, ProcInv, At, IntentProc, StagePcs, BodyProc, CommandProc
<1>0. CASE ~(Activatable(r) /\ Preparable(r))
  BY <1>0, <1>2, Refused DEF ActivateChecks, Unless
<1>c. CASE Activatable(r) /\ Preparable(r)
  <2>1. /\ receipt[r] # None /\ SurfacesBefore(r) /\ Whole(r) /\ Whole(Rollback(r))
        /\ transition # None => transition.r = r /\ transition.state \in {"snapshot_ready", "ready_to_activate"}
        /\ proc' \in Process /\ proc' # None /\ proc'.cmd = proc.cmd /\ proc'.r = proc.r /\ proc'.rec =
              proc.rec /\ proc'.pc = "prepare" /\ outcome' = outcome
        /\ UNCHANGED <<surface, bundle, staged, torn, previous, intent, pending, receipt, journal, marker,
                      schema, transition, daemon, outcome, superseded>>
    BY <1>1, <1>2, <1>c, Typed, Goes
      DEF ActivateChecks, Unless, disk, records, database, Pcs, Activatable, ActivatableUnverified,
         Preparable
  <2> HIDE DEF r
  <2>2. TypeOK'
    BY <1>1, <1>2, <1>c, <2>1, Typed DEF TypeOK
  <2>3. PreviousInv' /\ IntentInv' /\ ReceiptInv' /\ MarkerInv' /\ SurfaceInv' /\ CarriedInv'
          /\ TransitionInv' /\ SchemaInv'
    BY <1>1, <2>1, Frame DEF DiskInv
  <2>4. ProcInv'
    BY <1>1, <1>2, <1>c, <2>1, Typed
      DEF ProcInv, IntentProc, StageProc, CommandProc, BodyProc, PrepareProc, ActivateProc, UndoProc,
         FinalizeProc, AbortProc, CancelProc, CleanProc, StartProc, StagePcs, CancelPcs, CleanPcs,
         SourceOf, Rollback, CancelPhases, Forward, Back, Whole, SurfacesBefore, AllSurfaces, current
  <2> QED
    BY <2>2, <2>3, <2>4 DEF IInv, DiskInv
<1> QED
  BY <1>0, <1>c

LEMMA PrepareSnapshotKeeps == IInv /\ PrepareSnapshot => IInv'
<1> SUFFICES ASSUME IInv, PrepareSnapshot PROVE IInv'
  OBVIOUS
<1> DEFINE r == proc.r
<1>1. TypeOK /\ DiskInv /\ ProcInv
  BY DEF IInv
<1>2. /\ proc # None /\ proc.cmd = "activate" /\ proc.pc = "prepare" /\ intent = None /\ r \in Receipts /\ r =
            proc.r
      /\ journal = None /\ receipt[r] # None /\ surface = previous[r] /\ previous[r] # None /\ Whole(r)
            /\ Whole(Rollback(r))
      /\ transition # None => transition.r = r
      /\ current = Rollback(r) /\ Rollback(r) # r /\ marker[r] = "none" /\ ~receipt[r].activated
      /\ transition = None /\ schema \in Bundles
  BY <1>1, Typed DEF PrepareSnapshot, ProcInv, At, IntentProc, StagePcs, PrepareProc, CommandProc,
     SurfacesBefore, DiskInv, ReceiptInv, PreviousInv, current, Rollback, TypeOK
<1>3. transition' = [r |-> r, source |-> schema, state |-> "snapshot_ready"]
  BY <1>1, <1>2, Typed DEF PrepareSnapshot
<1>4. transition' \in Transition /\ transition' # None /\ transition'.r = r /\ transition'.source = schema
        /\ transition'.state = "snapshot_ready"
  BY <1>1, <1>2, <1>3, Typed, Absence DEF Transition
<1>5. UNCHANGED <<surface, bundle, staged, torn, previous, intent, pending, receipt, journal, marker, schema,
                 daemon, proc, outcome, superseded>>
  BY <1>1, <1>2, <1>3, <1>4, Typed DEF PrepareSnapshot, Unless, disk, records, database
<1> HIDE DEF r
<1>6. TypeOK'
  BY <1>1, <1>2, <1>3, <1>4, <1>5, Typed DEF TypeOK
<1>7. IntentInv'
  BY <1>1, <1>2, <1>3, <1>4, <1>5, Typed DEF DiskInv, IntentInv
<1>8. MarkerInv'
  BY <1>1, <1>2, <1>3, <1>4, <1>5, Typed DEF DiskInv, MarkerInv
<1>9. TransitionInv'
  BY <1>1, <1>2, <1>3, <1>4, <1>5, Typed
    DEF DiskInv, TransitionInv, Rollback, Back, CancelPhases, current, SchemaInv
<1>10. SchemaInv'
  BY <1>1, <1>2, <1>3, <1>4, <1>5, Typed DEF DiskInv, SchemaInv, Rollback, Back, CancelPhases, Forward, current
<1>11. PreviousInv' /\ ReceiptInv' /\ SurfaceInv' /\ CarriedInv'
  BY <1>1, <1>5, Frame DEF DiskInv
<1>12. ProcInv'
  BY <1>1, <1>2, <1>3, <1>4, <1>5, Typed
    DEF ProcInv, IntentProc, StageProc, CommandProc, BodyProc, PrepareProc, ActivateProc, UndoProc,
       FinalizeProc, AbortProc, CancelProc, CleanProc, StartProc, StagePcs, CancelPcs, CleanPcs, SourceOf,
       Rollback, CancelPhases, Forward, Back, Whole, SurfacesBefore, AllSurfaces, current
<1> QED
  BY <1>6, <1>7, <1>8, <1>9, <1>10, <1>11, <1>12 DEF IInv, DiskInv

LEMMA PrepareMigrateKeeps == IInv /\ PrepareMigrate => IInv'
<1> SUFFICES ASSUME IInv, PrepareMigrate PROVE IInv'
  OBVIOUS
<1> DEFINE r == proc.r
<1>1. TypeOK /\ DiskInv /\ ProcInv
  BY DEF IInv
<1>2. /\ proc # None /\ proc.cmd = "activate" /\ proc.pc = "prepare" /\ intent = None /\ r \in Receipts /\ r =
            proc.r
      /\ journal = None /\ receipt[r] # None /\ surface = previous[r] /\ previous[r] # None /\ Whole(r)
            /\ Whole(Rollback(r))
      /\ transition # None => transition.r = r
      /\ current = Rollback(r) /\ Rollback(r) # r /\ marker[r] = "none" /\ ~receipt[r].activated
      /\ transition # None /\ transition.state = "snapshot_ready" /\ transition \in Transition
  BY <1>1, Typed DEF PrepareMigrate, ProcInv, At, IntentProc, StagePcs, PrepareProc, CommandProc,
     SurfacesBefore, DiskInv, ReceiptInv, PreviousInv, current, Rollback
<1>3. /\ schema' = r
      /\ transition' = transition \/ (schema = r /\ transition' = [transition EXCEPT !.state =
            "ready_to_activate"])
  BY <1>1, <1>2, Typed DEF PrepareMigrate
<1>4. /\ transition' \in Transition /\ transition' # None /\ transition'.r = r /\ transition'.source =
            transition.source
      /\ transition'.state \in {"snapshot_ready", "ready_to_activate"}
  BY <1>1, <1>2, <1>3, Typed, Absence DEF Transition
<1>5. /\ schema' = r /\ r \in Bundles
      /\ UNCHANGED <<surface, bundle, staged, torn, previous, intent, pending, receipt, journal, marker,
                    daemon, proc, outcome, superseded>>
  BY <1>1, <1>2, <1>3, <1>4, Typed DEF PrepareMigrate, Unless, disk, records, database
<1> HIDE DEF r
<1>6. TypeOK'
  BY <1>1, <1>2, <1>3, <1>4, <1>5, Typed DEF TypeOK
<1>7. IntentInv'
  BY <1>1, <1>2, <1>3, <1>4, <1>5, Typed DEF DiskInv, IntentInv
<1>8. MarkerInv'
  BY <1>1, <1>2, <1>3, <1>4, <1>5, Typed DEF DiskInv, MarkerInv
<1>9. TransitionInv'
  BY <1>1, <1>2, <1>3, <1>4, <1>5, Typed DEF DiskInv, TransitionInv, Rollback, Back, CancelPhases, current
<1>10. SchemaInv'
  BY <1>1, <1>2, <1>3, <1>4, <1>5, Typed DEF DiskInv, SchemaInv, Rollback, Back, CancelPhases, Forward, current
<1>11. PreviousInv' /\ ReceiptInv' /\ SurfaceInv' /\ CarriedInv'
  BY <1>1, <1>5, Frame DEF DiskInv
<1>12. ProcInv'
  BY <1>1, <1>2, <1>3, <1>4, <1>5, Typed
    DEF ProcInv, IntentProc, StageProc, CommandProc, BodyProc, PrepareProc, ActivateProc, UndoProc,
       FinalizeProc, AbortProc, CancelProc, CleanProc, StartProc, StagePcs, CancelPcs, CleanPcs, SourceOf,
       Rollback, CancelPhases, Forward, Back, Whole, SurfacesBefore, AllSurfaces, current
<1> QED
  BY <1>6, <1>7, <1>8, <1>9, <1>10, <1>11, <1>12 DEF IInv, DiskInv

LEMMA PrepareFailsKeeps == IInv /\ PrepareFails => IInv'
<1> SUFFICES ASSUME IInv, PrepareFails PROVE IInv'
  OBVIOUS
<1> DEFINE r == proc.r
<1>1. TypeOK /\ DiskInv /\ ProcInv
  BY DEF IInv
<1>2. /\ proc # None /\ proc.cmd = "activate" /\ proc.pc = "prepare" /\ intent = None /\ r \in Receipts /\ r =
            proc.r
      /\ journal = None /\ receipt[r] # None /\ surface = previous[r] /\ previous[r] # None /\ Whole(r)
            /\ Whole(Rollback(r))
      /\ transition # None => transition.r = r
      /\ current = Rollback(r) /\ Rollback(r) # r /\ marker[r] = "none" /\ ~receipt[r].activated
      /\ transition # None
  BY <1>1, Typed DEF PrepareFails, ProcInv, At, IntentProc, StagePcs, PrepareProc, CommandProc,
     SurfacesBefore, DiskInv, ReceiptInv, PreviousInv, current, Rollback
<1>3. /\ proc' \in Process /\ proc' # None /\ proc'.cmd = proc.cmd /\ proc'.r = proc.r /\ proc'.rec = proc.rec
            /\ proc'.pc = "unprepare" /\ outcome' = outcome
      /\ UNCHANGED <<surface, bundle, staged, torn, previous, intent, pending, receipt, journal, marker,
                    schema, transition, daemon, outcome, superseded>>
  BY <1>1, <1>2, Typed, Goes DEF PrepareFails, Unless, disk, records, database, Pcs
<1> HIDE DEF r
<1>4. TypeOK'
  BY <1>1, <1>2, <1>3, Typed DEF TypeOK
<1>5. PreviousInv' /\ IntentInv' /\ ReceiptInv' /\ MarkerInv' /\ SurfaceInv' /\ CarriedInv' /\ TransitionInv'
        /\ SchemaInv'
  BY <1>1, <1>3, Frame DEF DiskInv
<1>6. ProcInv'
  BY <1>1, <1>2, <1>3, Typed
    DEF ProcInv, IntentProc, StageProc, CommandProc, BodyProc, PrepareProc, ActivateProc, UndoProc,
       FinalizeProc, AbortProc, CancelProc, CleanProc, StartProc, StagePcs, CancelPcs, CleanPcs, SourceOf,
       Rollback, CancelPhases, Forward, Back, Whole, SurfacesBefore, AllSurfaces, current
<1> QED
  BY <1>4, <1>5, <1>6 DEF IInv, DiskInv

LEMMA PrepareBindKeeps == IInv /\ PrepareBind => IInv'
<1> SUFFICES ASSUME IInv, PrepareBind PROVE IInv'
  OBVIOUS
<1> DEFINE r == proc.r
           file == [receipt[r] EXCEPT !.source = transition.source]
<1>1. TypeOK /\ DiskInv /\ ProcInv
  BY DEF IInv
<1>2. /\ proc # None /\ proc.cmd = "activate" /\ proc.pc = "prepare" /\ intent = None /\ r \in Receipts /\ r =
            proc.r
      /\ journal = None /\ receipt[r] # None /\ surface = previous[r] /\ previous[r] # None /\ Whole(r)
            /\ Whole(Rollback(r))
      /\ transition # None => transition.r = r
      /\ current = Rollback(r) /\ Rollback(r) # r /\ marker[r] = "none" /\ ~receipt[r].activated
      /\ transition # None /\ transition.state = "ready_to_activate" /\ receipt[r] \in Receipt
            /\ transition.source \in Bundles
  BY <1>1, Typed DEF PrepareBind, ProcInv, At, IntentProc, StagePcs, PrepareProc, CommandProc,
     SurfacesBefore, DiskInv, ReceiptInv, PreviousInv, current, Rollback
<1>0. CASE ~(receipt[r].source \in {None, transition.source})
  BY <1>0, <1>2, Refused DEF PrepareBind, Unless, records
<1>c. CASE receipt[r].source \in {None, transition.source}
  <2>1. /\ receipt' = [receipt EXCEPT ![r] = file]
        /\ Goto("begin")
    BY <1>1, <1>2, <1>c, Typed DEF PrepareBind
  <2>2. file \in Receipt /\ file # None /\ ~file.activated /\ file.source = transition.source
    BY <1>1, <1>2, <1>c, <2>1, Typed, Absence DEF Receipt
  <2>3. /\ receipt' = [receipt EXCEPT ![r] = file]
        /\ receipt'[r] = file /\ \A q \in Receipts : q # r => receipt'[q] = receipt[q]
        /\ proc' \in Process /\ proc' # None /\ proc'.cmd = proc.cmd /\ proc'.r = proc.r /\ proc'.rec =
              proc.rec /\ proc'.pc = "begin" /\ outcome' = outcome
        /\ UNCHANGED <<surface, bundle, staged, torn, previous, intent, pending, journal, marker, schema,
                      transition, daemon, outcome, superseded>>
    BY <1>1, <1>2, <1>c, <2>1, <2>2, Typed, Goes DEF PrepareBind, Unless, disk, records, database, Pcs
  <2> HIDE DEF r, file
  <2>4. TypeOK'
    BY <1>1, <1>2, <1>c, <2>1, <2>2, <2>3, Typed DEF TypeOK
  <2>5. PreviousInv'
    BY <1>1, <1>2, <1>c, <2>1, <2>2, <2>3, Typed DEF DiskInv, PreviousInv, Settled, Rollback
  <2>6. ReceiptInv'
    BY <1>1, <1>2, <1>c, <2>1, <2>2, <2>3, Typed
      DEF DiskInv, ReceiptInv, SourceOf, Rollback, CancelPhases, TransitionInv
  <2>7. SurfaceInv'
    BY <1>1, <1>2, <1>c, <2>1, <2>2, <2>3, Typed
      DEF DiskInv, SurfaceInv, Settled, Rollback, Back, CancelPhases, AllSurfaces, current, Whole
  <2>8. CarriedInv'
    BY <1>1, <1>2, <1>c, <2>1, <2>2, <2>3, Typed DEF DiskInv, CarriedInv, SourceOf, Rollback, CancelPhases
  <2>9. IntentInv' /\ MarkerInv' /\ TransitionInv' /\ SchemaInv'
    BY <1>1, <2>3, Frame DEF DiskInv
  <2>10. ProcInv'
    BY <1>1, <1>2, <1>c, <2>1, <2>2, <2>3, Typed
      DEF ProcInv, IntentProc, StageProc, CommandProc, BodyProc, PrepareProc, ActivateProc, UndoProc,
         FinalizeProc, AbortProc, CancelProc, CleanProc, StartProc, StagePcs, CancelPcs, CleanPcs,
         SourceOf, Rollback, CancelPhases, Forward, Back, Whole, SurfacesBefore, AllSurfaces, current
  <2> QED
    BY <2>4, <2>5, <2>6, <2>7, <2>8, <2>9, <2>10 DEF IInv, DiskInv
<1> QED
  BY <1>0, <1>c

LEMMA UnprepareKeeps == IInv /\ Unprepare => IInv'
<1> SUFFICES ASSUME IInv, Unprepare PROVE IInv'
  OBVIOUS
<1> DEFINE r == proc.r
<1>1. TypeOK /\ DiskInv /\ ProcInv
  BY DEF IInv
<1>2. /\ proc # None /\ proc.cmd = "activate" /\ proc.pc = "unprepare" /\ intent = None /\ r \in Receipts /\ r
            = proc.r
      /\ journal = None /\ receipt[r] # None /\ surface = previous[r] /\ previous[r] # None /\ Whole(r)
            /\ Whole(Rollback(r))
      /\ transition # None => transition.r = r
      /\ current = Rollback(r) /\ Rollback(r) # r /\ marker[r] = "none" /\ ~receipt[r].activated
      /\ transition # None /\ transition.state = "restored"
  BY <1>1, Typed DEF Unprepare, ProcInv, At, IntentProc, StagePcs, PrepareProc, CommandProc, SurfacesBefore,
     DiskInv, ReceiptInv, PreviousInv, current, Rollback
<1>3. /\ transition' = None
      /\ proc' = None /\ outcome' \in {"none", "done", "refused", "died"}
      /\ UNCHANGED <<surface, bundle, staged, torn, previous, intent, pending, receipt, journal, marker,
                    schema, daemon, superseded>>
  BY <1>1, <1>2, Typed, Ends DEF Unprepare, Unless, disk, records, database
<1> HIDE DEF r
<1>4. TypeOK'
  BY <1>1, <1>2, <1>3, Typed DEF TypeOK
<1>5. IntentInv'
  BY <1>1, <1>2, <1>3, Typed DEF DiskInv, IntentInv
<1>6. MarkerInv'
  BY <1>1, <1>2, <1>3, Typed DEF DiskInv, MarkerInv
<1>7. TransitionInv'
  BY <1>1, <1>2, <1>3, Typed DEF DiskInv, TransitionInv, Rollback, Back, CancelPhases, current
<1>8. SchemaInv'
  BY <1>1, <1>2, <1>3, Typed
    DEF DiskInv, SchemaInv, Rollback, Back, CancelPhases, Forward, current, TransitionInv
<1>9. PreviousInv' /\ ReceiptInv' /\ SurfaceInv' /\ CarriedInv'
  BY <1>1, <1>3, Frame DEF DiskInv
<1>10. ProcInv'
  BY <1>3 DEF ProcInv
<1> QED
  BY <1>4, <1>5, <1>6, <1>7, <1>8, <1>9, <1>10 DEF IInv, DiskInv

LEMMA ActivateJournalKeeps == IInv /\ ActivateJournal => IInv'
<1> SUFFICES ASSUME IInv, ActivateJournal PROVE IInv'
  OBVIOUS
<1> DEFINE r == proc.r
           file == receipt[proc.r]
<1>1. TypeOK /\ DiskInv /\ ProcInv
  BY DEF IInv
<1>2. /\ proc # None /\ proc.cmd = "activate" /\ proc.pc = "begin" /\ intent = None /\ r \in Receipts /\ r =
            proc.r
      /\ journal = None /\ receipt[r] # None /\ surface = previous[r] /\ previous[r] # None /\ Whole(r)
            /\ Whole(Rollback(r))
      /\ transition # None => transition.r = r
      /\ current = Rollback(r) /\ Rollback(r) # r /\ marker[r] = "none" /\ ~receipt[r].activated
      /\ transition # None /\ transition.state = "ready_to_activate" /\ schema = r
      /\ file \in Receipt /\ SourceOf(r, file) /\ ~file.activated /\ file = receipt[r] /\ previous[r] \in
            Snapshot
  BY <1>1, Typed DEF ActivateJournal, ProcInv, At, IntentProc, StagePcs, PrepareProc, CommandProc,
     SurfacesBefore, DiskInv, ReceiptInv, PreviousInv, current, Rollback, TransitionInv
<1>3. /\ journal' = [r |-> r, phase |-> "activating", rec |-> file]
      /\ proc' = [proc EXCEPT !.pc = "switch", !.rec = file]
  BY <1>1, <1>2, Typed DEF ActivateJournal
<1>4. journal' \in Journal /\ journal'.r = r /\ journal'.phase = "activating" /\ journal'.rec = file
  BY <1>1, <1>2, <1>3, Typed, Absence DEF Journal, Phases
<1>5. journal' # None
  BY <1>1, <1>2, <1>3, <1>4, Typed, Absence
<1>6. proc' \in Process /\ proc' # None /\ proc'.cmd = proc.cmd /\ proc'.r = r /\ proc'.pc = "switch"
         /\ proc'.rec = file
  <2>1. proc \in Process /\ "switch" \in Pcs /\ file \in Receipt /\ r = proc.r
    BY <1>1, <1>2, Typed DEF Pcs
  <2> HIDE DEF r, file
  <2> QED
    BY <1>3, <2>1, Absence DEF Process
<1>7. UNCHANGED <<surface, bundle, staged, torn, previous, intent, pending, receipt, marker, schema,
                 transition, daemon, outcome, superseded>>
  BY <1>1, <1>2, <1>3, <1>4, <1>5, <1>6, Typed DEF ActivateJournal, Unless, disk, records, database
<1> HIDE DEF r, file
<1>8. TypeOK'
  BY <1>1, <1>2, <1>3, <1>4, <1>5, <1>6, <1>7, Typed DEF TypeOK
<1>9. PreviousInv'
  BY <1>1, <1>2, <1>3, <1>4, <1>5, <1>6, <1>7, Typed DEF DiskInv, PreviousInv, Settled, Rollback
<1>10. IntentInv'
  BY <1>1, <1>2, <1>3, <1>4, <1>5, <1>6, <1>7, Typed DEF DiskInv, IntentInv
<1>11. ReceiptInv'
  BY <1>1, <1>2, <1>3, <1>4, <1>5, <1>6, <1>7, Typed DEF DiskInv, ReceiptInv, SourceOf, Rollback, CancelPhases
<1>12. MarkerInv'
  BY <1>1, <1>2, <1>3, <1>4, <1>5, <1>6, <1>7, Typed DEF DiskInv, MarkerInv
<1>13. SurfaceInv'
  BY <1>1, <1>2, <1>3, <1>4, <1>5, <1>6, <1>7, Typed
    DEF DiskInv, SurfaceInv, Settled, Rollback, Back, CancelPhases, AllSurfaces, current, Whole,
       PreviousInv
<1>14. CarriedInv'
  BY <1>1, <1>2, <1>3, <1>4, <1>5, <1>6, <1>7, Typed DEF DiskInv, CarriedInv, SourceOf, Rollback, CancelPhases
<1>15. TransitionInv'
  BY <1>1, <1>2, <1>3, <1>4, <1>5, <1>6, <1>7, Typed
    DEF DiskInv, TransitionInv, Rollback, Back, CancelPhases, current
<1>16. SchemaInv'
  BY <1>1, <1>2, <1>3, <1>4, <1>5, <1>6, <1>7, Typed
    DEF DiskInv, SchemaInv, Rollback, Back, CancelPhases, Forward, current
<1>17. ProcInv'
  BY <1>1, <1>2, <1>3, <1>4, <1>5, <1>6, <1>7, Typed
    DEF ProcInv, IntentProc, StageProc, CommandProc, BodyProc, PrepareProc, ActivateProc, UndoProc,
       FinalizeProc, AbortProc, CancelProc, CleanProc, StartProc, StagePcs, CancelPcs, CleanPcs, SourceOf,
       Rollback, CancelPhases, Forward, Back, Whole, SurfacesBefore, AllSurfaces, current
<1> QED
  BY <1>8, <1>9, <1>10, <1>11, <1>12, <1>13, <1>14, <1>15, <1>16, <1>17 DEF IInv, DiskInv

LEMMA ActivateSwitchKeeps == IInv /\ ActivateSwitch => IInv'
<1> SUFFICES ASSUME IInv, ActivateSwitch PROVE IInv'
  OBVIOUS
<1> DEFINE r == proc.r
           s == Min({t \in Surfaces : surface[t] # proc.r})
<1>1. TypeOK /\ DiskInv /\ ProcInv
  BY DEF IInv
<1>2. /\ proc # None /\ proc.cmd = "activate" /\ proc.pc = "switch" /\ intent = None /\ r \in Receipts /\ r =
            proc.r
      /\ journal # None /\ journal.r = r /\ journal.phase = "activating"
      /\ previous[r] # None /\ previous[r] \in Snapshot /\ Rollback(r) \in Bundles
      /\ ~AllSurfaces(r)
  BY <1>1, Typed DEF ActivateSwitch, ProcInv, At, IntentProc, StagePcs, ActivateProc, CommandProc, DiskInv,
     SurfaceInv
<1>3. /\ s \in Surfaces /\ surface' = [surface EXCEPT ![s] = r] /\ surface' \in Snapshot
      /\ UNCHANGED <<bundle, staged, torn, previous, intent, pending, receipt, journal, marker, schema,
                    transition, daemon, proc, outcome, superseded>>
  BY <1>1, <1>2, Typed, SurfaceSet DEF ActivateSwitch, Unless, disk, records, database
<1> HIDE DEF r, s
<1>4. TypeOK'
  BY <1>1, <1>2, <1>3, Typed DEF TypeOK
<1>5. SurfaceInv'
  BY <1>1, <1>2, <1>3, Typed
    DEF DiskInv, SurfaceInv, Settled, Rollback, Back, CancelPhases, AllSurfaces, current, Whole, TypeOK,
       Snapshot
<1>6. TransitionInv'
  BY <1>1, <1>2, <1>3, Typed DEF DiskInv, TransitionInv, Rollback, Back, CancelPhases, current
<1>7. SchemaInv'
  BY <1>1, <1>2, <1>3, Typed DEF DiskInv, SchemaInv, Rollback, Back, CancelPhases, Forward, current
<1>8. PreviousInv' /\ IntentInv' /\ ReceiptInv' /\ MarkerInv' /\ CarriedInv'
  BY <1>1, <1>3, Frame DEF DiskInv
<1>9. ProcInv'
  BY <1>1, <1>2, <1>3, Typed
    DEF ProcInv, IntentProc, StageProc, CommandProc, BodyProc, PrepareProc, ActivateProc, UndoProc,
       FinalizeProc, AbortProc, CancelProc, CleanProc, StartProc, StagePcs, CancelPcs, CleanPcs, SourceOf,
       Rollback, CancelPhases, Forward, Back, Whole, SurfacesBefore, AllSurfaces, current
<1> QED
  BY <1>4, <1>5, <1>6, <1>7, <1>8, <1>9 DEF IInv, DiskInv

LEMMA ActivatePreCommitKeeps == IInv /\ ActivatePreCommit => IInv'
<1> SUFFICES ASSUME IInv, ActivatePreCommit PROVE IInv'
  OBVIOUS
<1> DEFINE r == proc.r
<1>1. TypeOK /\ DiskInv /\ ProcInv
  BY DEF IInv
<1>2. /\ proc # None /\ proc.cmd = "activate" /\ proc.pc = "switch" /\ intent = None /\ r \in Receipts /\ r =
            proc.r
      /\ journal # None /\ journal.r = r /\ journal.phase = "activating"
      /\ previous[r] # None /\ previous[r] \in Snapshot /\ Rollback(r) \in Bundles
      /\ AllSurfaces(r) /\ journal \in Journal
  BY <1>1, Typed DEF ActivatePreCommit, ProcInv, At, IntentProc, StagePcs, ActivateProc, CommandProc,
     DiskInv, SurfaceInv
<1>3. journal' = [journal EXCEPT !.rec.activated = TRUE]
  BY <1>1, <1>2, Typed DEF ActivatePreCommit
<1>4. /\ journal' \in Journal /\ journal'.r = r /\ journal'.phase = "activating"
      /\ journal'.rec.activated /\ journal'.rec.source = journal.rec.source
  BY <1>1, <1>2, <1>3, Typed, JournalActivated, Absence DEF Receipt
<1>5. journal' # None
  BY <1>1, <1>2, <1>3, <1>4, Typed, Absence
<1>6. /\ proc' \in Process /\ proc' # None /\ proc'.cmd = proc.cmd /\ proc'.r = proc.r /\ proc'.rec = proc.rec
            /\ proc'.pc = "commit" /\ outcome' = outcome
      /\ UNCHANGED <<surface, bundle, staged, torn, previous, intent, pending, receipt, marker, schema,
                    transition, daemon, outcome, superseded>>
  BY <1>1, <1>2, <1>3, <1>4, <1>5, Typed, Goes DEF ActivatePreCommit, Unless, disk, records, database, Pcs
<1> HIDE DEF r
<1>7. TypeOK'
  BY <1>1, <1>2, <1>3, <1>4, <1>5, <1>6, Typed DEF TypeOK
<1>8. PreviousInv'
  BY <1>1, <1>2, <1>3, <1>4, <1>5, <1>6, Typed DEF DiskInv, PreviousInv, Settled, Rollback
<1>9. IntentInv'
  BY <1>1, <1>2, <1>3, <1>4, <1>5, <1>6, Typed DEF DiskInv, IntentInv
<1>10. ReceiptInv'
  BY <1>1, <1>2, <1>3, <1>4, <1>5, <1>6, Typed DEF DiskInv, ReceiptInv, SourceOf, Rollback, CancelPhases
<1>11. MarkerInv'
  BY <1>1, <1>2, <1>3, <1>4, <1>5, <1>6, Typed DEF DiskInv, MarkerInv
<1>12. SurfaceInv'
  BY <1>1, <1>2, <1>3, <1>4, <1>5, <1>6, Typed
    DEF DiskInv, SurfaceInv, Settled, Rollback, Back, CancelPhases, AllSurfaces, current, Whole
<1>13. CarriedInv'
  BY <1>1, <1>2, <1>3, <1>4, <1>5, <1>6, Typed DEF DiskInv, CarriedInv, SourceOf, Rollback, CancelPhases
<1>14. TransitionInv'
  BY <1>1, <1>2, <1>3, <1>4, <1>5, <1>6, Typed DEF DiskInv, TransitionInv, Rollback, Back, CancelPhases, current
<1>15. SchemaInv'
  BY <1>1, <1>2, <1>3, <1>4, <1>5, <1>6, Typed
    DEF DiskInv, SchemaInv, Rollback, Back, CancelPhases, Forward, current
<1>16. ProcInv'
  BY <1>1, <1>2, <1>3, <1>4, <1>5, <1>6, Typed
    DEF ProcInv, IntentProc, StageProc, CommandProc, BodyProc, PrepareProc, ActivateProc, UndoProc,
       FinalizeProc, AbortProc, CancelProc, CleanProc, StartProc, StagePcs, CancelPcs, CleanPcs, SourceOf,
       Rollback, CancelPhases, Forward, Back, Whole, SurfacesBefore, AllSurfaces, current
<1> QED
  BY <1>7, <1>8, <1>9, <1>10, <1>11, <1>12, <1>13, <1>14, <1>15, <1>16 DEF IInv, DiskInv

LEMMA ActivateCommitKeeps == IInv /\ ActivateCommit => IInv'
<1> SUFFICES ASSUME IInv, ActivateCommit PROVE IInv'
  OBVIOUS
<1> DEFINE r == proc.r
<1>1. TypeOK /\ DiskInv /\ ProcInv
  BY DEF IInv
<1>2. /\ proc # None /\ proc.cmd = "activate" /\ proc.pc = "commit" /\ intent = None /\ r \in Receipts /\ r =
            proc.r
      /\ journal # None /\ journal.r = r /\ journal.phase = "activating"
      /\ previous[r] # None /\ previous[r] \in Snapshot /\ Rollback(r) \in Bundles
      /\ AllSurfaces(r) /\ journal \in Journal /\ journal.rec.activated
  BY <1>1, Typed DEF ActivateCommit, ProcInv, At, IntentProc, StagePcs, ActivateProc, CommandProc, DiskInv,
     SurfaceInv
<1>3. journal' = [journal EXCEPT !.phase = "committed"]
  BY <1>1, <1>2, Typed DEF ActivateCommit
<1>4. journal' \in Journal /\ journal'.r = r /\ journal'.phase = "committed" /\ journal'.rec = journal.rec
  BY <1>1, <1>2, <1>3, Typed, Absence DEF Journal, Phases
<1>5. journal' # None
  BY <1>1, <1>2, <1>3, <1>4, Typed, Absence
<1>6. /\ proc' \in Process /\ proc' # None /\ proc'.cmd = proc.cmd /\ proc'.r = proc.r /\ proc'.rec = proc.rec
            /\ proc'.pc = "persist" /\ outcome' = outcome
      /\ UNCHANGED <<surface, bundle, staged, torn, previous, intent, pending, receipt, marker, schema,
                    transition, daemon, outcome, superseded>>
  BY <1>1, <1>2, <1>3, <1>4, <1>5, Typed, Goes DEF ActivateCommit, Unless, disk, records, database, Pcs
<1> HIDE DEF r
<1>7. TypeOK'
  BY <1>1, <1>2, <1>3, <1>4, <1>5, <1>6, Typed DEF TypeOK
<1>8. PreviousInv'
  BY <1>1, <1>2, <1>3, <1>4, <1>5, <1>6, Typed DEF DiskInv, PreviousInv, Settled, Rollback
<1>9. IntentInv'
  BY <1>1, <1>2, <1>3, <1>4, <1>5, <1>6, Typed DEF DiskInv, IntentInv
<1>10. ReceiptInv'
  BY <1>1, <1>2, <1>3, <1>4, <1>5, <1>6, Typed DEF DiskInv, ReceiptInv, SourceOf, Rollback, CancelPhases
<1>11. MarkerInv'
  BY <1>1, <1>2, <1>3, <1>4, <1>5, <1>6, Typed DEF DiskInv, MarkerInv
<1>12. SurfaceInv'
  BY <1>1, <1>2, <1>3, <1>4, <1>5, <1>6, Typed
    DEF DiskInv, SurfaceInv, Settled, Rollback, Back, CancelPhases, AllSurfaces, current, Whole
<1>13. CarriedInv'
  BY <1>1, <1>2, <1>3, <1>4, <1>5, <1>6, Typed DEF DiskInv, CarriedInv, SourceOf, Rollback, CancelPhases
<1>14. TransitionInv'
  BY <1>1, <1>2, <1>3, <1>4, <1>5, <1>6, Typed DEF DiskInv, TransitionInv, Rollback, Back, CancelPhases, current
<1>15. SchemaInv'
  BY <1>1, <1>2, <1>3, <1>4, <1>5, <1>6, Typed
    DEF DiskInv, SchemaInv, Rollback, Back, CancelPhases, Forward, current
<1>16. ProcInv'
  BY <1>1, <1>2, <1>3, <1>4, <1>5, <1>6, Typed
    DEF ProcInv, IntentProc, StageProc, CommandProc, BodyProc, PrepareProc, ActivateProc, UndoProc,
       FinalizeProc, AbortProc, CancelProc, CleanProc, StartProc, StagePcs, CancelPcs, CleanPcs, SourceOf,
       Rollback, CancelPhases, Forward, Back, Whole, SurfacesBefore, AllSurfaces, current
<1> QED
  BY <1>7, <1>8, <1>9, <1>10, <1>11, <1>12, <1>13, <1>14, <1>15, <1>16 DEF IInv, DiskInv

LEMMA ActivatePersistKeeps == IInv /\ ActivatePersist => IInv'
<1> SUFFICES ASSUME IInv, ActivatePersist PROVE IInv'
  OBVIOUS
<1> DEFINE r == proc.r
           file == journal.rec
<1>1. TypeOK /\ DiskInv /\ ProcInv
  BY DEF IInv
<1>2. /\ proc # None /\ proc.cmd = "activate" /\ proc.pc = "persist" /\ intent = None /\ r \in Receipts /\ r =
            proc.r
      /\ journal # None /\ journal.r = r /\ journal.phase = "committed"
      /\ previous[r] # None /\ previous[r] \in Snapshot /\ Rollback(r) \in Bundles
      /\ file \in Receipt /\ file # None /\ file.activated /\ SourceOf(r, file) /\ file = journal.rec
  BY <1>1, Typed, ReceiptFields
    DEF ActivatePersist, ProcInv, At, IntentProc, StagePcs, ActivateProc, CommandProc, DiskInv,
       SurfaceInv, CarriedInv
<1>3. /\ receipt' = [receipt EXCEPT ![r] = file]
      /\ receipt'[r] = file /\ \A q \in Receipts : q # r => receipt'[q] = receipt[q]
      /\ proc' = None /\ outcome' \in {"none", "done", "refused", "died"}
      /\ UNCHANGED <<surface, bundle, staged, torn, previous, intent, pending, journal, marker, schema,
                    transition, daemon, superseded>>
  BY <1>1, <1>2, Typed, Ends DEF ActivatePersist, Unless, disk, records, database
<1> HIDE DEF r, file
<1>4. TypeOK'
  BY <1>1, <1>2, <1>3, Typed DEF TypeOK
<1>5. PreviousInv'
  BY <1>1, <1>2, <1>3, Typed DEF DiskInv, PreviousInv, Settled, Rollback
<1>6. ReceiptInv'
  BY <1>1, <1>2, <1>3, Typed DEF DiskInv, ReceiptInv, SourceOf, Rollback, CancelPhases
<1>7. SurfaceInv'
  BY <1>1, <1>2, <1>3, Typed
    DEF DiskInv, SurfaceInv, Settled, Rollback, Back, CancelPhases, AllSurfaces, current, Whole
<1>8. CarriedInv'
  BY <1>1, <1>2, <1>3, Typed DEF DiskInv, CarriedInv, SourceOf, Rollback, CancelPhases
<1>9. IntentInv' /\ MarkerInv' /\ TransitionInv' /\ SchemaInv'
  BY <1>1, <1>3, Frame DEF DiskInv
<1>10. ProcInv'
  BY <1>3 DEF ProcInv
<1> QED
  BY <1>4, <1>5, <1>6, <1>7, <1>8, <1>9, <1>10 DEF IInv, DiskInv

LEMMA ActivateFailsKeeps == IInv /\ ActivateFails => IInv'
<1> SUFFICES ASSUME IInv, ActivateFails PROVE IInv'
  OBVIOUS
<1> DEFINE r == proc.r
<1>1. TypeOK /\ DiskInv /\ ProcInv
  BY DEF IInv
<1>2. /\ proc # None /\ proc.cmd = "activate" /\ proc.pc \in {"switch", "commit"} /\ intent = None /\ r \in
            Receipts /\ r = proc.r
      /\ journal # None /\ journal.r = r /\ journal.phase = "activating"
      /\ marker[r] # "finalized"
      /\ SourceOf(r, proc.rec)
  BY <1>1, Typed DEF ActivateFails, ProcInv, At, IntentProc, StagePcs, ActivateProc, CommandProc, DiskInv,
     SurfaceInv, MarkerInv
<1>3. proc' = [proc EXCEPT !.cmd = "failed", !.pc = "restore"]
  BY <1>1, <1>2, Typed DEF ActivateFails
<1>4. proc' \in Process /\ proc' # None /\ proc'.cmd = "failed" /\ proc'.r = proc.r /\ proc'.pc = "restore"
         /\ proc'.rec = proc.rec
  <2>1. proc \in Process /\ "restore" \in Pcs /\ "failed" \in Commands
    BY <1>1, <1>2, Typed DEF Pcs, Commands
  <2> QED
    BY <1>3, <2>1, Absence DEF Process
<1>5. UNCHANGED <<surface, bundle, staged, torn, previous, intent, pending, receipt, journal, marker, schema,
                 transition, daemon, outcome, superseded>>
  BY <1>1, <1>2, <1>3, <1>4, Typed DEF ActivateFails, Unless, disk, records, database
<1> HIDE DEF r
<1>6. TypeOK'
  BY <1>1, <1>2, <1>3, <1>4, <1>5, Typed DEF TypeOK
<1>7. PreviousInv' /\ IntentInv' /\ ReceiptInv' /\ MarkerInv' /\ SurfaceInv' /\ CarriedInv' /\ TransitionInv'
        /\ SchemaInv'
  BY <1>1, <1>5, Frame DEF DiskInv
<1>8. ProcInv'
  BY <1>1, <1>2, <1>3, <1>4, <1>5, Typed
    DEF ProcInv, IntentProc, StageProc, CommandProc, BodyProc, PrepareProc, ActivateProc, UndoProc,
       FinalizeProc, AbortProc, CancelProc, CleanProc, StartProc, StagePcs, CancelPcs, CleanPcs, SourceOf,
       Rollback, CancelPhases, Forward, Back, Whole, SurfacesBefore, AllSurfaces, current
<1> QED
  BY <1>6, <1>7, <1>8 DEF IInv, DiskInv

LEMMA RestoreDatabaseKeeps == IInv /\ RestoreDatabase => IInv'
<1> SUFFICES ASSUME IInv, RestoreDatabase PROVE IInv'
  OBVIOUS
<1>1. TypeOK /\ DiskInv /\ ProcInv
  BY DEF IInv
<1>2. /\ proc # None /\ intent = None
      /\ \/ proc.cmd = "activate" /\ proc.pc = "unprepare"
         \/ proc.cmd = "abort" /\ proc.pc = "database"
         \/ proc.cmd = "start" /\ proc.pc = "database"
         \/ proc.cmd = "abort" /\ proc.pc = "cancel-database"
      /\ transition # None /\ transition \in Transition /\ transition.source \in Bundles /\ schema \in Bundles
      /\ journal # None => journal.phase \in {"aborting", "cancelling"}
  BY <1>1, Typed DEF RestoreDatabase, ProcInv, TypeOK, RestoresDatabase, At, IntentProc, StagePcs,
     CancelPcs, PrepareProc, AbortProc, StartProc, CancelProc
<1>3. /\ \/ schema' = schema /\ transition' = [transition EXCEPT !.state = "restoring"]
         \/ schema' = transition.source /\ transition' = transition /\ transition.state = "restoring"
         \/ schema' = schema /\ transition' = [transition EXCEPT !.state = "restored"] /\ schema =
           transition.source
  BY <1>1, <1>2, Typed DEF RestoreDatabase, RestoreDatabaseStep
<1>4. /\ transition' \in Transition /\ transition'.r = transition.r /\ transition'.source = transition.source
      /\ transition'.state \in {"restoring", "restored"}
      /\ transition'.state = "restored" => schema' = transition.source
  BY <1>1, <1>2, <1>3, Typed, Absence DEF Transition
<1>5. transition' # None
  BY <1>1, <1>2, <1>3, <1>4, Typed, Absence
<1>6. /\ schema' \in {schema, transition.source} /\ schema' \in Bundles
      /\ UNCHANGED <<surface, bundle, staged, torn, previous, intent, pending, receipt, journal, marker,
                    daemon, proc, outcome, superseded>>
  BY <1>1, <1>2, <1>3, <1>4, <1>5, Typed DEF RestoreDatabase, Unless, disk, records, database
<1>7. TypeOK'
  BY <1>1, <1>2, <1>3, <1>4, <1>5, <1>6, Typed DEF TypeOK
<1>8. IntentInv'
  BY <1>1, <1>2, <1>3, <1>4, <1>5, <1>6, Typed DEF DiskInv, IntentInv
<1>9. MarkerInv'
  BY <1>1, <1>2, <1>3, <1>4, <1>5, <1>6, Typed DEF DiskInv, MarkerInv
<1>10. TransitionInv'
  BY <1>1, <1>2, <1>3, <1>4, <1>5, <1>6, Typed DEF DiskInv, TransitionInv, Rollback, Back, CancelPhases, current
<1>11. SchemaInv'
  BY <1>1, <1>2, <1>3, <1>4, <1>5, <1>6, Typed
    DEF DiskInv, SchemaInv, Rollback, Back, CancelPhases, Forward, current
<1>12. PreviousInv' /\ ReceiptInv' /\ SurfaceInv' /\ CarriedInv'
  BY <1>1, <1>6, Frame DEF DiskInv
<1>13. ProcInv'
  BY <1>1, <1>2, <1>3, <1>4, <1>5, <1>6, Typed
    DEF ProcInv, IntentProc, StageProc, CommandProc, BodyProc, PrepareProc, ActivateProc, UndoProc,
       FinalizeProc, AbortProc, CancelProc, CleanProc, StartProc, StagePcs, CancelPcs, CleanPcs, SourceOf,
       Rollback, CancelPhases, Forward, Back, Whole, SurfacesBefore, AllSurfaces, current
<1> QED
  BY <1>7, <1>8, <1>9, <1>10, <1>11, <1>12, <1>13 DEF IInv, DiskInv

-----------------------------------------------------------------------------
\* Finalization, behind a proof of the live daemon.
LEMMA FinalizeBeginKeeps == IInv /\ FinalizeBegin => IInv'
<1> SUFFICES ASSUME IInv, FinalizeBegin PROVE IInv'
  OBVIOUS
<1> DEFINE r == proc.r
           file == receipt[proc.r]
<1>1. TypeOK /\ DiskInv /\ ProcInv
  BY DEF IInv
<1>2. proc # None /\ proc.cmd = "finalize" /\ intent = None /\ r \in Receipts /\ r = proc.r /\ proc.pc = "body"
  BY <1>1, Typed DEF FinalizeBegin, ProcInv, At, IntentProc, StagePcs, CommandProc
<1>0. CASE ~(receipt[r] # None /\ receipt[r].activated /\ OnDisk(Rollback(r)) /\ LiveProof(r))
  BY <1>0, <1>2, Refused DEF FinalizeBegin, Unless, records
<1>c. CASE receipt[r] # None /\ receipt[r].activated /\ OnDisk(Rollback(r)) /\ LiveProof(r)
  <2>1. /\ journal # None /\ journal.r = r /\ journal.phase = "committed"
        /\ AllSurfaces(r) /\ Whole(r) /\ file \in Receipt /\ file # None /\ file.activated /\ file =
              receipt[r] /\ SourceOf(r, file)
        /\ journal' = [r |-> r, phase |-> "finalizing", rec |-> file]
        /\ Goto("recheck")
    BY <1>1, <1>2, <1>c, Typed
      DEF FinalizeBegin, LiveProof, ProcInv, BodyProc, DiskInv, ReceiptInv, CancelPhases, AbortPhases
  <2>2. journal' \in Journal /\ journal'.r = r /\ journal'.phase = "finalizing" /\ journal'.rec = file
    BY <1>1, <1>2, <1>c, <2>1, Typed, Absence DEF Journal, Phases
  <2>3. journal' # None
    BY <1>1, <1>2, <1>c, <2>1, <2>2, Typed, Absence
  <2>4. proc' \in Process /\ proc' # None /\ proc'.cmd = proc.cmd /\ proc'.r = proc.r /\ proc'.rec = proc.rec
           /\ proc'.pc = "recheck" /\ outcome' = outcome
    BY <1>1, <1>2, <1>c, <2>1, <2>2, <2>3, Typed, Goes, Absence DEF Pcs
  <2>5. /\ previous[r] # None
        /\ UNCHANGED <<surface, bundle, staged, torn, previous, intent, pending, receipt, marker, schema,
                      transition, daemon, outcome, superseded>>
    BY <1>1, <1>2, <1>c, <2>1, <2>2, <2>3, <2>4, Typed, Goes
      DEF FinalizeBegin, Unless, disk, records, database, Pcs, DiskInv, SurfaceInv
  <2> HIDE DEF r, file
  <2>6. TypeOK'
    BY <1>1, <1>2, <1>c, <2>1, <2>2, <2>3, <2>4, <2>5, Typed DEF TypeOK
  <2>7. PreviousInv'
    BY <1>1, <1>2, <1>c, <2>1, <2>2, <2>3, <2>4, <2>5, Typed DEF DiskInv, PreviousInv, Settled, Rollback
  <2>8. IntentInv'
    BY <1>1, <1>2, <1>c, <2>1, <2>2, <2>3, <2>4, <2>5, Typed DEF DiskInv, IntentInv
  <2>9. ReceiptInv'
    BY <1>1, <1>2, <1>c, <2>1, <2>2, <2>3, <2>4, <2>5, Typed
      DEF DiskInv, ReceiptInv, SourceOf, Rollback, CancelPhases
  <2>10. MarkerInv'
    BY <1>1, <1>2, <1>c, <2>1, <2>2, <2>3, <2>4, <2>5, Typed DEF DiskInv, MarkerInv
  <2>11. SurfaceInv'
    BY <1>1, <1>2, <1>c, <2>1, <2>2, <2>3, <2>4, <2>5, Typed
      DEF DiskInv, SurfaceInv, Settled, Rollback, Back, CancelPhases, AllSurfaces, current, Whole
  <2>12. CarriedInv'
    BY <1>1, <1>2, <1>c, <2>1, <2>2, <2>3, <2>4, <2>5, Typed
      DEF DiskInv, CarriedInv, SourceOf, Rollback, CancelPhases
  <2>13. TransitionInv'
    BY <1>1, <1>2, <1>c, <2>1, <2>2, <2>3, <2>4, <2>5, Typed
      DEF DiskInv, TransitionInv, Rollback, Back, CancelPhases, current
  <2>14. SchemaInv'
    BY <1>1, <1>2, <1>c, <2>1, <2>2, <2>3, <2>4, <2>5, Typed
      DEF DiskInv, SchemaInv, Rollback, Back, CancelPhases, Forward, current
  <2>15. ProcInv'
    BY <1>1, <1>2, <1>c, <2>1, <2>2, <2>3, <2>4, <2>5, Typed
      DEF ProcInv, IntentProc, StageProc, CommandProc, BodyProc, PrepareProc, ActivateProc, UndoProc,
         FinalizeProc, AbortProc, CancelProc, CleanProc, StartProc, StagePcs, CancelPcs, CleanPcs,
         SourceOf, Rollback, CancelPhases, Forward, Back, Whole, SurfacesBefore, AllSurfaces, current
  <2> QED
    BY <2>6, <2>7, <2>8, <2>9, <2>10, <2>11, <2>12, <2>13, <2>14, <2>15 DEF IInv, DiskInv
<1> QED
  BY <1>0, <1>c

LEMMA FinalizeProvesKeeps == IInv /\ FinalizeProves => IInv'
<1> SUFFICES ASSUME IInv, FinalizeProves PROVE IInv'
  OBVIOUS
<1> DEFINE r == proc.r
<1>1. TypeOK /\ DiskInv /\ ProcInv
  BY DEF IInv
<1>2. /\ proc # None /\ proc.cmd = "finalize" /\ intent = None /\ r \in Receipts /\ r = proc.r /\ proc.pc \in
            {"body", "recheck"}
      /\ journal # None /\ journal.r = r /\ journal.phase \in {"finalizing", "finalize-cleanup"} /\ journal
            \in Journal
  BY <1>1, Typed DEF FinalizeProves, ProcInv, At, IntentProc, StagePcs, CommandProc, FinalizeProc, CleanPcs,
     DiskInv, SurfaceInv, PreviousInv, Back, CancelPhases, BodyProc
<1>0. CASE ~(LiveProof(r) /\ NothingElse(r))
  BY <1>0, <1>2, Refused DEF FinalizeProves, Unless, records
<1>c. CASE LiveProof(r) /\ NothingElse(r)
  <2>1. /\ AllSurfaces(r)
        /\ journal' = [journal EXCEPT !.phase = "finalize-cleanup"]
        /\ Goto("clean")
    BY <1>1, <1>2, <1>c, Typed DEF FinalizeProves, LiveProof
  <2>2. journal' \in Journal /\ journal'.r = r /\ journal'.phase = "finalize-cleanup" /\ journal'.rec =
          journal.rec
    BY <1>1, <1>2, <1>c, <2>1, Typed, Absence DEF Journal, Phases
  <2>3. journal' # None
    BY <1>1, <1>2, <1>c, <2>1, <2>2, Typed, Absence
  <2>4. proc' \in Process /\ proc' # None /\ proc'.cmd = proc.cmd /\ proc'.r = proc.r /\ proc'.rec = proc.rec
           /\ proc'.pc = "clean" /\ outcome' = outcome
    BY <1>1, <1>2, <1>c, <2>1, <2>2, <2>3, Typed, Goes, Absence DEF Pcs
  <2>5. UNCHANGED <<surface, bundle, staged, torn, previous, intent, pending, receipt, marker, schema,
                   transition, daemon, outcome, superseded>>
    BY <1>1, <1>2, <1>c, <2>1, <2>2, <2>3, <2>4, Typed, Goes
      DEF FinalizeProves, Unless, disk, records, database, Pcs
  <2> HIDE DEF r
  <2>6. TypeOK'
    BY <1>1, <1>2, <1>c, <2>1, <2>2, <2>3, <2>4, <2>5, Typed DEF TypeOK
  <2>7. PreviousInv'
    BY <1>1, <1>2, <1>c, <2>1, <2>2, <2>3, <2>4, <2>5, Typed DEF DiskInv, PreviousInv, Settled, Rollback
  <2>8. IntentInv'
    BY <1>1, <1>2, <1>c, <2>1, <2>2, <2>3, <2>4, <2>5, Typed DEF DiskInv, IntentInv
  <2>9. ReceiptInv'
    BY <1>1, <1>2, <1>c, <2>1, <2>2, <2>3, <2>4, <2>5, Typed
      DEF DiskInv, ReceiptInv, SourceOf, Rollback, CancelPhases
  <2>10. MarkerInv'
    BY <1>1, <1>2, <1>c, <2>1, <2>2, <2>3, <2>4, <2>5, Typed DEF DiskInv, MarkerInv
  <2>11. SurfaceInv'
    BY <1>1, <1>2, <1>c, <2>1, <2>2, <2>3, <2>4, <2>5, Typed
      DEF DiskInv, SurfaceInv, Settled, Rollback, Back, CancelPhases, AllSurfaces, current, Whole
  <2>12. CarriedInv'
    BY <1>1, <1>2, <1>c, <2>1, <2>2, <2>3, <2>4, <2>5, Typed
      DEF DiskInv, CarriedInv, SourceOf, Rollback, CancelPhases
  <2>13. TransitionInv'
    BY <1>1, <1>2, <1>c, <2>1, <2>2, <2>3, <2>4, <2>5, Typed
      DEF DiskInv, TransitionInv, Rollback, Back, CancelPhases, current
  <2>14. SchemaInv'
    BY <1>1, <1>2, <1>c, <2>1, <2>2, <2>3, <2>4, <2>5, Typed
      DEF DiskInv, SchemaInv, Rollback, Back, CancelPhases, Forward, current
  <2>15. ProcInv'
    BY <1>1, <1>2, <1>c, <2>1, <2>2, <2>3, <2>4, <2>5, Typed
      DEF ProcInv, IntentProc, StageProc, CommandProc, BodyProc, PrepareProc, ActivateProc, UndoProc,
         FinalizeProc, AbortProc, CancelProc, CleanProc, StartProc, StagePcs, CancelPcs, CleanPcs,
         SourceOf, Rollback, CancelPhases, Forward, Back, Whole, SurfacesBefore, AllSurfaces, current
  <2> QED
    BY <2>6, <2>7, <2>8, <2>9, <2>10, <2>11, <2>12, <2>13, <2>14, <2>15 DEF IInv, DiskInv
<1> QED
  BY <1>0, <1>c

LEMMA FinalizeRemovesBundleKeeps == IInv /\ FinalizeRemovesBundle => IInv'
<1> SUFFICES ASSUME IInv, FinalizeRemovesBundle PROVE IInv'
  OBVIOUS
<1> DEFINE r == proc.r
<1>1. TypeOK /\ DiskInv /\ ProcInv
  BY DEF IInv
<1>2. /\ proc # None /\ proc.cmd = "finalize" /\ intent = None /\ r \in Receipts /\ r = proc.r /\ proc.pc =
            "clean"
      /\ journal # None /\ journal.r = r /\ journal.phase = "finalize-cleanup" /\ AllSurfaces(r) /\ Whole(r)
            /\ previous[r] # None /\ Rollback(r) # r
  BY <1>1, Typed DEF FinalizeRemovesBundle, ProcInv, At, IntentProc, StagePcs, CommandProc, FinalizeProc,
     CleanPcs, DiskInv, SurfaceInv, PreviousInv, Back, CancelPhases
<1>3. /\ bundle' \in [Bundles -> {"absent", "temp", "present", "partial"}]
      /\ \A b \in Bundles : bundle'[b] = bundle[b] \/ (bundle[b] \in {"present", "partial"} /\ bundle'[b] \in
            {"partial", "absent"})
      /\ bundle'[r] = bundle[r]
      /\ UNCHANGED <<surface, staged, torn, previous, intent, pending, receipt, journal, marker, schema,
                    transition, daemon, proc, outcome, superseded>>
  BY <1>1, <1>2, Typed DEF FinalizeRemovesBundle, Unless, disk, records, database, Others, RemoveBundle, OnDisk
<1> HIDE DEF r
<1>4. TypeOK'
  BY <1>1, <1>2, <1>3, Typed DEF TypeOK
<1>5. PreviousInv'
  BY <1>1, <1>2, <1>3, Typed DEF DiskInv, PreviousInv, Settled, Rollback
<1>6. MarkerInv'
  BY <1>1, <1>2, <1>3, Typed DEF DiskInv, MarkerInv
<1>7. SurfaceInv'
  BY <1>1, <1>2, <1>3, Typed
    DEF DiskInv, SurfaceInv, Settled, Rollback, Back, CancelPhases, AllSurfaces, current, Whole
<1>8. TransitionInv'
  BY <1>1, <1>2, <1>3, Typed DEF DiskInv, TransitionInv, Rollback, Back, CancelPhases, current
<1>9. IntentInv' /\ ReceiptInv' /\ CarriedInv' /\ SchemaInv'
  BY <1>1, <1>3, Frame DEF DiskInv
<1>10. ProcInv'
  BY <1>1, <1>2, <1>3, Typed
    DEF ProcInv, IntentProc, StageProc, CommandProc, BodyProc, PrepareProc, ActivateProc, UndoProc,
       FinalizeProc, AbortProc, CancelProc, CleanProc, StartProc, StagePcs, CancelPcs, CleanPcs, SourceOf,
       Rollback, CancelPhases, Forward, Back, Whole, SurfacesBefore, AllSurfaces, current
<1> QED
  BY <1>4, <1>5, <1>6, <1>7, <1>8, <1>9, <1>10 DEF IInv, DiskInv

LEMMA FinalizeRemovesStagedKeeps == IInv /\ FinalizeRemovesStaged => IInv'
<1> SUFFICES ASSUME IInv, FinalizeRemovesStaged PROVE IInv'
  OBVIOUS
<1> DEFINE r == proc.r
<1>1. TypeOK /\ DiskInv /\ ProcInv
  BY DEF IInv
<1>2. /\ proc # None /\ proc.cmd = "finalize" /\ intent = None /\ r \in Receipts /\ r = proc.r /\ proc.pc =
            "clean"
      /\ journal # None /\ journal.r = r /\ journal.phase = "finalize-cleanup" /\ AllSurfaces(r) /\ Whole(r)
            /\ previous[r] # None /\ Rollback(r) # r
  BY <1>1, Typed DEF FinalizeRemovesStaged, ProcInv, At, IntentProc, StagePcs, CommandProc, FinalizeProc,
     CleanPcs, DiskInv, SurfaceInv, PreviousInv, Back, CancelPhases
<1>3. /\ staged' \in [Receipts -> SUBSET StagedFiles] /\ \A q \in Receipts : staged'[q] \subseteq staged[q]
      /\ UNCHANGED <<surface, bundle, torn, previous, intent, pending, receipt, journal, marker, schema,
                    transition, daemon, proc, outcome, superseded>>
  BY <1>1, <1>2, Typed DEF FinalizeRemovesStaged, Unless, disk, records, database, TypeOK
<1> HIDE DEF r
<1>4. TypeOK'
  BY <1>1, <1>2, <1>3, Typed DEF TypeOK
<1>5. MarkerInv'
  BY <1>1, <1>2, <1>3, Typed DEF DiskInv, MarkerInv
<1>6. PreviousInv' /\ IntentInv' /\ ReceiptInv' /\ SurfaceInv' /\ CarriedInv' /\ TransitionInv' /\ SchemaInv'
  BY <1>1, <1>3, Frame DEF DiskInv
<1>7. ProcInv'
  BY <1>1, <1>2, <1>3, Typed
    DEF ProcInv, IntentProc, StageProc, CommandProc, BodyProc, PrepareProc, ActivateProc, UndoProc,
       FinalizeProc, AbortProc, CancelProc, CleanProc, StartProc, StagePcs, CancelPcs, CleanPcs, SourceOf,
       Rollback, CancelPhases, Forward, Back, Whole, SurfacesBefore, AllSurfaces, current
<1> QED
  BY <1>4, <1>5, <1>6, <1>7 DEF IInv, DiskInv

LEMMA FinalizeMarksKeeps == IInv /\ FinalizeMarks => IInv'
<1> SUFFICES ASSUME IInv, FinalizeMarks PROVE IInv'
  OBVIOUS
<1> DEFINE r == proc.r
<1>1. TypeOK /\ DiskInv /\ ProcInv
  BY DEF IInv
<1>2. /\ proc # None /\ proc.cmd = "finalize" /\ intent = None /\ r \in Receipts /\ r = proc.r /\ proc.pc =
            "clean"
      /\ journal # None /\ journal.r = r /\ journal.phase = "finalize-cleanup" /\ AllSurfaces(r) /\ Whole(r)
            /\ previous[r] # None /\ Rollback(r) # r
      /\ staged[r] = {} /\ Others(r) = {} /\ bundle[Rollback(r)] = "absent"
  BY <1>1, Typed DEF FinalizeMarks, ProcInv, At, IntentProc, StagePcs, CommandProc, FinalizeProc, CleanPcs,
     DiskInv, SurfaceInv, PreviousInv, Back, CancelPhases, Others, OnDisk, Settled
<1>3. marker' = [q \in Receipts |-> IF q = r THEN "finalized" ELSE IF marker[q] = "finalized" THEN "none" ELSE
        marker[q]]
  BY <1>1, <1>2, Typed DEF FinalizeMarks
<1>4. /\ marker' \in [Receipts -> {"none", "finalized", "aborted"}] /\ marker'[r] = "finalized"
      /\ \A q \in Receipts : q # r => marker'[q] = IF marker[q] = "finalized" THEN "none" ELSE marker[q]
  BY <1>1, <1>2, <1>3, Typed, Absence
<1>5. /\ proc' \in Process /\ proc' # None /\ proc'.cmd = proc.cmd /\ proc'.r = proc.r /\ proc'.rec = proc.rec
            /\ proc'.pc = "drop" /\ outcome' = outcome
      /\ UNCHANGED <<surface, bundle, staged, torn, previous, intent, pending, receipt, journal, schema,
                    transition, daemon, outcome, superseded>>
  BY <1>1, <1>2, <1>3, <1>4, Typed, Goes DEF FinalizeMarks, Unless, disk, records, database, Pcs
<1> HIDE DEF r
<1>6. TypeOK'
  BY <1>1, <1>2, <1>3, <1>4, <1>5, Typed DEF TypeOK
<1>7. PreviousInv'
  BY <1>1, <1>2, <1>3, <1>4, <1>5, Typed DEF DiskInv, PreviousInv, Settled, Rollback
<1>8. IntentInv'
  BY <1>1, <1>2, <1>3, <1>4, <1>5, Typed DEF DiskInv, IntentInv
<1>9. ReceiptInv'
  BY <1>1, <1>2, <1>3, <1>4, <1>5, Typed DEF DiskInv, ReceiptInv, SourceOf, Rollback, CancelPhases
<1>10. MarkerInv'
  BY <1>1, <1>2, <1>3, <1>4, <1>5, Typed DEF DiskInv, MarkerInv
<1>11. SurfaceInv'
  BY <1>1, <1>2, <1>3, <1>4, <1>5, Typed
    DEF DiskInv, SurfaceInv, Settled, Rollback, Back, CancelPhases, AllSurfaces, current, Whole
<1>12. CarriedInv' /\ TransitionInv' /\ SchemaInv'
  BY <1>1, <1>5, Frame DEF DiskInv
<1>13. ProcInv'
  BY <1>1, <1>2, <1>3, <1>4, <1>5, Typed
    DEF ProcInv, IntentProc, StageProc, CommandProc, BodyProc, PrepareProc, ActivateProc, UndoProc,
       FinalizeProc, AbortProc, CancelProc, CleanProc, StartProc, StagePcs, CancelPcs, CleanPcs, SourceOf,
       Rollback, CancelPhases, Forward, Back, Whole, SurfacesBefore, AllSurfaces, current
<1> QED
  BY <1>6, <1>7, <1>8, <1>9, <1>10, <1>11, <1>12, <1>13 DEF IInv, DiskInv

-----------------------------------------------------------------------------
\* The end of a finalization and of an abort: the journal goes last.
LEMMA FinalizeDropsJournal ==
  ASSUME IInv, At("finalize", "end")
  PROVE  LET j == journal.r IN
         /\ journal # None /\ intent = None /\ receipt[j] = None /\ previous[j] # None
         /\ current = j /\ AllSurfaces(j) /\ Whole(j) /\ marker[j] # "aborted"
         /\ bundle[Rollback(j)] = "absent" /\ schema = j
<1> DEFINE j == journal.r
<1>1. TypeOK /\ DiskInv /\ ProcInv
  BY DEF IInv
<1>2. /\ journal # None /\ j = proc.r /\ journal.phase = "finalize-cleanup" /\ j \in Receipts
      /\ AllSurfaces(j) /\ bundle[Rollback(j)] = "absent" /\ receipt[j] = None /\ intent = None
  BY <1>1, Typed DEF ProcInv, FinalizeProc, IntentProc, At, StagePcs, CleanPcs
<1>3. previous[j] # None /\ Whole(j) /\ marker[j] # "aborted" /\ schema = j
  BY <1>1, <1>2, Typed DEF DiskInv, SurfaceInv, MarkerInv, SchemaInv, Back, CancelPhases, Forward
<1>4. current = j
  BY <1>2 DEF AllSurfaces, current, Surfaces
<1> QED
  BY <1>2, <1>3, <1>4

LEMMA DropReceiptKeeps == IInv /\ DropReceipt => IInv'
<1> SUFFICES ASSUME IInv, DropReceipt PROVE IInv'
  OBVIOUS
<1> DEFINE r == proc.r
<1>1. TypeOK /\ DiskInv /\ ProcInv
  BY DEF IInv
<1>2. /\ proc # None /\ proc.pc = "drop" /\ proc.cmd \in {"finalize", "abort"} /\ intent = None /\ r \in
            Receipts /\ r = proc.r
      /\ journal # None /\ journal.r = r /\ journal.phase \in {"finalize-cleanup", "abort-cleanup",
            "cancel-cleanup"}
  BY <1>1, Typed DEF DropReceipt, ProcInv, At, IntentProc, StagePcs, CommandProc, FinalizeProc, CleanProc,
     CleanPcs
<1>0. CASE ~(proc.cmd = "finalize" \/ receipt[r] \in {None, proc.rec})
  BY <1>0, <1>2, Refused DEF DropReceipt, Unless, records
<1>c. CASE proc.cmd = "finalize" \/ receipt[r] \in {None, proc.rec}
  <2>1. /\ receipt' = [receipt EXCEPT ![r] = None]
        /\ receipt'[r] = None /\ \A q \in Receipts : q # r => receipt'[q] = receipt[q]
        /\ proc' \in Process /\ proc' # None /\ proc'.cmd = proc.cmd /\ proc'.r = proc.r /\ proc'.rec =
              proc.rec /\ proc'.pc = "end" /\ outcome' = outcome
        /\ UNCHANGED <<surface, bundle, staged, torn, previous, intent, pending, journal, marker, schema,
                      transition, daemon, outcome, superseded>>
    BY <1>1, <1>2, <1>c, Typed, Goes DEF DropReceipt, Unless, disk, records, database, Pcs
  <2> HIDE DEF r
  <2>2. TypeOK'
    BY <1>1, <1>2, <1>c, <2>1, Typed DEF TypeOK
  <2>3. PreviousInv'
    BY <1>1, <1>2, <1>c, <2>1, Typed DEF DiskInv, PreviousInv, Settled, Rollback
  <2>4. ReceiptInv'
    BY <1>1, <1>2, <1>c, <2>1, Typed DEF DiskInv, ReceiptInv, SourceOf, Rollback, CancelPhases
  <2>5. SurfaceInv'
    BY <1>1, <1>2, <1>c, <2>1, Typed
      DEF DiskInv, SurfaceInv, Settled, Rollback, Back, CancelPhases, AllSurfaces, current, Whole
  <2>6. CarriedInv'
    BY <1>1, <1>2, <1>c, <2>1, Typed DEF DiskInv, CarriedInv, SourceOf, Rollback, CancelPhases
  <2>7. IntentInv' /\ MarkerInv' /\ TransitionInv' /\ SchemaInv'
    BY <1>1, <2>1, Frame DEF DiskInv
  <2>8. ProcInv'
    BY <1>1, <1>2, <1>c, <2>1, Typed
      DEF ProcInv, IntentProc, StageProc, CommandProc, BodyProc, PrepareProc, ActivateProc, UndoProc,
         FinalizeProc, AbortProc, CancelProc, CleanProc, StartProc, StagePcs, CancelPcs, CleanPcs,
         SourceOf, Rollback, CancelPhases, Forward, Back, Whole, SurfacesBefore, AllSurfaces, current
  <2> QED
    BY <2>2, <2>3, <2>4, <2>5, <2>6, <2>7, <2>8 DEF IInv, DiskInv
<1> QED
  BY <1>0, <1>c

LEMMA AbortDropsJournal ==
  ASSUME IInv, At("abort", "end")
  PROVE  LET j == journal.r IN
         /\ journal # None /\ intent = None /\ receipt[j] = None /\ previous[j] # None
         /\ current = Rollback(j) /\ AllSurfaces(Rollback(j)) /\ Whole(Rollback(j)) /\ Back
<1> DEFINE j == journal.r
<1>1. TypeOK /\ DiskInv /\ ProcInv
  BY DEF IInv
<1>2. /\ journal # None /\ j = proc.r /\ journal.phase \in {"abort-cleanup", "cancel-cleanup"} /\ j \in Receipts
      /\ receipt[j] = None /\ intent = None
  BY <1>1, Typed DEF ProcInv, CleanProc, IntentProc, At, StagePcs, CleanPcs
<1>3. previous[j] # None /\ Whole(Rollback(j)) /\ AllSurfaces(Rollback(j)) /\ Back
  BY <1>1, <1>2, Typed DEF DiskInv, SurfaceInv, Back, CancelPhases
<1>4. current = Rollback(j)
  BY <1>3 DEF AllSurfaces, current, Surfaces
<1> QED
  BY <1>2, <1>3, <1>4

LEMMA DropJournalKeeps == IInv /\ DropJournal => IInv'
<1> SUFFICES ASSUME IInv, DropJournal PROVE IInv'
  OBVIOUS
<1> DEFINE j == journal.r
<1>1. TypeOK /\ DiskInv /\ ProcInv
  BY DEF IInv
<1>2. /\ j = journal.r /\ proc # None /\ intent = None /\ journal # None /\ j \in Receipts /\ receipt[j] =
            None /\ previous[j] # None
      /\ AllSurfaces(current) /\ bundle[current] = "present"
      /\ \/ Back /\ current = Rollback(j)
         \/ current = j /\ marker[j] # "aborted" /\ bundle[Rollback(j)] = "absent" /\ schema = j
  BY <1>1, Typed, FinalizeDropsJournal, AbortDropsJournal DEF DropJournal, ProcInv, At, Whole
<1>3. /\ journal' = None
      /\ proc' = None /\ outcome' \in {"none", "done", "refused", "died"}
      /\ UNCHANGED <<surface, bundle, staged, torn, previous, intent, pending, receipt, marker, schema,
                    transition, daemon, superseded>>
  BY <1>1, <1>2, Typed, Ends DEF DropJournal, Unless, disk, records, database
<1> HIDE DEF j
<1>4. TypeOK'
  BY <1>1, <1>2, <1>3, Typed DEF TypeOK
<1>5. PreviousInv'
  BY <1>1, <1>2, <1>3, Typed DEF DiskInv, PreviousInv, Settled, Rollback
<1>6. IntentInv'
  BY <1>1, <1>2, <1>3, Typed DEF DiskInv, IntentInv
<1>7. ReceiptInv'
  BY <1>1, <1>2, <1>3, Typed DEF DiskInv, ReceiptInv, SourceOf, Rollback, CancelPhases
<1>8. MarkerInv'
  BY <1>1, <1>2, <1>3, Typed DEF DiskInv, MarkerInv
<1>9. SurfaceInv'
  BY <1>1, <1>2, <1>3, Typed
    DEF DiskInv, SurfaceInv, Settled, Rollback, Back, CancelPhases, AllSurfaces, current, Whole,
       PreviousInv
<1>10. CarriedInv'
  BY <1>1, <1>2, <1>3, Typed DEF DiskInv, CarriedInv, SourceOf, Rollback, CancelPhases
<1>11. TransitionInv'
  BY <1>1, <1>2, <1>3, Typed DEF DiskInv, TransitionInv, Rollback, Back, CancelPhases, current
<1>12. SchemaInv'
  BY <1>1, <1>2, <1>3, Typed DEF DiskInv, SchemaInv, Rollback, Back, CancelPhases, Forward, current
<1>13. ProcInv'
  BY <1>3 DEF ProcInv
<1> QED
  BY <1>4, <1>5, <1>6, <1>7, <1>8, <1>9, <1>10, <1>11, <1>12, <1>13 DEF IInv, DiskInv

-----------------------------------------------------------------------------
\* Abort: the database, the surfaces, the staged files, the candidate.
LEMMA AbortDatabaseDoneKeeps == IInv /\ AbortDatabaseDone => IInv'
<1> SUFFICES ASSUME IInv, AbortDatabaseDone PROVE IInv'
  OBVIOUS
<1> DEFINE r == proc.r
<1>1. TypeOK /\ DiskInv /\ ProcInv
  BY DEF IInv
<1>2. /\ proc # None /\ proc.cmd = "abort" /\ proc.pc = "database" /\ intent = None /\ r \in Receipts /\ r =
            proc.r /\ previous[r] # None
      /\ journal # None /\ journal.r = r /\ journal \in Journal /\ journal.phase \in {"aborting"}
  BY <1>1, Typed DEF AbortDatabaseDone, ProcInv, At, IntentProc, StagePcs, CommandProc, AbortProc,
     CancelProc, CancelPcs, CleanProc, CleanPcs, DiskInv, SurfaceInv, PreviousInv, ReceiptInv
<1>0. CASE ~(Offline)
  BY <1>0, <1>2, Refused DEF AbortDatabaseDone, Unless
<1>c. CASE Offline
  <2>1. /\ proc' \in Process /\ proc' # None /\ proc'.cmd = proc.cmd /\ proc'.r = proc.r /\ proc'.rec =
              proc.rec /\ proc'.pc = "surfaces" /\ outcome' = outcome
        /\ UNCHANGED <<surface, bundle, staged, torn, previous, intent, pending, receipt, journal, marker,
                      schema, transition, daemon, outcome, superseded>>
    BY <1>1, <1>2, <1>c, Typed, Goes DEF AbortDatabaseDone, Unless, disk, records, database, Pcs
  <2> HIDE DEF r
  <2>2. TypeOK'
    BY <1>1, <1>2, <1>c, <2>1, Typed DEF TypeOK
  <2>3. PreviousInv' /\ IntentInv' /\ ReceiptInv' /\ MarkerInv' /\ SurfaceInv' /\ CarriedInv'
          /\ TransitionInv' /\ SchemaInv'
    BY <1>1, <2>1, Frame DEF DiskInv
  <2>4. ProcInv'
    BY <1>1, <1>2, <1>c, <2>1, Typed
      DEF ProcInv, IntentProc, StageProc, CommandProc, BodyProc, PrepareProc, ActivateProc, UndoProc,
         FinalizeProc, AbortProc, CancelProc, CleanProc, StartProc, StagePcs, CancelPcs, CleanPcs,
         SourceOf, Rollback, CancelPhases, Forward, Back, Whole, SurfacesBefore, AllSurfaces, current
  <2> QED
    BY <2>2, <2>3, <2>4 DEF IInv, DiskInv
<1> QED
  BY <1>0, <1>c

LEMMA AbortSurfacesKeeps == IInv /\ AbortSurfaces => IInv'
<1> SUFFICES ASSUME IInv, AbortSurfaces PROVE IInv'
  OBVIOUS
<1> DEFINE r == proc.r
<1>1. TypeOK /\ DiskInv /\ ProcInv
  BY DEF IInv
<1>2. /\ proc # None /\ proc.cmd = "abort" /\ proc.pc = "surfaces" /\ intent = None /\ r \in Receipts /\ r =
            proc.r /\ previous[r] # None
      /\ journal # None /\ journal.r = r /\ journal \in Journal /\ journal.phase \in {"committed", "aborting"}
      /\ receipt[r] # None /\ receipt[r].activated /\ journal.rec.activated
  BY <1>1, Typed DEF AbortSurfaces, ProcInv, At, IntentProc, StagePcs, CommandProc, AbortProc, CancelProc,
     CancelPcs, CleanProc, CleanPcs, DiskInv, SurfaceInv, PreviousInv, ReceiptInv, CarriedInv
<1>0. CASE ~(current \in {r, Rollback(r)} /\ ReceiptHolds(r) /\ Undoable)
  BY <1>0, <1>2, Refused DEF AbortSurfaces, Unless, records
<1>c. CASE current \in {r, Rollback(r)} /\ ReceiptHolds(r) /\ Undoable
  <2>1. /\ journal' = [journal EXCEPT !.phase = "aborting"]
        /\ Goto("undo")
    BY <1>1, <1>2, <1>c, Typed DEF AbortSurfaces
  <2>2. journal' \in Journal /\ journal'.r = r /\ journal'.phase = "aborting" /\ journal'.rec = journal.rec
    BY <1>1, <1>2, <1>c, <2>1, Typed, Absence DEF Journal, Phases
  <2>3. journal' # None
    BY <1>1, <1>2, <1>c, <2>1, <2>2, Typed, Absence
  <2>4. proc' \in Process /\ proc' # None /\ proc'.cmd = proc.cmd /\ proc'.r = proc.r /\ proc'.rec = proc.rec
           /\ proc'.pc = "undo" /\ outcome' = outcome
    BY <1>1, <1>2, <1>c, <2>1, <2>2, <2>3, Typed, Goes, Absence DEF Pcs
  <2>5. UNCHANGED <<surface, bundle, staged, torn, previous, intent, pending, receipt, marker, schema,
                   transition, daemon, outcome, superseded>>
    BY <1>1, <1>2, <1>c, <2>1, <2>2, <2>3, <2>4, Typed, Goes
      DEF AbortSurfaces, Unless, disk, records, database, Pcs
  <2> HIDE DEF r
  <2>6. TypeOK'
    BY <1>1, <1>2, <1>c, <2>1, <2>2, <2>3, <2>4, <2>5, Typed DEF TypeOK
  <2>7. PreviousInv'
    BY <1>1, <1>2, <1>c, <2>1, <2>2, <2>3, <2>4, <2>5, Typed DEF DiskInv, PreviousInv, Settled, Rollback
  <2>8. IntentInv'
    BY <1>1, <1>2, <1>c, <2>1, <2>2, <2>3, <2>4, <2>5, Typed DEF DiskInv, IntentInv
  <2>9. ReceiptInv'
    BY <1>1, <1>2, <1>c, <2>1, <2>2, <2>3, <2>4, <2>5, Typed
      DEF DiskInv, ReceiptInv, SourceOf, Rollback, CancelPhases
  <2>10. MarkerInv'
    BY <1>1, <1>2, <1>c, <2>1, <2>2, <2>3, <2>4, <2>5, Typed DEF DiskInv, MarkerInv
  <2>11. SurfaceInv'
    BY <1>1, <1>2, <1>c, <2>1, <2>2, <2>3, <2>4, <2>5, Typed
      DEF DiskInv, SurfaceInv, Settled, Rollback, Back, CancelPhases, AllSurfaces, current, Whole
  <2>12. CarriedInv'
    BY <1>1, <1>2, <1>c, <2>1, <2>2, <2>3, <2>4, <2>5, Typed
      DEF DiskInv, CarriedInv, SourceOf, Rollback, CancelPhases
  <2>13. TransitionInv'
    BY <1>1, <1>2, <1>c, <2>1, <2>2, <2>3, <2>4, <2>5, Typed
      DEF DiskInv, TransitionInv, Rollback, Back, CancelPhases, current
  <2>14. SchemaInv'
    BY <1>1, <1>2, <1>c, <2>1, <2>2, <2>3, <2>4, <2>5, Typed
      DEF DiskInv, SchemaInv, Rollback, Back, CancelPhases, Forward, current
  <2>15. ProcInv'
    BY <1>1, <1>2, <1>c, <2>1, <2>2, <2>3, <2>4, <2>5, Typed
      DEF ProcInv, IntentProc, StageProc, CommandProc, BodyProc, PrepareProc, ActivateProc, UndoProc,
         FinalizeProc, AbortProc, CancelProc, CleanProc, StartProc, StagePcs, CancelPcs, CleanPcs,
         SourceOf, Rollback, CancelPhases, Forward, Back, Whole, SurfacesBefore, AllSurfaces, current
  <2> QED
    BY <2>6, <2>7, <2>8, <2>9, <2>10, <2>11, <2>12, <2>13, <2>14, <2>15 DEF IInv, DiskInv
<1> QED
  BY <1>0, <1>c

LEMMA AbortUndoKeeps == IInv /\ AbortUndo => IInv'
<1> SUFFICES ASSUME IInv, AbortUndo PROVE IInv'
  OBVIOUS
<1> DEFINE r == proc.r
           s == Min(Changed(proc.r))
<1>1. TypeOK /\ DiskInv /\ ProcInv
  BY DEF IInv
<1>2. /\ proc # None /\ proc.cmd = "abort" /\ proc.pc = "undo" /\ intent = None /\ r \in Receipts /\ r =
            proc.r /\ previous[r] # None
      /\ journal # None /\ journal.r = r /\ journal \in Journal /\ journal.phase \in {"aborting"}
      /\ previous[r] \in Snapshot /\ \A t \in Surfaces : previous[r][t] = Rollback(r)
  BY <1>1, Typed DEF AbortUndo, ProcInv, At, IntentProc, StagePcs, CommandProc, AbortProc, CancelProc,
     CancelPcs, CleanProc, CleanPcs, DiskInv, SurfaceInv, PreviousInv, ReceiptInv
<1>3. /\ s \in Surfaces /\ surface' = [surface EXCEPT ![s] = Rollback(r)] /\ surface' \in Snapshot
      /\ UNCHANGED <<bundle, staged, torn, previous, intent, pending, receipt, journal, marker, schema,
                    transition, daemon, proc, outcome, superseded>>
  BY <1>1, <1>2, Typed, SurfaceSet DEF AbortUndo, Unless, disk, records, database, Changed
<1> HIDE DEF r, s
<1>4. TypeOK'
  BY <1>1, <1>2, <1>3, Typed DEF TypeOK
<1>5. SurfaceInv'
  BY <1>1, <1>2, <1>3, Typed
    DEF DiskInv, SurfaceInv, Settled, Rollback, Back, CancelPhases, AllSurfaces, current, Whole, TypeOK,
       Snapshot
<1>6. TransitionInv'
  BY <1>1, <1>2, <1>3, Typed DEF DiskInv, TransitionInv, Rollback, Back, CancelPhases, current
<1>7. SchemaInv'
  BY <1>1, <1>2, <1>3, Typed DEF DiskInv, SchemaInv, Rollback, Back, CancelPhases, Forward, current
<1>8. PreviousInv' /\ IntentInv' /\ ReceiptInv' /\ MarkerInv' /\ CarriedInv'
  BY <1>1, <1>3, Frame DEF DiskInv
<1>9. ProcInv'
  BY <1>1, <1>2, <1>3, Typed
    DEF ProcInv, IntentProc, StageProc, CommandProc, BodyProc, PrepareProc, ActivateProc, UndoProc,
       FinalizeProc, AbortProc, CancelProc, CleanProc, StartProc, StagePcs, CancelPcs, CleanPcs, SourceOf,
       Rollback, CancelPhases, Forward, Back, Whole, SurfacesBefore, AllSurfaces, current
<1> QED
  BY <1>4, <1>5, <1>6, <1>7, <1>8, <1>9 DEF IInv, DiskInv

LEMMA AbortCompleteKeeps == IInv /\ AbortComplete => IInv'
<1> SUFFICES ASSUME IInv, AbortComplete PROVE IInv'
  OBVIOUS
<1> DEFINE r == proc.r
<1>1. TypeOK /\ DiskInv /\ ProcInv
  BY DEF IInv
<1>2. /\ proc # None /\ proc.cmd = "abort" /\ proc.pc = "undo" /\ intent = None /\ r \in Receipts /\ r =
            proc.r /\ previous[r] # None
      /\ journal # None /\ journal.r = r /\ journal \in Journal /\ journal.phase \in {"aborting"}
      /\ previous[r] \in Snapshot /\ \A t \in Surfaces : previous[r][t] = Rollback(r)
      /\ surface = previous[r] /\ Whole(Rollback(r)) /\ SourceOf(r, proc.rec) /\ proc.rec.activated /\ schema
            \in Bundles
      /\ transition # None => transition.r = r
  BY <1>1, Typed DEF AbortComplete, ProcInv, At, IntentProc, StagePcs, CommandProc, AbortProc, CancelProc,
     CancelPcs, CleanProc, CleanPcs, DiskInv, SurfaceInv, PreviousInv, ReceiptInv, Changed, TypeOK,
     Snapshot, TransitionInv, Back, CancelPhases
<1>3. /\ transition' = None
      /\ outcome' \in {"none", "done", "refused", "died"}
      /\ proc' = None \/ (/\ proc' \in Process /\ proc' # None /\ proc'.cmd = proc.cmd /\ proc'.r = proc.r
                     /\ proc'.pc = "clean" /\ proc'.rec = proc.rec /\ schema = proc.rec.source)
      /\ UNCHANGED <<surface, bundle, staged, torn, previous, intent, pending, receipt, journal, marker,
                    schema, daemon, superseded>>
  BY <1>1, <1>2, Typed, Goes, Ends DEF AbortComplete, Unless, disk, records, database, Pcs
<1> HIDE DEF r
<1>4. TypeOK'
  BY <1>1, <1>2, <1>3, Typed DEF TypeOK
<1>5. IntentInv'
  BY <1>1, <1>2, <1>3, Typed DEF DiskInv, IntentInv
<1>6. MarkerInv'
  BY <1>1, <1>2, <1>3, Typed DEF DiskInv, MarkerInv
<1>7. TransitionInv'
  BY <1>1, <1>2, <1>3, Typed DEF DiskInv, TransitionInv, Rollback, Back, CancelPhases, current
<1>8. SchemaInv'
  BY <1>1, <1>2, <1>3, Typed
    DEF DiskInv, SchemaInv, Rollback, Back, CancelPhases, Forward, current, TransitionInv
<1>9. PreviousInv' /\ ReceiptInv' /\ SurfaceInv' /\ CarriedInv'
  BY <1>1, <1>3, Frame DEF DiskInv
<1>10. ProcInv'
  BY <1>1, <1>2, <1>3, Typed, NonceAssumption
    DEF ProcInv, IntentProc, StageProc, CommandProc, BodyProc, PrepareProc, ActivateProc, UndoProc,
       FinalizeProc, AbortProc, CancelProc, CleanProc, StartProc, StagePcs, CancelPcs, CleanPcs, SourceOf,
       Rollback, CancelPhases, Forward, Back, Whole, SurfacesBefore, AllSurfaces, current, Bundles
<1> QED
  BY <1>4, <1>5, <1>6, <1>7, <1>8, <1>9, <1>10 DEF IInv, DiskInv

LEMMA CancelJournalKeeps == IInv /\ CancelJournal => IInv'
<1> SUFFICES ASSUME IInv, CancelJournal PROVE IInv'
  OBVIOUS
<1> DEFINE r == proc.r
           file == proc.rec
<1>1. TypeOK /\ DiskInv /\ ProcInv
  BY DEF IInv
<1>2. /\ proc # None /\ proc.cmd = "abort" /\ proc.pc = "cancel" /\ intent = None /\ r \in Receipts /\ r =
            proc.r /\ previous[r] # None
      /\ previous[r] \in Snapshot /\ \A t \in Surfaces : previous[r][t] = Rollback(r)
      /\ file \in Receipt /\ SourceOf(r, file) /\ ~file.activated /\ file = proc.rec
      /\ receipt[r] # None /\ ~receipt[r].activated /\ surface = previous[r] /\ Whole(Rollback(r))
      /\ transition # None /\ transition.r = r
      /\ journal # None => journal.r = r /\ journal.phase \in CancelPhases
  BY <1>1, Typed DEF CancelJournal, ProcInv, At, IntentProc, StagePcs, CommandProc, AbortProc, CancelProc,
     CancelPcs, CleanProc, CleanPcs, DiskInv, SurfaceInv, PreviousInv, ReceiptInv, SurfacesBefore
<1>3. journal' = [r |-> r, phase |-> "cancelling", rec |-> file]
  BY <1>1, <1>2, Typed DEF CancelJournal
<1>4. journal' \in Journal /\ journal'.r = r /\ journal'.phase = "cancelling" /\ journal'.rec = file
  BY <1>1, <1>2, <1>3, Typed, Absence DEF Journal, Phases
<1>5. journal' # None
  BY <1>1, <1>2, <1>3, <1>4, Typed, Absence
<1>6. /\ proc' \in Process /\ proc' # None /\ proc'.cmd = proc.cmd /\ proc'.r = proc.r /\ proc'.rec = proc.rec
            /\ proc'.pc = "cancel-database" /\ outcome' = outcome
      /\ UNCHANGED <<surface, bundle, staged, torn, previous, intent, pending, receipt, marker, schema,
                    transition, daemon, outcome, superseded>>
  BY <1>1, <1>2, <1>3, <1>4, <1>5, Typed, Goes DEF CancelJournal, Unless, disk, records, database, Pcs
<1> HIDE DEF r, file
<1>7. TypeOK'
  BY <1>1, <1>2, <1>3, <1>4, <1>5, <1>6, Typed DEF TypeOK
<1>8. PreviousInv'
  BY <1>1, <1>2, <1>3, <1>4, <1>5, <1>6, Typed DEF DiskInv, PreviousInv, Settled, Rollback
<1>9. IntentInv'
  BY <1>1, <1>2, <1>3, <1>4, <1>5, <1>6, Typed DEF DiskInv, IntentInv
<1>10. ReceiptInv'
  BY <1>1, <1>2, <1>3, <1>4, <1>5, <1>6, Typed DEF DiskInv, ReceiptInv, SourceOf, Rollback, CancelPhases
<1>11. MarkerInv'
  BY <1>1, <1>2, <1>3, <1>4, <1>5, <1>6, Typed DEF DiskInv, MarkerInv, ReceiptInv, CancelPhases
<1>12. SurfaceInv'
  BY <1>1, <1>2, <1>3, <1>4, <1>5, <1>6, Typed
    DEF DiskInv, SurfaceInv, Settled, Rollback, Back, CancelPhases, AllSurfaces, current, Whole
<1>13. CarriedInv'
  BY <1>1, <1>2, <1>3, <1>4, <1>5, <1>6, Typed DEF DiskInv, CarriedInv, SourceOf, Rollback, CancelPhases
<1>14. TransitionInv'
  BY <1>1, <1>2, <1>3, <1>4, <1>5, <1>6, Typed DEF DiskInv, TransitionInv, Rollback, Back, CancelPhases, current
<1>15. SchemaInv'
  BY <1>1, <1>2, <1>3, <1>4, <1>5, <1>6, Typed
    DEF DiskInv, SchemaInv, Rollback, Back, CancelPhases, Forward, current
<1>16. ProcInv'
  BY <1>1, <1>2, <1>3, <1>4, <1>5, <1>6, Typed
    DEF ProcInv, IntentProc, StageProc, CommandProc, BodyProc, PrepareProc, ActivateProc, UndoProc,
       FinalizeProc, AbortProc, CancelProc, CleanProc, StartProc, StagePcs, CancelPcs, CleanPcs, SourceOf,
       Rollback, CancelPhases, Forward, Back, Whole, SurfacesBefore, AllSurfaces, current
<1> QED
  BY <1>7, <1>8, <1>9, <1>10, <1>11, <1>12, <1>13, <1>14, <1>15, <1>16 DEF IInv, DiskInv

LEMMA CancelDatabaseKeeps == IInv /\ CancelDatabase => IInv'
<1> SUFFICES ASSUME IInv, CancelDatabase PROVE IInv'
  OBVIOUS
<1> DEFINE r == proc.r
           file == [proc.rec EXCEPT !.cancelled = TRUE]
<1>1. TypeOK /\ DiskInv /\ ProcInv
  BY DEF IInv
<1>2. /\ proc # None /\ proc.cmd = "abort" /\ proc.pc = "cancel-database" /\ intent = None /\ r \in Receipts
            /\ r = proc.r /\ previous[r] # None
      /\ journal # None /\ journal.r = r /\ journal \in Journal /\ journal.phase \in {"cancelling"}
      /\ file \in Receipt /\ SourceOf(r, file) /\ ~file.activated /\ receipt[r] # None /\ ~receipt[r].activated
      /\ transition # None /\ transition.r = r /\ SourceOf(r, proc.rec) /\ current = Rollback(r)
            /\ (transition.state = "restored" \/ schema # r)
  BY <1>1, Typed, ReceiptFields
    DEF CancelDatabase, ProcInv, At, IntentProc, StagePcs, CommandProc, AbortProc, CancelProc, CancelPcs,
       CleanProc, CleanPcs, DiskInv, SurfaceInv, PreviousInv, ReceiptInv, SourceOf, Back, CancelPhases,
       AllSurfaces, current, Surfaces
<1>3. proc' = [proc EXCEPT !.pc = "cancel-persist", !.rec.cancelled = TRUE]
  BY <1>1, <1>2, Typed DEF CancelDatabase
<1>4. proc' = [proc EXCEPT !.pc = "cancel-persist", !.rec = file]
  BY <1>1, <1>2, <1>3, Typed, Absence DEF Process
<1>5. proc' \in Process /\ proc' # None /\ proc'.cmd = proc.cmd /\ proc'.r = r /\ proc'.pc = "cancel-persist"
         /\ proc'.rec = file
  <2>1. proc \in Process /\ "cancel-persist" \in Pcs /\ file \in Receipt /\ r = proc.r
    BY <1>1, <1>2, Typed DEF Pcs
  <2> HIDE DEF r, file
  <2> QED
    BY <1>4, <2>1, Absence DEF Process
<1>6. /\ transition' = None
      /\ UNCHANGED <<surface, bundle, staged, torn, previous, intent, pending, receipt, journal, marker,
                    schema, daemon, outcome, superseded>>
  BY <1>1, <1>2, <1>3, <1>4, <1>5, Typed DEF CancelDatabase, Unless, disk, records, database
<1> HIDE DEF r, file
<1>7. TypeOK'
  BY <1>1, <1>2, <1>3, <1>4, <1>5, <1>6, Typed DEF TypeOK
<1>8. IntentInv'
  BY <1>1, <1>2, <1>3, <1>4, <1>5, <1>6, Typed DEF DiskInv, IntentInv
<1>9. MarkerInv'
  BY <1>1, <1>2, <1>3, <1>4, <1>5, <1>6, Typed DEF DiskInv, MarkerInv
<1>10. TransitionInv'
  BY <1>1, <1>2, <1>3, <1>4, <1>5, <1>6, Typed DEF DiskInv, TransitionInv, Rollback, Back, CancelPhases, current
<1>11. SchemaInv'
  BY <1>1, <1>2, <1>3, <1>4, <1>5, <1>6, Typed
    DEF DiskInv, SchemaInv, Rollback, Back, CancelPhases, Forward, current, TransitionInv
<1>12. PreviousInv' /\ ReceiptInv' /\ SurfaceInv' /\ CarriedInv'
  BY <1>1, <1>6, Frame DEF DiskInv
<1>13. ProcInv'
  BY <1>1, <1>2, <1>3, <1>4, <1>5, <1>6, Typed
    DEF ProcInv, IntentProc, StageProc, CommandProc, BodyProc, PrepareProc, ActivateProc, UndoProc,
       FinalizeProc, AbortProc, CancelProc, CleanProc, StartProc, StagePcs, CancelPcs, CleanPcs, SourceOf,
       Rollback, CancelPhases, Forward, Back, Whole, SurfacesBefore, AllSurfaces, current
<1> QED
  BY <1>7, <1>8, <1>9, <1>10, <1>11, <1>12, <1>13 DEF IInv, DiskInv

LEMMA CancelPersistKeeps == IInv /\ CancelPersist => IInv'
<1> SUFFICES ASSUME IInv, CancelPersist PROVE IInv'
  OBVIOUS
<1> DEFINE r == proc.r
           file == proc.rec
<1>1. TypeOK /\ DiskInv /\ ProcInv
  BY DEF IInv
<1>2. /\ proc # None /\ proc.cmd = "abort" /\ proc.pc = "cancel-persist" /\ intent = None /\ r \in Receipts
            /\ r = proc.r /\ previous[r] # None
      /\ journal # None /\ journal.r = r /\ journal \in Journal /\ journal.phase \in {"cancelling"}
      /\ file \in Receipt /\ file # None /\ SourceOf(r, file) /\ ~file.activated /\ file = proc.rec
  BY <1>1, Typed, ReceiptFields
    DEF CancelPersist, ProcInv, At, IntentProc, StagePcs, CommandProc, AbortProc, CancelProc, CancelPcs,
       CleanProc, CleanPcs, DiskInv, SurfaceInv, PreviousInv, ReceiptInv
<1>3. /\ receipt' = [receipt EXCEPT ![r] = file]
      /\ receipt'[r] = file /\ \A q \in Receipts : q # r => receipt'[q] = receipt[q]
      /\ proc' \in Process /\ proc' # None /\ proc'.cmd = proc.cmd /\ proc'.r = proc.r /\ proc'.rec = proc.rec
            /\ proc'.pc = "cancel-record" /\ outcome' = outcome
      /\ UNCHANGED <<surface, bundle, staged, torn, previous, intent, pending, journal, marker, schema,
                    transition, daemon, outcome, superseded>>
  BY <1>1, <1>2, Typed, Goes DEF CancelPersist, Unless, disk, records, database, Pcs
<1> HIDE DEF r, file
<1>4. TypeOK'
  BY <1>1, <1>2, <1>3, Typed DEF TypeOK
<1>5. PreviousInv'
  BY <1>1, <1>2, <1>3, Typed DEF DiskInv, PreviousInv, Settled, Rollback
<1>6. ReceiptInv'
  BY <1>1, <1>2, <1>3, Typed DEF DiskInv, ReceiptInv, SourceOf, Rollback, CancelPhases
<1>7. SurfaceInv'
  BY <1>1, <1>2, <1>3, Typed
    DEF DiskInv, SurfaceInv, Settled, Rollback, Back, CancelPhases, AllSurfaces, current, Whole
<1>8. CarriedInv'
  BY <1>1, <1>2, <1>3, Typed DEF DiskInv, CarriedInv, SourceOf, Rollback, CancelPhases
<1>9. IntentInv' /\ MarkerInv' /\ TransitionInv' /\ SchemaInv'
  BY <1>1, <1>3, Frame DEF DiskInv
<1>10. ProcInv'
  BY <1>1, <1>2, <1>3, Typed
    DEF ProcInv, IntentProc, StageProc, CommandProc, BodyProc, PrepareProc, ActivateProc, UndoProc,
       FinalizeProc, AbortProc, CancelProc, CleanProc, StartProc, StagePcs, CancelPcs, CleanPcs, SourceOf,
       Rollback, CancelPhases, Forward, Back, Whole, SurfacesBefore, AllSurfaces, current
<1> QED
  BY <1>4, <1>5, <1>6, <1>7, <1>8, <1>9, <1>10 DEF IInv, DiskInv

LEMMA CancelRecordKeeps == IInv /\ CancelRecord => IInv'
<1> SUFFICES ASSUME IInv, CancelRecord PROVE IInv'
  OBVIOUS
<1> DEFINE r == proc.r
           file == proc.rec
<1>1. TypeOK /\ DiskInv /\ ProcInv
  BY DEF IInv
<1>2. /\ proc # None /\ proc.cmd = "abort" /\ proc.pc = "cancel-record" /\ intent = None /\ r \in Receipts
            /\ r = proc.r /\ previous[r] # None
      /\ journal # None /\ journal.r = r /\ journal \in Journal /\ journal.phase \in {"cancelling"}
      /\ previous[r] \in Snapshot /\ \A t \in Surfaces : previous[r][t] = Rollback(r)
      /\ file \in Receipt /\ SourceOf(r, file) /\ ~file.activated /\ file = proc.rec
      /\ receipt[r] # None /\ ~receipt[r].activated /\ transition = None
  BY <1>1, Typed DEF CancelRecord, ProcInv, At, IntentProc, StagePcs, CommandProc, AbortProc, CancelProc,
     CancelPcs, CleanProc, CleanPcs, DiskInv, SurfaceInv, PreviousInv, ReceiptInv, TypeOK, Snapshot
<1>3. journal' = [journal EXCEPT !.rec = file]
  BY <1>1, <1>2, Typed DEF CancelRecord
<1>4. journal' \in Journal /\ journal'.r = r /\ journal'.phase = "cancelling" /\ journal'.rec = file
  BY <1>1, <1>2, <1>3, Typed, Absence DEF Journal, Phases
<1>5. journal' # None
  BY <1>1, <1>2, <1>3, <1>4, Typed, Absence
<1>6. /\ outcome' \in {"none", "done", "refused", "died"}
      /\ proc' = None \/ (/\ proc' \in Process /\ proc' # None /\ proc'.cmd = proc.cmd /\ proc'.r = proc.r
                     /\ proc'.pc = "clean" /\ proc'.rec = proc.rec)
      /\ UNCHANGED <<surface, bundle, staged, torn, previous, intent, pending, receipt, marker, schema,
                    transition, daemon, superseded>>
  BY <1>1, <1>2, <1>3, <1>4, <1>5, Typed, Goes, Ends DEF CancelRecord, Unless, disk, records, database, Pcs
<1> HIDE DEF r, file
<1>7. TypeOK'
  BY <1>1, <1>2, <1>3, <1>4, <1>5, <1>6, Typed DEF TypeOK
<1>8. PreviousInv'
  BY <1>1, <1>2, <1>3, <1>4, <1>5, <1>6, Typed DEF DiskInv, PreviousInv, Settled, Rollback
<1>9. IntentInv'
  BY <1>1, <1>2, <1>3, <1>4, <1>5, <1>6, Typed DEF DiskInv, IntentInv
<1>10. ReceiptInv'
  BY <1>1, <1>2, <1>3, <1>4, <1>5, <1>6, Typed DEF DiskInv, ReceiptInv, SourceOf, Rollback, CancelPhases
<1>11. MarkerInv'
  BY <1>1, <1>2, <1>3, <1>4, <1>5, <1>6, Typed DEF DiskInv, MarkerInv
<1>12. SurfaceInv'
  BY <1>1, <1>2, <1>3, <1>4, <1>5, <1>6, Typed
    DEF DiskInv, SurfaceInv, Settled, Rollback, Back, CancelPhases, AllSurfaces, current, Whole
<1>13. CarriedInv'
  BY <1>1, <1>2, <1>3, <1>4, <1>5, <1>6, Typed DEF DiskInv, CarriedInv, SourceOf, Rollback, CancelPhases
<1>14. TransitionInv'
  BY <1>1, <1>2, <1>3, <1>4, <1>5, <1>6, Typed DEF DiskInv, TransitionInv, Rollback, Back, CancelPhases, current
<1>15. SchemaInv'
  BY <1>1, <1>2, <1>3, <1>4, <1>5, <1>6, Typed
    DEF DiskInv, SchemaInv, Rollback, Back, CancelPhases, Forward, current
<1>16. ProcInv'
  BY <1>1, <1>2, <1>3, <1>4, <1>5, <1>6, Typed
    DEF ProcInv, IntentProc, StageProc, CommandProc, BodyProc, PrepareProc, ActivateProc, UndoProc,
       FinalizeProc, AbortProc, CancelProc, CleanProc, StartProc, StagePcs, CancelPcs, CleanPcs, SourceOf,
       Rollback, CancelPhases, Forward, Back, Whole, SurfacesBefore, AllSurfaces, current, DiskInv,
       SurfaceInv, SchemaInv, Snapshot, Surfaces
<1> QED
  BY <1>7, <1>8, <1>9, <1>10, <1>11, <1>12, <1>13, <1>14, <1>15, <1>16 DEF IInv, DiskInv

LEMMA AbortMarksCleanupKeeps == IInv /\ AbortMarksCleanup => IInv'
<1> SUFFICES ASSUME IInv, AbortMarksCleanup PROVE IInv'
  OBVIOUS
<1> DEFINE r == proc.r
           file == proc.rec
<1>1. TypeOK /\ DiskInv /\ ProcInv
  BY DEF IInv
<1>2. /\ proc # None /\ proc.cmd = "abort" /\ proc.pc = "clean" /\ intent = None /\ r \in Receipts /\ r =
            proc.r /\ previous[r] # None
      /\ journal # None => journal.r = r
      /\ surface = previous[r] /\ Whole(Rollback(r)) /\ SourceOf(r, file) /\ file \in Receipt /\ file = proc.rec
      /\ receipt[r] # None \/ journal # None
      /\ ~file.activated => journal = None \/ journal.phase \in CancelPhases
      /\ file.activated => journal # None /\ journal.phase = "aborting" /\ transition = None
      /\ transition # None => transition.r # r
      /\ previous[r] \in Snapshot /\ \A t \in Surfaces : previous[r][t] = Rollback(r)
  BY <1>1, Typed DEF AbortMarksCleanup, ProcInv, At, IntentProc, StagePcs, CommandProc, AbortProc,
     CancelProc, CancelPcs, CleanProc, CleanPcs, DiskInv, SurfaceInv, PreviousInv, ReceiptInv, AbortCleans,
     SurfacesBefore, CancelPhases
<1>3. journal' = [r |-> r, rec |-> file, phase |-> IF file.activated THEN "abort-cleanup" ELSE "cancel-cleanup"]
  BY <1>1, <1>2, Typed DEF AbortMarksCleanup
<1>4. /\ journal' \in Journal /\ journal'.r = r /\ journal'.rec = file
      /\ journal'.phase = IF file.activated THEN "abort-cleanup" ELSE "cancel-cleanup"
  BY <1>1, <1>2, <1>3, Typed, Absence DEF Journal, Phases
<1>5. journal' # None
  BY <1>1, <1>2, <1>3, <1>4, Typed, Absence
<1>6. UNCHANGED <<surface, bundle, staged, torn, previous, intent, pending, receipt, marker, schema,
                 transition, daemon, proc, outcome, superseded>>
  BY <1>1, <1>2, <1>3, <1>4, <1>5, Typed DEF AbortMarksCleanup, Unless, disk, records, database
<1> HIDE DEF r, file
<1>7. TypeOK'
  BY <1>1, <1>2, <1>3, <1>4, <1>5, <1>6, Typed DEF TypeOK
<1>8. PreviousInv'
  BY <1>1, <1>2, <1>3, <1>4, <1>5, <1>6, Typed DEF DiskInv, PreviousInv, Settled, Rollback
<1>9. IntentInv'
  BY <1>1, <1>2, <1>3, <1>4, <1>5, <1>6, Typed DEF DiskInv, IntentInv
<1>10. ReceiptInv'
  BY <1>1, <1>2, <1>3, <1>4, <1>5, <1>6, Typed DEF DiskInv, ReceiptInv, SourceOf, Rollback, CancelPhases
<1>11. MarkerInv'
  BY <1>1, <1>2, <1>3, <1>4, <1>5, <1>6, Typed DEF DiskInv, MarkerInv, ReceiptInv, CancelPhases
<1>12. SurfaceInv'
  BY <1>1, <1>2, <1>3, <1>4, <1>5, <1>6, Typed
    DEF DiskInv, SurfaceInv, Settled, Rollback, Back, CancelPhases, AllSurfaces, current, Whole
<1>13. CarriedInv'
  BY <1>1, <1>2, <1>3, <1>4, <1>5, <1>6, Typed DEF DiskInv, CarriedInv, SourceOf, Rollback, CancelPhases
<1>14. TransitionInv'
  BY <1>1, <1>2, <1>3, <1>4, <1>5, <1>6, Typed DEF DiskInv, TransitionInv, Rollback, Back, CancelPhases, current
<1>15. SchemaInv'
  BY <1>1, <1>2, <1>3, <1>4, <1>5, <1>6, Typed
    DEF DiskInv, SchemaInv, Rollback, Back, CancelPhases, Forward, current, CleanProc, CleanPcs, ProcInv,
       SurfaceInv
<1>16. ProcInv'
  BY <1>1, <1>2, <1>3, <1>4, <1>5, <1>6, Typed
    DEF ProcInv, IntentProc, StageProc, CommandProc, BodyProc, PrepareProc, ActivateProc, UndoProc,
       FinalizeProc, AbortProc, CancelProc, CleanProc, StartProc, StagePcs, CancelPcs, CleanPcs, SourceOf,
       Rollback, CancelPhases, Forward, Back, Whole, SurfacesBefore, AllSurfaces, current
<1> QED
  BY <1>7, <1>8, <1>9, <1>10, <1>11, <1>12, <1>13, <1>14, <1>15, <1>16 DEF IInv, DiskInv

LEMMA AbortRemovesStagedKeeps == IInv /\ AbortRemovesStaged => IInv'
<1> SUFFICES ASSUME IInv, AbortRemovesStaged PROVE IInv'
  OBVIOUS
<1> DEFINE r == proc.r
<1>1. TypeOK /\ DiskInv /\ ProcInv
  BY DEF IInv
<1>2. /\ proc # None /\ proc.cmd = "abort" /\ proc.pc = "clean" /\ intent = None /\ r \in Receipts /\ r =
            proc.r /\ previous[r] # None
      /\ journal # None /\ journal.r = r /\ journal \in Journal /\ journal.phase \in {"abort-cleanup",
            "cancel-cleanup"}
  BY <1>1, Typed DEF AbortRemovesStaged, ProcInv, At, IntentProc, StagePcs, CommandProc, AbortProc,
     CancelProc, CancelPcs, CleanProc, CleanPcs, DiskInv, SurfaceInv, PreviousInv, ReceiptInv, AbortCleans
<1>3. /\ staged' \in [Receipts -> SUBSET StagedFiles] /\ \A q \in Receipts : staged'[q] \subseteq staged[q]
      /\ UNCHANGED <<surface, bundle, torn, previous, intent, pending, receipt, journal, marker, schema,
                    transition, daemon, proc, outcome, superseded>>
  BY <1>1, <1>2, Typed DEF AbortRemovesStaged, Unless, disk, records, database, TypeOK
<1> HIDE DEF r
<1>4. TypeOK'
  BY <1>1, <1>2, <1>3, Typed DEF TypeOK
<1>5. MarkerInv'
  BY <1>1, <1>2, <1>3, Typed DEF DiskInv, MarkerInv
<1>6. PreviousInv' /\ IntentInv' /\ ReceiptInv' /\ SurfaceInv' /\ CarriedInv' /\ TransitionInv' /\ SchemaInv'
  BY <1>1, <1>3, Frame DEF DiskInv
<1>7. ProcInv'
  BY <1>1, <1>2, <1>3, Typed
    DEF ProcInv, IntentProc, StageProc, CommandProc, BodyProc, PrepareProc, ActivateProc, UndoProc,
       FinalizeProc, AbortProc, CancelProc, CleanProc, StartProc, StagePcs, CancelPcs, CleanPcs, SourceOf,
       Rollback, CancelPhases, Forward, Back, Whole, SurfacesBefore, AllSurfaces, current
<1> QED
  BY <1>4, <1>5, <1>6, <1>7 DEF IInv, DiskInv

LEMMA AbortCandidateKeeps == IInv /\ AbortCandidate => IInv'
<1> SUFFICES ASSUME IInv, AbortCandidate PROVE IInv'
  OBVIOUS
<1> DEFINE r == proc.r
<1>1. TypeOK /\ DiskInv /\ ProcInv
  BY DEF IInv
<1>2. /\ proc # None /\ proc.cmd = "abort" /\ proc.pc = "clean" /\ intent = None /\ r \in Receipts /\ r =
            proc.r /\ previous[r] # None
      /\ journal # None /\ journal.r = r /\ journal \in Journal /\ journal.phase \in {"abort-cleanup",
            "cancel-cleanup"}
  BY <1>1, Typed DEF AbortCandidate, ProcInv, At, IntentProc, StagePcs, CommandProc, AbortProc, CancelProc,
     CancelPcs, CleanProc, CleanPcs, DiskInv, SurfaceInv, PreviousInv, ReceiptInv, AbortCleans
<1>0. CASE ~(bundle[r] # "partial")
  BY <1>0, <1>2, Refused DEF AbortCandidate, Unless
<1>c. CASE bundle[r] # "partial"
  <2>1. /\ proc' \in Process /\ proc' # None /\ proc'.cmd = proc.cmd /\ proc'.r = proc.r /\ proc'.rec =
              proc.rec /\ proc'.pc = "remove" /\ outcome' = outcome
        /\ UNCHANGED <<surface, bundle, staged, torn, previous, intent, pending, receipt, journal, marker,
                      schema, transition, daemon, outcome, superseded>>
    BY <1>1, <1>2, <1>c, Typed, Goes DEF AbortCandidate, Unless, disk, records, database, Pcs
  <2> HIDE DEF r
  <2>2. TypeOK'
    BY <1>1, <1>2, <1>c, <2>1, Typed DEF TypeOK
  <2>3. PreviousInv' /\ IntentInv' /\ ReceiptInv' /\ MarkerInv' /\ SurfaceInv' /\ CarriedInv'
          /\ TransitionInv' /\ SchemaInv'
    BY <1>1, <2>1, Frame DEF DiskInv
  <2>4. ProcInv'
    BY <1>1, <1>2, <1>c, <2>1, Typed
      DEF ProcInv, IntentProc, StageProc, CommandProc, BodyProc, PrepareProc, ActivateProc, UndoProc,
         FinalizeProc, AbortProc, CancelProc, CleanProc, StartProc, StagePcs, CancelPcs, CleanPcs,
         SourceOf, Rollback, CancelPhases, Forward, Back, Whole, SurfacesBefore, AllSurfaces, current
  <2> QED
    BY <2>2, <2>3, <2>4 DEF IInv, DiskInv
<1> QED
  BY <1>0, <1>c

LEMMA AbortRemovesCandidateKeeps == IInv /\ AbortRemovesCandidate => IInv'
<1> SUFFICES ASSUME IInv, AbortRemovesCandidate PROVE IInv'
  OBVIOUS
<1> DEFINE r == proc.r
<1>1. TypeOK /\ DiskInv /\ ProcInv
  BY DEF IInv
<1>2. /\ proc # None /\ proc.cmd = "abort" /\ proc.pc = "remove" /\ intent = None /\ r \in Receipts /\ r =
            proc.r /\ previous[r] # None
      /\ journal # None /\ journal.r = r /\ journal \in Journal /\ journal.phase \in {"abort-cleanup",
            "cancel-cleanup"}
      /\ Rollback(r) # r /\ Whole(Rollback(r)) /\ Rollback(r) \in Bundles
  BY <1>1, Typed DEF AbortRemovesCandidate, ProcInv, At, IntentProc, StagePcs, CommandProc, AbortProc,
     CancelProc, CancelPcs, CleanProc, CleanPcs, DiskInv, SurfaceInv, PreviousInv, ReceiptInv
<1>3. /\ bundle' \in [Bundles -> {"absent", "temp", "present", "partial"}]
      /\ \A b \in Bundles : bundle'[b] = bundle[b] \/ (bundle[b] \in {"present", "partial"} /\ bundle'[b] \in
            {"partial", "absent"})
      /\ bundle'[Rollback(r)] = bundle[Rollback(r)]
      /\ UNCHANGED <<surface, staged, torn, previous, intent, pending, receipt, journal, marker, schema,
                    transition, daemon, proc, outcome, superseded>>
  BY <1>1, <1>2, Typed DEF AbortRemovesCandidate, Unless, disk, records, database, RemoveBundle, OnDisk
<1> HIDE DEF r
<1>4. TypeOK'
  BY <1>1, <1>2, <1>3, Typed DEF TypeOK
<1>5. PreviousInv'
  BY <1>1, <1>2, <1>3, Typed DEF DiskInv, PreviousInv, Settled, Rollback
<1>6. MarkerInv'
  BY <1>1, <1>2, <1>3, Typed DEF DiskInv, MarkerInv
<1>7. SurfaceInv'
  BY <1>1, <1>2, <1>3, Typed
    DEF DiskInv, SurfaceInv, Settled, Rollback, Back, CancelPhases, AllSurfaces, current, Whole
<1>8. TransitionInv'
  BY <1>1, <1>2, <1>3, Typed DEF DiskInv, TransitionInv, Rollback, Back, CancelPhases, current
<1>9. IntentInv' /\ ReceiptInv' /\ CarriedInv' /\ SchemaInv'
  BY <1>1, <1>3, Frame DEF DiskInv
<1>10. ProcInv'
  BY <1>1, <1>2, <1>3, Typed
    DEF ProcInv, IntentProc, StageProc, CommandProc, BodyProc, PrepareProc, ActivateProc, UndoProc,
       FinalizeProc, AbortProc, CancelProc, CleanProc, StartProc, StagePcs, CancelPcs, CleanPcs, SourceOf,
       Rollback, CancelPhases, Forward, Back, Whole, SurfacesBefore, AllSurfaces, current
<1> QED
  BY <1>4, <1>5, <1>6, <1>7, <1>8, <1>9, <1>10 DEF IInv, DiskInv

LEMMA AbortMarksKeeps == IInv /\ AbortMarks => IInv'
<1> SUFFICES ASSUME IInv, AbortMarks PROVE IInv'
  OBVIOUS
<1> DEFINE r == proc.r
<1>1. TypeOK /\ DiskInv /\ ProcInv
  BY DEF IInv
<1>2. /\ proc # None /\ proc.cmd = "abort" /\ proc.pc = "remove" /\ intent = None /\ r \in Receipts /\ r =
            proc.r /\ previous[r] # None
      /\ journal # None /\ journal.r = r /\ journal \in Journal /\ journal.phase \in {"abort-cleanup",
            "cancel-cleanup"}
      /\ Rollback(r) # r /\ Whole(Rollback(r)) /\ Rollback(r) \in Bundles
      /\ bundle[r] = "absent"
      /\ transition # None => transition.r # r
  BY <1>1, Typed DEF AbortMarks, ProcInv, At, IntentProc, StagePcs, CommandProc, AbortProc, CancelProc,
     CancelPcs, CleanProc, CleanPcs, DiskInv, SurfaceInv, PreviousInv, ReceiptInv
<1>0. CASE ~(AbortHygiene(r))
  BY <1>0, <1>2, Refused DEF AbortMarks, Unless, records
<1>c. CASE AbortHygiene(r)
  <2>1. /\ marker' = [marker EXCEPT ![r] = "aborted"]
        /\ proc' \in Process /\ proc' # None /\ proc'.cmd = proc.cmd /\ proc'.r = proc.r /\ proc'.rec =
              proc.rec /\ proc'.pc = "drop" /\ outcome' = outcome
        /\ UNCHANGED <<surface, bundle, staged, torn, previous, intent, pending, receipt, journal, schema,
                      transition, daemon, outcome, superseded>>
    BY <1>1, <1>2, <1>c, Typed, Goes DEF AbortMarks, Unless, disk, records, database, Pcs
  <2> HIDE DEF r
  <2>2. TypeOK'
    BY <1>1, <1>2, <1>c, <2>1, Typed DEF TypeOK
  <2>3. PreviousInv'
    BY <1>1, <1>2, <1>c, <2>1, Typed DEF DiskInv, PreviousInv, Settled, Rollback
  <2>4. IntentInv'
    BY <1>1, <1>2, <1>c, <2>1, Typed DEF DiskInv, IntentInv
  <2>5. ReceiptInv'
    BY <1>1, <1>2, <1>c, <2>1, Typed DEF DiskInv, ReceiptInv, SourceOf, Rollback, CancelPhases
  <2>6. MarkerInv'
    BY <1>1, <1>2, <1>c, <2>1, Typed DEF DiskInv, MarkerInv
  <2>7. SurfaceInv'
    BY <1>1, <1>2, <1>c, <2>1, Typed
      DEF DiskInv, SurfaceInv, Settled, Rollback, Back, CancelPhases, AllSurfaces, current, Whole
  <2>8. CarriedInv' /\ TransitionInv' /\ SchemaInv'
    BY <1>1, <2>1, Frame DEF DiskInv
  <2>9. ProcInv'
    BY <1>1, <1>2, <1>c, <2>1, Typed
      DEF ProcInv, IntentProc, StageProc, CommandProc, BodyProc, PrepareProc, ActivateProc, UndoProc,
         FinalizeProc, AbortProc, CancelProc, CleanProc, StartProc, StagePcs, CancelPcs, CleanPcs,
         SourceOf, Rollback, CancelPhases, Forward, Back, Whole, SurfacesBefore, AllSurfaces, current
  <2> QED
    BY <2>2, <2>3, <2>4, <2>5, <2>6, <2>7, <2>8, <2>9 DEF IInv, DiskInv
<1> QED
  BY <1>0, <1>c

-----------------------------------------------------------------------------
\* Start and stop.
LEMMA StartInterruptedKeeps == IInv /\ StartInterrupted => IInv'
<1> SUFFICES ASSUME IInv, StartInterrupted PROVE IInv'
  OBVIOUS
<1>1. TypeOK /\ DiskInv /\ ProcInv
  BY DEF IInv
<1>2. /\ proc # None /\ proc.cmd = "start" /\ proc.pc = "body" /\ intent = None
      /\ journal = None /\ transition # None
      /\ current = Rollback(transition.r) \/ bundle[Rollback(transition.r)] = "absent"
  BY <1>1, Typed DEF StartInterrupted, ProcInv, At, IntentProc, StagePcs, BodyProc, StartProc, DiskInv,
     SurfaceInv, TransitionInv, Back, CancelPhases, Prepared, AbortPhases
<1>3. /\ outcome' \in {"none", "done", "refused", "died"} /\ daemon' \in {daemon, None}
      /\ proc' = None \/ (/\ proc' \in Process /\ proc' # None /\ proc'.cmd = proc.cmd /\ proc'.r = proc.r
                     /\ proc'.pc = "database" /\ current = Rollback(transition.r) /\ Whole(current))
      /\ UNCHANGED <<surface, bundle, staged, torn, previous, intent, pending, receipt, journal, marker,
                    schema, transition, superseded>>
  BY <1>1, <1>2, Typed, Goes, Ends DEF StartInterrupted, Unless, disk, records, database, Pcs, OldBundle, Whole
<1>4. TypeOK'
  BY <1>1, <1>2, <1>3, Typed DEF TypeOK
<1>5. PreviousInv' /\ IntentInv' /\ ReceiptInv' /\ MarkerInv' /\ SurfaceInv' /\ CarriedInv' /\ TransitionInv'
        /\ SchemaInv'
  BY <1>1, <1>3, Frame DEF DiskInv
<1>6. ProcInv'
  BY <1>1, <1>2, <1>3, Typed
    DEF ProcInv, IntentProc, StageProc, CommandProc, BodyProc, PrepareProc, ActivateProc, UndoProc,
       FinalizeProc, AbortProc, CancelProc, CleanProc, StartProc, StagePcs, CancelPcs, CleanPcs, SourceOf,
       Rollback, CancelPhases, Forward, Back, Whole, SurfacesBefore, AllSurfaces, current
<1> QED
  BY <1>4, <1>5, <1>6 DEF IInv, DiskInv

LEMMA StartRecoveredKeeps == IInv /\ StartRecovered => IInv'
<1> SUFFICES ASSUME IInv, StartRecovered PROVE IInv'
  OBVIOUS
<1> DEFINE b == Rollback(transition.r)
<1>1. TypeOK /\ DiskInv /\ ProcInv
  BY DEF IInv
<1>2. /\ proc # None /\ proc.cmd = "start" /\ proc.pc = "database" /\ intent = None
      /\ journal = None /\ transition # None /\ transition.state = "restored" /\ b = Rollback(transition.r)
            /\ current = b /\ bundle[b] = "present" /\ AllSurfaces(b) /\ b \in Bundles
  BY <1>1, Typed DEF StartRecovered, ProcInv, At, IntentProc, StagePcs, BodyProc, StartProc, DiskInv,
     SurfaceInv, TransitionInv, Back, CancelPhases, Whole
<1>3. /\ proc' = [proc EXCEPT !.pc = "spawn", !.r = b]
      /\ surface' = [s \in Surfaces |-> IF s = 1 THEN surface[s] ELSE b]
  BY <1>1, <1>2, Typed DEF StartRecovered, OldBundle
<1>4. surface' = surface
  BY <1>1, <1>2, <1>3, Typed, Absence DEF TypeOK, Snapshot, AllSurfaces
<1>5. proc' \in Process /\ proc' # None /\ proc'.cmd = proc.cmd /\ proc'.r = b /\ proc'.pc = "spawn"
         /\ proc'.rec = proc.rec
  <2>1. proc \in Process /\ "spawn" \in Pcs /\ b \in Bundles
    BY <1>1, <1>2, Typed DEF Pcs
  <2> HIDE DEF b
  <2> QED
    BY <1>3, <2>1, Absence DEF Process
<1>6. UNCHANGED <<surface, bundle, staged, torn, previous, intent, pending, receipt, journal, marker, schema,
                 transition, daemon, outcome, superseded>>
  BY <1>1, <1>2, <1>3, <1>4, <1>5, Typed DEF StartRecovered, Unless, disk, records, database
<1> HIDE DEF b
<1>7. TypeOK'
  BY <1>1, <1>2, <1>3, <1>4, <1>5, <1>6, Typed DEF TypeOK
<1>8. PreviousInv' /\ IntentInv' /\ ReceiptInv' /\ MarkerInv' /\ SurfaceInv' /\ CarriedInv' /\ TransitionInv'
        /\ SchemaInv'
  BY <1>1, <1>6, Frame DEF DiskInv
<1>9. ProcInv'
  BY <1>1, <1>2, <1>3, <1>4, <1>5, <1>6, Typed
    DEF ProcInv, IntentProc, StageProc, CommandProc, BodyProc, PrepareProc, ActivateProc, UndoProc,
       FinalizeProc, AbortProc, CancelProc, CleanProc, StartProc, StagePcs, CancelPcs, CleanPcs, SourceOf,
       Rollback, CancelPhases, Forward, Back, Whole, SurfacesBefore, AllSurfaces, current
<1> QED
  BY <1>7, <1>8, <1>9 DEF IInv, DiskInv

LEMMA StartGuardKeeps == IInv /\ StartGuard => IInv'
<1> SUFFICES ASSUME IInv, StartGuard PROVE IInv'
  OBVIOUS
<1>1. TypeOK /\ DiskInv /\ ProcInv
  BY DEF IInv
<1>2. /\ proc # None /\ proc.cmd = "start" /\ proc.pc = "body" /\ intent = None
      /\ journal = None => transition = None
      /\ journal # None => journal.phase = "committed"
  BY <1>1, Typed DEF StartGuard, ProcInv, At, IntentProc, StagePcs, BodyProc, StartProc, DiskInv,
     SurfaceInv, TransitionInv, Back, CancelPhases, Prepared, AbortPhases
<1>3. /\ outcome' \in {"none", "done", "refused", "died"}
      /\ proc' = None \/ (/\ proc' \in Process /\ proc' # None /\ proc'.cmd = proc.cmd /\ proc'.r = proc.r
            /\ proc'.pc = "spawn")
      /\ UNCHANGED <<surface, bundle, staged, torn, previous, intent, pending, receipt, journal, marker,
                    schema, transition, daemon, superseded>>
  BY <1>1, <1>2, Typed, Goes, Ends DEF StartGuard, Unless, disk, records, database, Pcs
<1>4. TypeOK'
  BY <1>1, <1>2, <1>3, Typed DEF TypeOK
<1>5. PreviousInv' /\ IntentInv' /\ ReceiptInv' /\ MarkerInv' /\ SurfaceInv' /\ CarriedInv' /\ TransitionInv'
        /\ SchemaInv'
  BY <1>1, <1>3, Frame DEF DiskInv
<1>6. ProcInv'
  BY <1>1, <1>2, <1>3, Typed
    DEF ProcInv, IntentProc, StageProc, CommandProc, BodyProc, PrepareProc, ActivateProc, UndoProc,
       FinalizeProc, AbortProc, CancelProc, CleanProc, StartProc, StagePcs, CancelPcs, CleanPcs, SourceOf,
       Rollback, CancelPhases, Forward, Back, Whole, SurfacesBefore, AllSurfaces, current
<1> QED
  BY <1>4, <1>5, <1>6 DEF IInv, DiskInv

LEMMA StartDaemonKeeps == IInv /\ StartDaemon => IInv'
<1> SUFFICES ASSUME IInv, StartDaemon PROVE IInv'
  OBVIOUS
<1>1. TypeOK /\ DiskInv /\ ProcInv
  BY DEF IInv
<1>2. proc # None /\ proc.cmd = "start" /\ proc.pc = "spawn" /\ intent = None
  BY <1>1, Typed DEF StartDaemon, ProcInv, At, IntentProc, StagePcs, BodyProc, StartProc, DiskInv,
     SurfaceInv, TransitionInv, Back, CancelPhases
<1>3. /\ outcome' \in {"none", "done", "refused", "died"} /\ daemon' \in Bundles \cup {None}
      /\ proc' = None \/ (/\ proc' \in Process /\ proc' # None /\ proc'.cmd = proc.cmd /\ proc'.r = proc.r
            /\ proc'.pc = "complete")
      /\ UNCHANGED <<surface, bundle, staged, torn, previous, intent, pending, receipt, journal, marker,
                    schema, transition, superseded>>
  BY <1>1, <1>2, Typed, Goes, Ends DEF StartDaemon, Unless, disk, records, database, Pcs, TypeOK
<1>4. TypeOK'
  BY <1>1, <1>2, <1>3, Typed DEF TypeOK
<1>5. PreviousInv' /\ IntentInv' /\ ReceiptInv' /\ MarkerInv' /\ SurfaceInv' /\ CarriedInv' /\ TransitionInv'
        /\ SchemaInv'
  BY <1>1, <1>3, Frame DEF DiskInv
<1>6. ProcInv'
  BY <1>1, <1>2, <1>3, Typed
    DEF ProcInv, IntentProc, StageProc, CommandProc, BodyProc, PrepareProc, ActivateProc, UndoProc,
       FinalizeProc, AbortProc, CancelProc, CleanProc, StartProc, StagePcs, CancelPcs, CleanPcs, SourceOf,
       Rollback, CancelPhases, Forward, Back, Whole, SurfacesBefore, AllSurfaces, current
<1> QED
  BY <1>4, <1>5, <1>6 DEF IInv, DiskInv

LEMMA StartCompletesKeeps == IInv /\ StartCompletes => IInv'
<1> SUFFICES ASSUME IInv, StartCompletes PROVE IInv'
  OBVIOUS
<1>1. TypeOK /\ DiskInv /\ ProcInv
  BY DEF IInv
<1>2. /\ proc # None /\ proc.cmd = "start" /\ proc.pc = "complete" /\ intent = None
      /\ journal # None => journal.phase = "committed"
      /\ journal = None /\ transition # None =>
           transition.state = "restored" /\ proc.r = Rollback(transition.r) /\ current = proc.r
  BY <1>1, Typed DEF StartCompletes, ProcInv, At, IntentProc, StagePcs, BodyProc, StartProc, DiskInv,
     SurfaceInv, TransitionInv, Back, CancelPhases
<1>3. /\ transition' = None
      /\ outcome' \in {"none", "done", "refused", "died"}
      /\ proc' = None \/ (/\ proc' \in Process /\ proc' # None /\ proc'.cmd = proc.cmd /\ proc'.r = proc.r
                     /\ proc'.pc = "prune" /\ journal = None /\ current = proc.r)
      /\ UNCHANGED <<surface, bundle, staged, torn, previous, intent, pending, receipt, journal, marker,
                    schema, daemon, superseded>>
  BY <1>1, <1>2, Typed, Goes, Ends DEF StartCompletes, Unless, disk, records, database, Pcs, Prepared
<1>4. TypeOK'
  BY <1>1, <1>2, <1>3, Typed DEF TypeOK
<1>5. IntentInv'
  BY <1>1, <1>2, <1>3, Typed DEF DiskInv, IntentInv
<1>6. MarkerInv'
  BY <1>1, <1>2, <1>3, Typed DEF DiskInv, MarkerInv
<1>7. TransitionInv'
  BY <1>1, <1>2, <1>3, Typed DEF DiskInv, TransitionInv, Rollback, Back, CancelPhases, current
<1>8. SchemaInv'
  BY <1>1, <1>2, <1>3, Typed
    DEF DiskInv, SchemaInv, Rollback, Back, CancelPhases, Forward, current, TransitionInv
<1>9. PreviousInv' /\ ReceiptInv' /\ SurfaceInv' /\ CarriedInv'
  BY <1>1, <1>3, Frame DEF DiskInv
<1>10. ProcInv'
  BY <1>1, <1>2, <1>3, Typed
    DEF ProcInv, IntentProc, StageProc, CommandProc, BodyProc, PrepareProc, ActivateProc, UndoProc,
       FinalizeProc, AbortProc, CancelProc, CleanProc, StartProc, StagePcs, CancelPcs, CleanPcs, SourceOf,
       Rollback, CancelPhases, Forward, Back, Whole, SurfacesBefore, AllSurfaces, current
<1> QED
  BY <1>4, <1>5, <1>6, <1>7, <1>8, <1>9, <1>10 DEF IInv, DiskInv

LEMMA StartPrunesKeeps == IInv /\ StartPrunes => IInv'
<1> SUFFICES ASSUME IInv, StartPrunes PROVE IInv'
  OBVIOUS
<1>1. TypeOK /\ DiskInv /\ ProcInv
  BY DEF IInv
<1>2. /\ proc # None /\ proc.cmd = "start" /\ proc.pc = "prune" /\ intent = None
      /\ journal = None /\ transition = None /\ current = proc.r
  BY <1>1, Typed DEF StartPrunes, ProcInv, At, IntentProc, StagePcs, BodyProc, StartProc, DiskInv,
     SurfaceInv, TransitionInv, Back, CancelPhases
<1>3. /\ bundle' \in [Bundles -> {"absent", "temp", "present", "partial"}]
      /\ \A b \in Bundles : bundle'[b] = bundle[b] \/ (bundle[b] \in {"present", "partial"} /\ bundle'[b] \in
            {"partial", "absent"})
      /\ bundle'[current] = bundle[current]
      /\ outcome' \in {"none", "done", "refused", "died"}
      /\ proc' = None \/ (proc' = proc /\ outcome' = outcome)
      /\ UNCHANGED <<surface, staged, torn, previous, intent, pending, receipt, journal, marker, schema,
                    transition, daemon, superseded>>
  BY <1>1, <1>2, Typed, Ends DEF StartPrunes, Unless, disk, records, database, Others, RemoveBundle, OnDisk
<1>4. TypeOK'
  BY <1>1, <1>2, <1>3, Typed DEF TypeOK
<1>5. PreviousInv'
  BY <1>1, <1>2, <1>3, Typed DEF DiskInv, PreviousInv, Settled, Rollback
<1>6. MarkerInv'
  BY <1>1, <1>2, <1>3, Typed DEF DiskInv, MarkerInv
<1>7. SurfaceInv'
  BY <1>1, <1>2, <1>3, Typed
    DEF DiskInv, SurfaceInv, Settled, Rollback, Back, CancelPhases, AllSurfaces, current, Whole
<1>8. TransitionInv'
  BY <1>1, <1>2, <1>3, Typed DEF DiskInv, TransitionInv, Rollback, Back, CancelPhases, current
<1>9. IntentInv' /\ ReceiptInv' /\ CarriedInv' /\ SchemaInv'
  BY <1>1, <1>3, Frame DEF DiskInv
<1>10. ProcInv'
  BY <1>1, <1>2, <1>3, Typed
    DEF ProcInv, IntentProc, StageProc, CommandProc, BodyProc, PrepareProc, ActivateProc, UndoProc,
       FinalizeProc, AbortProc, CancelProc, CleanProc, StartProc, StagePcs, CancelPcs, CleanPcs, SourceOf,
       Rollback, CancelPhases, Forward, Back, Whole, SurfacesBefore, AllSurfaces, current
<1> QED
  BY <1>4, <1>5, <1>6, <1>7, <1>8, <1>9, <1>10 DEF IInv, DiskInv

LEMMA StopKeeps == IInv /\ Stop => IInv'
<1> SUFFICES ASSUME IInv, Stop PROVE IInv'
  OBVIOUS
<1>1. TypeOK /\ DiskInv /\ ProcInv
  BY DEF IInv
<1>2. proc # None
  BY <1>1, Typed DEF Stop, ProcInv, At
<1>3. /\ daemon' \in Bundles \cup {None}
      /\ proc' = None /\ outcome' \in {"none", "done", "refused", "died"}
      /\ UNCHANGED <<surface, bundle, staged, torn, previous, intent, pending, receipt, journal, marker,
                    schema, transition, superseded>>
  BY <1>1, <1>2, Typed, Ends DEF Stop, Unless, disk, records, database, TypeOK
<1>4. TypeOK'
  BY <1>1, <1>2, <1>3, Typed DEF TypeOK
<1>5. PreviousInv' /\ IntentInv' /\ ReceiptInv' /\ MarkerInv' /\ SurfaceInv' /\ CarriedInv' /\ TransitionInv'
        /\ SchemaInv'
  BY <1>1, <1>3, Frame DEF DiskInv
<1>6. ProcInv'
  BY <1>3 DEF ProcInv
<1> QED
  BY <1>4, <1>5, <1>6 DEF IInv, DiskInv

\* The receipt an abort works from, and the journals it can find.
LEMMA AbortFile ==
  ASSUME IInv, At("abort", "body")
  PROVE  /\ proc # None /\ proc.r \in Receipts /\ previous[proc.r] # None /\ intent = None
         /\ AbortReceipt \in Receipt /\ SourceOf(proc.r, AbortReceipt)
         /\ receipt[proc.r] # None => receipt[proc.r] = AbortReceipt
         /\ journal # None => journal.r = proc.r
         /\ receipt[proc.r] # None \/ journal # None
         /\ AbortReceipt.activated =>
              /\ journal # None /\ journal.phase \in {"committed", "aborting", "abort-cleanup"}
              /\ journal.phase # "abort-cleanup" => receipt[proc.r] # None
         /\ ~AbortReceipt.activated => journal = None \/ journal.phase \in CancelPhases
<1>1. TypeOK /\ DiskInv /\ ProcInv
  BY DEF IInv
<1>2. /\ proc # None /\ proc.r \in Receipts /\ intent = None
      /\ receipt[proc.r] # None \/ (journal # None /\ journal.r = proc.r)
      /\ journal # None => journal.r = proc.r /\ journal.phase \in {"committed"} \cup AbortPhases
      /\ journal # None /\ journal.phase = "committed" => receipt[journal.r] # None
            /\ receipt[journal.r].activated
  BY <1>1, Typed DEF At, ProcInv, CommandProc, IntentProc, StagePcs, BodyProc
<1>3. previous[proc.r] # None
  BY <1>1, <1>2, Typed DEF DiskInv, ReceiptInv, SurfaceInv
<1>4. CASE receipt[proc.r] # None
  <2>1. AbortReceipt = receipt[proc.r] /\ receipt[proc.r] \in Receipt /\ SourceOf(proc.r, receipt[proc.r])
    BY <1>1, <1>2, <1>4, Typed DEF AbortReceipt, DiskInv, ReceiptInv
  <2>2. receipt[proc.r].activated => journal # None /\ journal.phase \notin CancelPhases
    BY <1>1, <1>2, <1>4 DEF DiskInv, ReceiptInv
  <2>3. ~receipt[proc.r].activated => journal = None \/ journal.phase \in CancelPhases
    BY <1>1, <1>2, <1>4 DEF DiskInv, CarriedInv, AbortPhases, CancelPhases
  <2> QED
    BY <1>2, <1>3, <1>4, <2>1, <2>2, <2>3 DEF AbortPhases, CancelPhases
<1>5. CASE receipt[proc.r] = None
  <2>1. AbortReceipt = journal.rec /\ journal.rec \in Receipt /\ SourceOf(proc.r, journal.rec)
    BY <1>1, <1>2, <1>5, Typed DEF AbortReceipt, DiskInv, CarriedInv
  <2>2. journal # None /\ journal.phase \in AbortPhases /\ journal.phase # "aborting"
    BY <1>1, <1>2, <1>5 DEF DiskInv, CarriedInv
  <2>3. IF journal.rec.activated THEN journal.phase = "abort-cleanup" ELSE journal.phase \in CancelPhases
    BY <1>1, <2>2 DEF DiskInv, CarriedInv, AbortPhases, CancelPhases
  <2> QED
    BY <1>2, <1>3, <1>5, <2>1, <2>2, <2>3 DEF AbortPhases, CancelPhases
<1> QED
  BY <1>4, <1>5

AbortsDatabase(r, file) ==
  /\ At("abort", "body") /\ transition # None /\ transition.r = r
  /\ proc' = [proc EXCEPT !.pc = "database", !.rec = file]
  /\ journal' = [r |-> r, phase |-> "aborting", rec |-> proc'.rec]
  /\ UNCHANGED <<disk, intent, pending, receipt, marker, database, daemon, outcome, superseded>>

AbortsSurfaces(r, file) ==
  /\ At("abort", "body") /\ transition = None /\ schema = file.source /\ Whole(Rollback(r))
  /\ journal.phase = "abort-cleanup" => SurfacesBefore(r)
  /\ proc' = [proc EXCEPT !.pc = IF journal.phase = "abort-cleanup" THEN "clean" ELSE "surfaces", !.rec = file]
  /\ UNCHANGED <<disk, records, database, daemon, outcome, superseded>>

CancelsTransition(r, file) ==
  /\ At("abort", "body") /\ Whole(Rollback(r)) /\ SurfacesBefore(r)
  /\ transition # None /\ transition.r = r
  /\ proc' = [proc EXCEPT !.pc = "cancel", !.rec = [file EXCEPT !.source = transition.source]]
  /\ receipt' = [receipt EXCEPT ![r] = proc'.rec]
  /\ UNCHANGED <<disk, intent, pending, journal, marker, database, daemon, outcome, superseded>>

CancelsSurfaces(r, file) ==
  /\ At("abort", "body") /\ Whole(Rollback(r)) /\ SurfacesBefore(r)
  /\ transition # None => transition.r # r
  /\ proc' = [proc EXCEPT !.pc = "clean", !.rec = file]
  /\ UNCHANGED <<disk, records, database, daemon, outcome, superseded>>

LEMMA AbortBegins ==
  ASSUME AbortBegin
  PROVE  \/ AbortsDatabase(proc.r, AbortReceipt)
         \/ AbortsSurfaces(proc.r, AbortReceipt)
         \/ End("refused") /\ UNCHANGED <<disk, records, database, daemon>>
<1> DEFINE r == proc.r
           cleaning == journal # None /\ journal.phase = "abort-cleanup"
           ok == /\ journal # None /\ Whole(Rollback(r))
                 /\ cleaning \/ Whole(r)
                 /\ Offline
<1>1. CASE ok /\ transition # None /\ transition.r = r
  BY <1>1 DEF AbortBegin, AbortsDatabase, JournalPhase
<1>2. CASE ok /\ transition = None /\ schema = AbortReceipt.source /\ (cleaning => SurfacesBefore(r))
  BY <1>2 DEF AbortBegin, AbortsSurfaces, records
<1>3. CASE ~(ok /\ transition # None /\ transition.r = r) /\ ~(ok /\ transition = None /\ schema =
        AbortReceipt.source /\ (cleaning => SurfacesBefore(r)))
  BY <1>3 DEF AbortBegin, records
<1> QED
  BY <1>1, <1>2, <1>3

LEMMA CancelBegins ==
  ASSUME CancelBegin
  PROVE  \/ CancelsTransition(proc.r, AbortReceipt)
         \/ CancelsSurfaces(proc.r, AbortReceipt)
         \/ End("refused") /\ UNCHANGED <<disk, records, database, daemon>>
  BY DEF CancelBegin, CancelsTransition, CancelsSurfaces, records

LEMMA AbortsDatabaseKeeps ==
  ASSUME IInv, NEW r \in Receipts, NEW file \in Receipt, r = proc.r, file = AbortReceipt, file.activated, AbortsDatabase(r, file)
  PROVE  IInv'
<1>1. TypeOK /\ DiskInv /\ ProcInv
  BY DEF IInv
<1>2. /\ proc # None /\ proc.cmd = "abort" /\ proc.pc = "body" /\ intent = None /\ r = proc.r /\ previous[r] #
            None /\ previous[r] \in Snapshot
      /\ SourceOf(r, file)
      /\ journal # None => journal.r = r
      /\ journal # None /\ journal.phase \in {"committed", "aborting"}
      /\ receipt[r] # None /\ receipt[r].activated
      /\ transition # None /\ transition.r = r
  BY <1>1, Typed, AbortFile DEF AbortsDatabase, ProcInv, At, DiskInv, SchemaInv
<1>3. /\ proc' = [proc EXCEPT !.pc = "database", !.rec = file]
      /\ journal' = [r |-> r, phase |-> "aborting", rec |-> proc'.rec]
  BY <1>1, <1>2, Typed DEF AbortsDatabase
<1>4. proc' \in Process /\ proc' # None /\ proc'.cmd = proc.cmd /\ proc'.r = r /\ proc'.pc = "database"
         /\ proc'.rec = file
  <2>1. proc \in Process /\ "database" \in Pcs
    BY <1>1, <1>2, Typed DEF Pcs
  <2> QED
    BY <1>3, <2>1, Absence DEF Process
<1>5. journal' \in Journal /\ journal'.r = r /\ journal'.phase = "aborting" /\ journal'.rec = file
  BY <1>1, <1>2, <1>3, <1>4, Typed, Absence DEF Journal, Phases
<1>6. journal' # None
  BY <1>1, <1>2, <1>3, <1>4, <1>5, Typed, Absence
<1>7. UNCHANGED <<surface, bundle, staged, torn, previous, intent, pending, receipt, marker, schema,
                 transition, daemon, outcome, superseded>>
  BY <1>1, <1>2, <1>3, <1>4, <1>5, <1>6, Typed DEF AbortsDatabase, Unless, disk, records, database
<1>8. TypeOK'
  BY <1>1, <1>2, <1>3, <1>4, <1>5, <1>6, <1>7, Typed DEF TypeOK
<1>9. PreviousInv'
  BY <1>1, <1>2, <1>3, <1>4, <1>5, <1>6, <1>7, Typed DEF DiskInv, PreviousInv, Settled, Rollback
<1>10. IntentInv'
  BY <1>1, <1>2, <1>3, <1>4, <1>5, <1>6, <1>7, Typed DEF DiskInv, IntentInv
<1>11. ReceiptInv'
  BY <1>1, <1>2, <1>3, <1>4, <1>5, <1>6, <1>7, Typed DEF DiskInv, ReceiptInv, SourceOf, Rollback, CancelPhases
<1>12. MarkerInv'
  BY <1>1, <1>2, <1>3, <1>4, <1>5, <1>6, <1>7, Typed DEF DiskInv, MarkerInv
<1>13. SurfaceInv'
  BY <1>1, <1>2, <1>3, <1>4, <1>5, <1>6, <1>7, Typed
    DEF DiskInv, SurfaceInv, Settled, Rollback, Back, CancelPhases, AllSurfaces, current, Whole
<1>14. CarriedInv'
  BY <1>1, <1>2, <1>3, <1>4, <1>5, <1>6, <1>7, Typed DEF DiskInv, CarriedInv, SourceOf, Rollback, CancelPhases
<1>15. TransitionInv'
  BY <1>1, <1>2, <1>3, <1>4, <1>5, <1>6, <1>7, Typed
    DEF DiskInv, TransitionInv, Rollback, Back, CancelPhases, current
<1>16. SchemaInv'
  BY <1>1, <1>2, <1>3, <1>4, <1>5, <1>6, <1>7, Typed
    DEF DiskInv, SchemaInv, Rollback, Back, CancelPhases, Forward, current
<1>17. ProcInv'
  BY <1>1, <1>2, <1>3, <1>4, <1>5, <1>6, <1>7, Typed
    DEF ProcInv, IntentProc, StageProc, CommandProc, BodyProc, PrepareProc, ActivateProc, UndoProc,
       FinalizeProc, AbortProc, CancelProc, CleanProc, StartProc, StagePcs, CancelPcs, CleanPcs, SourceOf,
       Rollback, CancelPhases, Forward, Back, Whole, SurfacesBefore, AllSurfaces, current
<1> QED
  BY <1>8, <1>9, <1>10, <1>11, <1>12, <1>13, <1>14, <1>15, <1>16, <1>17 DEF IInv, DiskInv

LEMMA AbortsSurfacesKeeps ==
  ASSUME IInv, NEW r \in Receipts, NEW file \in Receipt, r = proc.r, file = AbortReceipt, file.activated, AbortsSurfaces(r, file)
  PROVE  IInv'
<1>1. TypeOK /\ DiskInv /\ ProcInv
  BY DEF IInv
<1>2. /\ proc # None /\ proc.cmd = "abort" /\ proc.pc = "body" /\ intent = None /\ r = proc.r /\ previous[r] #
            None /\ previous[r] \in Snapshot
      /\ SourceOf(r, file)
      /\ journal # None => journal.r = r
      /\ journal # None /\ journal.phase \in {"committed", "aborting", "abort-cleanup"}
      /\ journal.phase # "abort-cleanup" => receipt[r] # None /\ receipt[r].activated
      /\ transition = None /\ schema = file.source /\ schema \in Bundles /\ Whole(Rollback(r))
      /\ journal.phase = "abort-cleanup" => surface = previous[r]
  BY <1>1, Typed, AbortFile DEF AbortsSurfaces, ProcInv, At, SurfacesBefore, TypeOK
<1>3. proc' = [proc EXCEPT !.pc = IF journal.phase = "abort-cleanup" THEN "clean" ELSE "surfaces", !.rec = file]
  BY <1>1, <1>2, Typed DEF AbortsSurfaces
<1>4. /\ proc' \in Process /\ proc' # None /\ proc'.cmd = proc.cmd /\ proc'.r = r /\ proc'.rec = file
      /\ proc'.pc = IF journal.phase = "abort-cleanup" THEN "clean" ELSE "surfaces"
  <2>1. proc \in Process /\ "clean" \in Pcs /\ "surfaces" \in Pcs
    BY <1>1, <1>2, Typed DEF Pcs
  <2> QED
    BY <1>3, <2>1, Absence DEF Process
<1>5. UNCHANGED <<surface, bundle, staged, torn, previous, intent, pending, receipt, journal, marker, schema,
                 transition, daemon, outcome, superseded>>
  BY <1>1, <1>2, <1>3, <1>4, Typed DEF AbortsSurfaces, Unless, disk, records, database
<1>6. TypeOK'
  BY <1>1, <1>2, <1>3, <1>4, <1>5, Typed DEF TypeOK
<1>7. PreviousInv' /\ IntentInv' /\ ReceiptInv' /\ MarkerInv' /\ SurfaceInv' /\ CarriedInv' /\ TransitionInv'
        /\ SchemaInv'
  BY <1>1, <1>5, Frame DEF DiskInv
<1>8. ProcInv'
  BY <1>1, <1>2, <1>3, <1>4, <1>5, Typed, NonceAssumption
    DEF ProcInv, IntentProc, StageProc, CommandProc, BodyProc, PrepareProc, ActivateProc, UndoProc,
       FinalizeProc, AbortProc, CancelProc, CleanProc, StartProc, StagePcs, CancelPcs, CleanPcs, SourceOf,
       Rollback, CancelPhases, Forward, Back, Whole, SurfacesBefore, AllSurfaces, current, Bundles
<1> QED
  BY <1>6, <1>7, <1>8 DEF IInv, DiskInv

LEMMA CancelsTransitionKeeps ==
  ASSUME IInv, NEW r \in Receipts, NEW file \in Receipt, r = proc.r, file = AbortReceipt, ~file.activated, CancelsTransition(r, file)
  PROVE  IInv'
<1>1. TypeOK /\ DiskInv /\ ProcInv
  BY DEF IInv
<1>2. /\ proc # None /\ proc.cmd = "abort" /\ proc.pc = "body" /\ intent = None /\ r = proc.r /\ previous[r] #
            None /\ previous[r] \in Snapshot
      /\ SourceOf(r, file)
      /\ journal # None => journal.r = r
      /\ journal = None \/ journal.phase \in CancelPhases
      /\ receipt[r] # None \/ journal # None
      /\ surface = previous[r] /\ Whole(Rollback(r))
      /\ transition # None /\ transition.r = r /\ transition.source \in Bundles
      /\ superseded # "no" \/ transition.source = Rollback(r)
      /\ receipt[r] # None => ~receipt[r].activated
  BY <1>1, Typed, AbortFile DEF CancelsTransition, ProcInv, At, SurfacesBefore, DiskInv, TransitionInv
<1>3. proc' = [proc EXCEPT !.pc = "cancel", !.rec = [file EXCEPT !.source = transition.source]]
  BY <1>1, <1>2, Typed DEF CancelsTransition
<1>4. /\ [file EXCEPT !.source = transition.source] \in Receipt
      /\ ~[file EXCEPT !.source = transition.source].activated
      /\ [file EXCEPT !.source = transition.source].source = transition.source
  BY <1>1, <1>2, <1>3, Typed, Absence DEF Receipt
<1>5. /\ proc' \in Process /\ proc' # None /\ proc'.cmd = proc.cmd /\ proc'.r = r /\ proc'.pc = "cancel"
      /\ proc'.rec \in Receipt /\ proc'.rec # None /\ ~proc'.rec.activated /\ SourceOf(r, proc'.rec)
  BY <1>1, <1>2, <1>3, <1>4, Typed, Absence DEF Process, Pcs, SourceOf
<1>6. /\ receipt' = [receipt EXCEPT ![r] = proc'.rec]
      /\ receipt'[r] = proc'.rec /\ \A q \in Receipts : q # r => receipt'[q] = receipt[q]
      /\ UNCHANGED <<surface, bundle, staged, torn, previous, intent, pending, journal, marker, schema,
                    transition, daemon, outcome, superseded>>
  BY <1>1, <1>2, <1>3, <1>4, <1>5, Typed DEF CancelsTransition, Unless, disk, records, database
<1>7. TypeOK'
  BY <1>1, <1>2, <1>3, <1>4, <1>5, <1>6, Typed DEF TypeOK
<1>8. PreviousInv'
  BY <1>1, <1>2, <1>3, <1>4, <1>5, <1>6, Typed DEF DiskInv, PreviousInv, Settled, Rollback
<1>9. ReceiptInv'
  BY <1>1, <1>2, <1>3, <1>4, <1>5, <1>6, Typed
    DEF DiskInv, ReceiptInv, SourceOf, Rollback, CancelPhases, SurfaceInv, CancelPhases
<1>10. SurfaceInv'
  BY <1>1, <1>2, <1>3, <1>4, <1>5, <1>6, Typed
    DEF DiskInv, SurfaceInv, Settled, Rollback, Back, CancelPhases, AllSurfaces, current, Whole
<1>11. CarriedInv'
  BY <1>1, <1>2, <1>3, <1>4, <1>5, <1>6, Typed DEF DiskInv, CarriedInv, SourceOf, Rollback, CancelPhases
<1>12. IntentInv' /\ MarkerInv' /\ TransitionInv' /\ SchemaInv'
  BY <1>1, <1>6, Frame DEF DiskInv
<1>13. ProcInv'
  BY <1>1, <1>2, <1>3, <1>4, <1>5, <1>6, Typed
    DEF ProcInv, IntentProc, StageProc, CommandProc, BodyProc, PrepareProc, ActivateProc, UndoProc,
       FinalizeProc, AbortProc, CancelProc, CleanProc, StartProc, StagePcs, CancelPcs, CleanPcs, SourceOf,
       Rollback, CancelPhases, Forward, Back, Whole, SurfacesBefore, AllSurfaces, current
<1> QED
  BY <1>7, <1>8, <1>9, <1>10, <1>11, <1>12, <1>13 DEF IInv, DiskInv

LEMMA CancelsSurfacesKeeps ==
  ASSUME IInv, NEW r \in Receipts, NEW file \in Receipt, r = proc.r, file = AbortReceipt, ~file.activated, CancelsSurfaces(r, file)
  PROVE  IInv'
<1>1. TypeOK /\ DiskInv /\ ProcInv
  BY DEF IInv
<1>2. /\ proc # None /\ proc.cmd = "abort" /\ proc.pc = "body" /\ intent = None /\ r = proc.r /\ previous[r] #
            None /\ previous[r] \in Snapshot
      /\ SourceOf(r, file)
      /\ journal # None => journal.r = r
      /\ journal = None \/ journal.phase \in CancelPhases
      /\ receipt[r] # None \/ journal # None
      /\ surface = previous[r] /\ Whole(Rollback(r))
      /\ receipt[r] # None => ~receipt[r].activated
      /\ transition # None => transition.r # r
      /\ superseded = "no" /\ transition = None => schema = Rollback(r)
  BY <1>1, Typed, AbortFile
    DEF CancelsSurfaces, ProcInv, At, SurfacesBefore, DiskInv, SchemaInv, Back, current, Rollback
<1>3. proc' = [proc EXCEPT !.pc = "clean", !.rec = file]
  BY <1>1, <1>2, Typed DEF CancelsSurfaces
<1>4. proc' \in Process /\ proc' # None /\ proc'.cmd = proc.cmd /\ proc'.r = r /\ proc'.pc = "clean"
         /\ proc'.rec = file
  BY <1>1, <1>2, <1>3, Typed, Absence DEF Process, Pcs
<1>5. UNCHANGED <<surface, bundle, staged, torn, previous, intent, pending, receipt, journal, marker, schema,
                 transition, daemon, outcome, superseded>>
  BY <1>1, <1>2, <1>3, <1>4, Typed DEF CancelsSurfaces, Unless, disk, records, database
<1>6. TypeOK'
  BY <1>1, <1>2, <1>3, <1>4, <1>5, Typed DEF TypeOK
<1>7. PreviousInv' /\ IntentInv' /\ ReceiptInv' /\ MarkerInv' /\ SurfaceInv' /\ CarriedInv' /\ TransitionInv'
        /\ SchemaInv'
  BY <1>1, <1>5, Frame DEF DiskInv
<1>8. ProcInv'
  BY <1>1, <1>2, <1>3, <1>4, <1>5, Typed
    DEF ProcInv, IntentProc, StageProc, CommandProc, BodyProc, PrepareProc, ActivateProc, UndoProc,
       FinalizeProc, AbortProc, CancelProc, CleanProc, StartProc, StagePcs, CancelPcs, CleanPcs, SourceOf,
       Rollback, CancelPhases, Forward, Back, Whole, SurfacesBefore, AllSurfaces, current
<1> QED
  BY <1>6, <1>7, <1>8 DEF IInv, DiskInv

LEMMA AbortBeginKeeps == IInv /\ AbortBegin => IInv'
<1> SUFFICES ASSUME IInv, AbortBegin PROVE IInv'
  OBVIOUS
<1>1. proc.r \in Receipts /\ AbortReceipt \in Receipt /\ AbortReceipt.activated
  BY AbortFile DEF AbortBegin
<1> QED
  BY <1>1, AbortBegins, AbortsDatabaseKeeps, AbortsSurfacesKeeps, Refused

LEMMA CancelBeginKeeps == IInv /\ CancelBegin => IInv'
<1> SUFFICES ASSUME IInv, CancelBegin PROVE IInv'
  OBVIOUS
<1>1. proc.r \in Receipts /\ AbortReceipt \in Receipt /\ ~AbortReceipt.activated
  BY AbortFile DEF CancelBegin
<1> QED
  BY <1>1, CancelBegins, CancelsTransitionKeeps, CancelsSurfacesKeeps, Refused

-----------------------------------------------------------------------------
\* A command that is called, one that is killed, and the daemon going away.
LEMMA InvokeKeeps ==
  ASSUME IInv, NEW cmd \in Commands, NEW r \in Bundles \cup {None}, Invoke(cmd, r),
         cmd \in {"activate", "finalize", "abort"} => r \in Receipts,
         cmd = "abort" => receipt[r] # None \/ (journal # None /\ journal.r = r)
  PROVE  IInv'
<1>1. TypeOK /\ DiskInv
  BY DEF IInv
<1>2. proc' = [cmd |-> cmd, r |-> r, pc |-> "sweep", rec |-> NewReceipt] /\ outcome' = "none"
  BY DEF Invoke
<1>3. proc' \in Process /\ proc'.cmd = cmd /\ proc'.r = r /\ proc'.pc = "sweep"
  BY <1>2, ReceiptFields DEF Process, Pcs
<1>4. UNCHANGED <<disk, records, database, daemon, superseded>>
  BY DEF Invoke
<1>5. TypeOK'
  BY <1>1, <1>2, <1>3, <1>4 DEF TypeOK, disk, records, database
<1>6. DiskInv'
  BY <1>1, <1>4, Frame DEF DiskInv, disk, records, database
<1>7. ProcInv'
  BY <1>3, <1>4 DEF ProcInv, IntentProc, StageProc, CommandProc, BodyProc, PrepareProc, ActivateProc,
     UndoProc, FinalizeProc, AbortProc, CancelProc, CleanProc, StartProc, StagePcs, CancelPcs, CleanPcs,
     disk, records
<1> QED
  BY <1>5, <1>6, <1>7 DEF IInv

LEMMA InvocationsKeep == IInv /\ Invocations => IInv'
<1> SUFFICES ASSUME IInv, Invocations PROVE IInv'
  OBVIOUS
<1>1. TypeOK
  BY DEF IInv
<1>2. CASE InvokeStage
  BY <1>2, InvokeKeeps DEF InvokeStage, Commands
<1>3. CASE InvokeStart
  <2>1. surface[Lifecycle] \in Bundles
    BY <1>1, Typed DEF Lifecycle, Surfaces
  <2> QED
    BY <1>3, <2>1, InvokeKeeps DEF InvokeStart, Commands
<1>4. CASE InvokeStop
  BY <1>4, InvokeKeeps DEF InvokeStop, Commands
<1>5. ASSUME NEW cmd \in {"activate", "finalize", "abort"}, NEW r \in Receipts, InvokeWith(cmd, r)
      PROVE  IInv'
  <2>1. cmd \in Commands /\ r \in Bundles
    BY DEF Commands, Bundles
  <2>2. Invoke(cmd, r) /\ (receipt[r] # None \/ (journal # None /\ journal.r = r))
    BY <1>5 DEF InvokeWith, Loadable
  <2> QED
    BY <2>1, <2>2, InvokeKeeps
<1> QED
  BY <1>2, <1>3, <1>4, <1>5 DEF Invocations

LEMMA DieKeeps == IInv /\ Die => IInv'
  BY Ended DEF Die

\* Neither the invariant of the disk nor that of the command is about the daemon.
LEMMA SameKept ==
  ASSUME DiskInv, ProcInv, UNCHANGED <<disk, records, database, proc, superseded>>
  PROVE  DiskInv' /\ ProcInv'
<1>1. DiskInv'
  BY Frame DEF DiskInv, disk, records, database
<1>2. ProcInv'
  BY DEF ProcInv, IntentProc, StageProc, CommandProc, BodyProc, PrepareProc, ActivateProc, UndoProc,
     FinalizeProc, AbortProc, CancelProc, CleanProc, StartProc, StagePcs, CancelPcs, CleanPcs, SourceOf,
     Rollback, Whole, SurfacesBefore, AllSurfaces, current, disk, records, database
<1> QED
  BY <1>1, <1>2

LEMMA DaemonExitsKeeps == IInv /\ DaemonExits => IInv'
<1> SUFFICES ASSUME IInv, DaemonExits PROVE IInv'
  OBVIOUS
<1>1. TypeOK /\ DiskInv /\ ProcInv
  BY DEF IInv
<1>2. daemon' = None /\ UNCHANGED <<disk, records, database, proc, outcome, superseded>>
  BY DEF DaemonExits
<1>3. TypeOK'
  BY <1>1, <1>2 DEF TypeOK, disk, records, database
<1> QED
  BY <1>1, <1>2, <1>3, SameKept DEF IInv

LEMMA InitKeeps == Init => IInv
<1> SUFFICES ASSUME Init PROVE IInv
  OBVIOUS
<1>1. TypeOK
  BY DEF Init, TypeOK, Snapshot, Bundles
<1>2. PreviousInv /\ IntentInv /\ ReceiptInv
  BY DEF Init, PreviousInv, IntentInv, ReceiptInv
<1>3. MarkerInv /\ CarriedInv /\ TransitionInv
  BY DEF Init, MarkerInv, CarriedInv, TransitionInv
<1>4. current = Baseline /\ AllSurfaces(Baseline)
  BY DEF Init, current, AllSurfaces, Surfaces
<1>5. SurfaceInv
  BY <1>4, NonceAssumption DEF Init, SurfaceInv, Settled, Whole, Bundles
<1>6. SchemaInv
  BY <1>4 DEF Init, SchemaInv, Back
<1>7. ProcInv
  BY DEF Init, ProcInv
<1> QED
  BY <1>1, <1>2, <1>3, <1>5, <1>6, <1>7 DEF IInv, DiskInv

LEMMA StepKeeps == IInv /\ Step => IInv'
<1> SUFFICES ASSUME IInv, Step PROVE IInv'
  OBVIOUS
<1>1. CASE Sweep
  BY <1>1, SweepNothingKeeps, SweepPublishedKeeps, SweepStagedFileKeeps, SweepCandidateKeeps,
     SweepIntentKeeps
    DEF Sweep
<1>2. CASE Gate
  BY <1>2, GateClearKeeps, GateRefusesKeeps, GateResumesKeeps, GateCommittedKeeps, GateUndoesKeeps,
     RestoreSurfaceKeeps, RestoreReceiptKeeps, RestoreDoneKeeps DEF Gate
<1>3. CASE Stage
  BY <1>3, StageRetryKeeps, StageIntentKeeps, StageClaimKeeps, StageOwnKeeps, StagePublishKeeps,
     StageReserveKeeps,
     StageFileKeeps, StageSealKeeps, StageReceiptKeeps, StageUnintentKeeps, StageDoneKeeps DEF Stage
<1>4. CASE Activate
  BY <1>4, ActivatePendingKeeps, ActivateChecksKeeps, PrepareSnapshotKeeps, PrepareMigrateKeeps,
     PrepareBindKeeps,
     UnprepareKeeps, ActivateJournalKeeps, ActivateSwitchKeeps, ActivatePreCommitKeeps, ActivateCommitKeeps,
     ActivatePersistKeeps DEF Activate
<1>5. CASE Finalize
  BY <1>5, FinalizeBeginKeeps, FinalizeProvesKeeps, FinalizeRemovesBundleKeeps, FinalizeRemovesStagedKeeps,
     FinalizeMarksKeeps, DropReceiptKeeps, DropJournalKeeps DEF Finalize
<1>6. CASE Abort
  BY <1>6, AbortBeginKeeps, AbortDatabaseDoneKeeps, AbortSurfacesKeeps, AbortUndoKeeps, AbortCompleteKeeps,
     CancelBeginKeeps, CancelJournalKeeps, CancelDatabaseKeeps, CancelPersistKeeps, CancelRecordKeeps,
     AbortMarksCleanupKeeps, AbortRemovesStagedKeeps, AbortCandidateKeeps, AbortRemovesCandidateKeeps,
     AbortMarksKeeps DEF Abort
<1>7. CASE Start
  BY <1>7, StartInterruptedKeeps, StartRecoveredKeeps, StartGuardKeeps, StartDaemonKeeps, StartCompletesKeeps,
     StartPrunesKeeps DEF Start
<1> QED
  BY <1>1, <1>2, <1>3, <1>4, <1>5, <1>6, <1>7, RestoreDatabaseKeeps, StopKeeps DEF Step

LEMMA NextKeeps == IInv /\ [Next]_vars => IInv'
<1> SUFFICES ASSUME IInv, [Next]_vars PROVE IInv'
  OBVIOUS
<1>1. CASE Fails
  BY <1>1, StageFailsKeeps, PrepareFailsKeeps, ActivateFailsKeeps, DieKeeps DEF Fails
<1>2. CASE UNCHANGED vars
  <2>1. UNCHANGED <<disk, records, database, daemon, proc, outcome, superseded>>
    BY <1>2 DEF vars
  <2>2. DiskInv' /\ ProcInv'
    BY <2>1, SameKept DEF IInv
  <2>3. TypeOK'
    BY <2>1 DEF IInv, TypeOK, disk, records, database
  <2> QED
    BY <2>2, <2>3 DEF IInv
<1> QED
  BY <1>1, <1>2, StepKeeps, InvocationsKeep, DaemonExitsKeeps DEF Next

\* What each file of the installation means for the others, and what a running
\* command may rely on, in every reachable state.
THEOREM InstallationHolds == Spec => []IInv
<1>1. Init => IInv
  BY InitKeeps
<1>2. IInv /\ [Next]_vars => IInv'
  BY NextKeeps
<1> QED
  BY <1>1, <1>2, PTL DEF Spec

\* Every file, directory and link of the installation holds what its code can
\* write there.
THEOREM InstallationTypes == Spec => []TypeOK
<1>1. IInv => TypeOK
  BY DEF IInv
<1> QED
  BY <1>1, InstallationHolds, PTL

\* Without a journal all four surfaces start the same bundle, and with nothing
\* pending the database has that bundle's schema.
THEOREM OneVersionHolds == Spec => []OneVersion
<1>1. IInv => OneVersion
  <2> SUFFICES ASSUME IInv PROVE OneVersion
    OBVIOUS
  <2>1. SurfaceInv /\ SchemaInv
    BY DEF IInv, DiskInv
  <2> QED
    BY <2>1 DEF OneVersion, OneSurface, DatabaseFollowsCurrent, SurfaceInv, SchemaInv, Back
<1> QED
  BY <1>1, InstallationHolds, PTL

\* A bundle that an activation can still go back to is never touched, in any
\* phase of its journal but the removal itself.
THEOREM RollbackKeptHolds == Spec => []RollbackKept
<1>1. IInv => RollbackKept
  BY DEF IInv, DiskInv, SurfaceInv, RollbackKept
<1> QED
  BY <1>1, InstallationHolds, PTL

\* The current bundle is whole outside of one case, that the invariant tells
\* apart: the rollback of a finalization that was killed while it removed the
\* bundle it had replaced.
THEOREM CurrentIsWholeHolds == Spec => []CurrentIsWhole
<1>1. IInv => CurrentIsWhole
  <2> SUFFICES ASSUME IInv PROVE CurrentIsWhole
    OBVIOUS
  <2>1. SurfaceInv
    BY DEF IInv, DiskInv
  <2>2. CASE journal = None
    BY <2>1, <2>2 DEF SurfaceInv, CurrentIsWhole
  <2>3. CASE journal # None
    <3>1. current \in {journal.r, Rollback(journal.r)} /\ (Back => current = Rollback(journal.r))
      BY <2>1, <2>3 DEF SurfaceInv, AllSurfaces, current, Surfaces
    <3>2. CASE journal.phase # "finalize-cleanup"
      BY <2>1, <2>3, <3>1, <3>2 DEF SurfaceInv, CurrentIsWhole
    <3>3. CASE journal.phase = "finalize-cleanup"
      <4>1. \/ superseded = "gutted" \/ current = journal.r
            \/ Whole(Rollback(journal.r))
        BY <2>1, <2>3, <3>3 DEF SurfaceInv, AllSurfaces, current, Surfaces
      <4> QED
        BY <2>1, <2>3, <3>1, <3>3, <4>1 DEF SurfaceInv, CurrentIsWhole, Back, CancelPhases
    <3> QED
      BY <3>2, <3>3
  <2> QED
    BY <2>2, <2>3
<1> QED
  BY <1>1, InstallationHolds, PTL

\* Only four steps move an active surface.
LEMMA SurfaceMovers ==
  ASSUME Next, surface' # surface
  PROVE  RestoreSurface \/ AbortUndo \/ ActivateSwitch \/ StartRecovered
<1>1. CASE Sweep
  BY <1>1 DEF Sweep, SweepNothing, SweepPublished, SweepStagedFile, SweepCandidate, SweepIntent, disk
<1>2. CASE Gate
  BY <1>2 DEF Gate, GateClear, GateRefuses, GateResumes, GateCommitted, GateUndoes, RestoreReceipt,
     RestoreDone, disk
<1>3. CASE Stage
  BY <1>3 DEF Stage, StageRetry, StageIntent, StageClaim, StageOwn, StagePublish, StageReserve, StageFile,
     StageSeal, StageReceipt, StageUnintent, StageDone, disk
<1>4. CASE Activate
  BY <1>4 DEF Activate, ActivatePending, ActivateChecks, PrepareSnapshot, PrepareMigrate, PrepareBind,
     Unprepare, ActivateJournal, ActivatePreCommit, ActivateCommit, ActivatePersist, disk
<1>5. CASE Finalize
  BY <1>5 DEF Finalize, FinalizeBegin, FinalizeProves, FinalizeRemovesBundle, FinalizeRemovesStaged,
     FinalizeMarks, DropReceipt, DropJournal, disk
<1>6. CASE Abort
  BY <1>6 DEF Abort, AbortBegin, AbortDatabaseDone, AbortSurfaces, AbortComplete, CancelBegin,
     CancelJournal, CancelDatabase, CancelPersist, CancelRecord, AbortMarksCleanup, AbortRemovesStaged,
     AbortCandidate, AbortRemovesCandidate, AbortMarks, disk
<1>7. CASE Start
  BY <1>7 DEF Start, StartInterrupted, StartGuard, StartDaemon, StartCompletes, StartPrunes, disk
<1>8. CASE RestoreDatabase \/ Stop \/ DaemonExits \/ Fails
  BY <1>8 DEF RestoreDatabase, Stop, DaemonExits, Fails, StageFails, PrepareFails, ActivateFails, Die, disk
<1>9. CASE Invocations
  BY <1>9 DEF Invocations, InvokeStage, InvokeStart, InvokeStop, InvokeWith, Invoke, disk
<1> QED
  BY <1>1, <1>2, <1>3, <1>4, <1>5, <1>6, <1>7, <1>8, <1>9 DEF Next, Step

\* The bundle whose finalization is marked is left only by activating a later
\* receipt: no gate undoes it and no abort goes behind it.
THEOREM FinalizedStaysHolds == Spec => FinalizedStays
<1> DEFINE Stays == \A r \in Receipts : marker[r] = "finalized" /\ current = r /\ current' # r =>
                      journal # None /\ journal.phase = "activating" /\ journal.r # r
<1>1. IInv /\ [Next]_vars => [Stays]_vars
  <2> SUFFICES ASSUME IInv, Next, NEW r \in Receipts, marker[r] = "finalized", current = r, current' # r
               PROVE  journal # None /\ journal.phase = "activating" /\ journal.r # r
    OBVIOUS
  <2>1. TypeOK /\ DiskInv /\ ProcInv
    BY DEF IInv
  <2>2. 0 \in Surfaces /\ surface[0] = r /\ surface'[0] # r
    BY DEF current, Surfaces
  \* Going back on the journal's receipt leaves alone what is back already.
  <2>3. ASSUME journal # None, proc.r = journal.r, marker[journal.r] # "finalized",
               NEW s \in Surfaces, surface' = [surface EXCEPT ![s] = previous[proc.r][s]]
        PROVE  FALSE
    <3>1. r = Rollback(journal.r)
      BY <2>1, <2>2, <2>3, Typed DEF DiskInv, SurfaceInv
    <3>2. previous[journal.r][0] = r
      BY <3>1 DEF Rollback
    <3> QED
      BY <2>1, <2>2, <2>3, <3>2, Typed DEF Snapshot
  <2>4. CASE RestoreSurface
    <3>1. journal # None /\ journal.r = proc.r /\ marker[journal.r] # "finalized" /\ proc.r \in Receipts
      BY <2>1, <2>4, Typed DEF RestoreSurface, Restoring, ProcInv, UndoProc
    <3>2. PICK s \in Surfaces : surface' = [surface EXCEPT ![s] = previous[proc.r][s]]
      BY <2>1, <2>4, <3>1, Typed, SurfaceSet DEF RestoreSurface, Changed
    <3> QED
      BY <2>3, <3>1, <3>2
  <2>5. CASE AbortUndo
    <3>1. journal # None /\ journal.r = proc.r /\ journal.phase = "aborting" /\ proc.r \in Receipts
      BY <2>1, <2>5, Typed DEF AbortUndo, At, ProcInv, AbortProc
    <3>2. marker[journal.r] # "finalized"
      BY <2>1, <3>1 DEF DiskInv, MarkerInv
    <3>3. PICK s \in Surfaces : surface' = [surface EXCEPT ![s] = previous[proc.r][s]]
      BY <2>1, <2>5, <3>1, Typed, SurfaceSet DEF AbortUndo, Changed
    <3> QED
      BY <2>3, <3>1, <3>2, <3>3
  <2>6. CASE ActivateSwitch
    <3>1. journal # None /\ journal.r = proc.r /\ journal.phase = "activating" /\ journal.r \in Receipts
      BY <2>1, <2>6, Typed DEF ActivateSwitch, At, ProcInv, ActivateProc
    <3>2. marker[journal.r] # "finalized"
      BY <2>1, <3>1 DEF DiskInv, MarkerInv
    <3> QED
      BY <3>1, <3>2
  <2>7. CASE StartRecovered
    <3>1. current = OldBundle
      BY <2>1, <2>7 DEF StartRecovered, At, ProcInv, StartProc, OldBundle
    <3> QED
      BY <2>2, <2>7, <3>1 DEF StartRecovered, current
  <2>8. RestoreSurface \/ AbortUndo \/ ActivateSwitch \/ StartRecovered
    BY <2>2, SurfaceMovers
  <2> QED
    BY <2>4, <2>5, <2>6, <2>7, <2>8
<1> QED
  BY <1>1, InstallationHolds, PTL DEF Spec, FinalizedStays
=============================================================================
