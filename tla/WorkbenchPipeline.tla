------------------------- MODULE WorkbenchPipeline -------------------------
(***************************************************************************)
(* Who writes a session's Workbench row.  Several parts of the daemon judge *)
(* the same row, each from what it knows:                                   *)
(*   - the transcript reconciler, after live events and after imports       *)
(*     (workbench/transcriptQualityReconciler.ts);                          *)
(*   - the user, through the quality buttons (daemon/server.ts);            *)
(*   - the transcript and claim routes, and the enrollment of sessions      *)
(*     without a row (workbench/transcriptWorkflow.ts,                      *)
(*     importReconciliation.ts);                                            *)
(*   - the repair of an import (daemon/import/importRepair.ts);             *)
(*   - V5 authoring, which dismisses and finishes sessions (AuthoringV5     *)
(*     models its requests; here are its writes to rows);                   *)
(*   - the start of the daemon: a backfill once per database, then the      *)
(*     ageing of review holds, which the command line runs as well, in a    *)
(*     process of its own (workbench/legacyPublicationBackfill.ts,          *)
(*     qualityReviewAging.ts, cli/workbenchMaintenance.ts).                 *)
(* An evidence revision is a digest of a session's messages, tool calls and *)
(* effects: a number that grows when evidence is added.  How old a review   *)
(* hold is is not modelled: any hold may be old enough.                     *)
(***************************************************************************)
EXTENDS WorkbenchSessionState, FiniteSets

CONSTANTS
  Session,      \* the sessions of the database
  NoRow,        \* a session without a row of workbench_session_state
  MaxRevision,  \* bound on the evidence revisions of a session
  MaxCrashes,   \* bound on the daemon's ends
  MaxListings   \* bound on the ageing runs of the command line

ASSUME PipelineAssumption ==
  NoRow \notin Row /\ MaxRevision \in Nat /\ MaxCrashes \in Nat /\ MaxListings \in Nat

Disposition == {"keep", "review", "suppress"}    \* of the capture precheck

VARIABLES
  row,         \* workbench_session_state
  evidence,    \* what is stored of a session, and what the precheck says of it
  behind,      \* sessions whose row was not judged by their evidence as it is
  repair,      \* sessions whose latest import needs repair
  packed,      \* sessions of an open V5 pack
  listed,      \* the review holds the command line found, with their revisions
  phase,       \* of the daemon
  backfilled,  \* the backfill is marked as completed
  crashes, listings

stored == <<row, evidence, repair, packed, backfilled>>
process == <<listed, phase, crashes, listings>>
vars == <<stored, process, behind>>

TypeOK ==
  /\ row \in [Session -> Row \cup {NoRow}]
  /\ evidence \in [Session -> [revision : 0..MaxRevision, any : BOOLEAN, disposition : Disposition]]
  /\ behind \subseteq Session
  /\ repair \subseteq Session
  /\ packed \subseteq Session
  /\ listed \subseteq Session \X Int
  /\ phase \in {"down", "ageing", "up"}
  /\ backfilled \in BOOLEAN
  /\ crashes \in 0..MaxCrashes
  /\ listings \in 0..MaxListings

(* A session without evidence is empty, and suppressed for it.              *)
Evidence ==
  {e \in [revision : 0..MaxRevision, any : BOOLEAN, disposition : Disposition] :
     ~e.any => e.disposition = "suppress"}

(* A database of an earlier version, whose sessions have no rows yet.       *)
Init ==
  /\ row = [s \in Session |-> NoRow]
  /\ evidence \in [Session -> {e \in Evidence : e.revision = 0}]
  /\ behind = Session
  /\ repair = {} /\ packed = {} /\ listed = {}
  /\ phase = "down"
  /\ backfilled \in BOOLEAN
  /\ crashes = 0 /\ listings = 0

Ensured(r) == IF r = NoRow THEN FreshRow ELSE r
UserExcluded(r) == r # NoRow /\ r.publication = "not_added_to_logbook" /\ r.source = "user"
InLogbook(r) == r # NoRow /\ r.publication = "published"

(***************************************************************************)
(* reconcileImportedTranscript.  Every reason the precheck suppresses for   *)
(* is definitive, so the option finalizeNoise decides nothing.              *)
(***************************************************************************)
AfterTranscript(r, e) ==
  LET status == IF e.any THEN "imported" ELSE "missing"
  IN IF r.transcript = status THEN r ELSE WithTranscript(r, status)

(* Mutant: the author of the decision is not looked at.                     *)
StaleWhoeverDecided(r, revision) ==
  r.publication = "not_added_to_logbook" /\ r.revision # revision

(* An automatic dismissal made from other evidence.                         *)
Stale(r, revision) ==
  /\ r.publication = "not_added_to_logbook"
  /\ r.source = "automatic"
  /\ r.revision # revision

Reconsidered(r, e) ==
  IF Stale(r, e.revision) THEN QualityReopened(r, e.revision) ELSE r

(* removeAutomaticWorkbenchSessionForImportRepair                           *)
RepairRemoved(r) == IF r.publication = "published" \/ r.source = "user" THEN r ELSE NoRow

(* Mutant: held for a review of whatever evidence.                          *)
HeldForAny(r, revision) ==
  r.nextAction = "review_quality" /\ r.suppression = "insufficient_evidence"

(* The row already holds the session for a review of this evidence.         *)
HeldFor(r, revision) ==
  /\ r.nextAction = "review_quality"
  /\ r.suppression = "insufficient_evidence"
  /\ r.revision = revision

Judged(r, e, hold) ==
  IF UserExcluded(r) THEN r
  ELSE IF hold THEN RepairRemoved(r)
  ELSE IF e.disposition = "keep"
    THEN IF r.quality = "passed" /\ r.publication # "not_added_to_logbook" THEN r
         ELSE QualityPassed(r, "automatic", e.revision)
  ELSE IF e.disposition = "review"
    THEN IF HeldFor(r, e.revision) THEN r ELSE QualityForReview(r, e.revision)
  ELSE QualityFailed(r, "automatic", "confirmed_noise", e.revision)

Skipped(r, hold) == (r = NoRow /\ hold) \/ InLogbook(r)

Reconciled(r, e, hold) ==
  IF Skipped(r, hold) THEN r
  ELSE Judged(Reconsidered(AfterTranscript(Ensured(r), e), e), e, hold)

(* What its transactions leave in the database when the daemon ends between *)
(* two of them.                                                             *)
HalfReconciled(r, e) ==
  LET ensured == Ensured(r)
      checked == AfterTranscript(ensured, e)
  IN {ensured, checked, Reconsidered(checked, e)}

(***************************************************************************)
(* Evidence arrives.  The precheck may change its mind without new          *)
(* evidence, when another session turns out to be the same.                 *)
(***************************************************************************)
Later(e) == {n \in Evidence : /\ n.revision \in {e.revision, e.revision + 1}
                              /\ e.any => n.any
                              /\ n.any # e.any => n.revision # e.revision}

UnchangedBut(s, new) == row' = [row EXCEPT ![s] = new]

(* upsertLiveEvent is one transaction, reconciliation included; with the    *)
(* setting that reconciles at the end of a session only, and in imports,    *)
(* the evidence is stored first.                                            *)
LiveEvent(s) ==
  /\ phase = "up"
  /\ \E e \in Later(evidence[s]) :
       /\ evidence' = [evidence EXCEPT ![s] = e]
       /\ UnchangedBut(s, Reconciled(row[s], e, FALSE))
  /\ behind' = behind \ {s}
  /\ UNCHANGED <<repair, packed, backfilled, process>>

EvidenceArrives(s) ==
  /\ phase = "up"
  /\ \E e \in Later(evidence[s]) \ {evidence[s]} : evidence' = [evidence EXCEPT ![s] = e]
  /\ behind' = behind \cup {s}
  /\ UNCHANGED <<row, repair, packed, backfilled, process>>

(* The end of a hydration, and the settlement of a job: a unit that left    *)
(* errors holds the session for repair.  An import of metadata says nothing *)
(* about the health of the transcript.                                      *)
Reconcile(s) ==
  /\ phase = "up"
  /\ \E hold \in BOOLEAN :
       /\ UnchangedBut(s, Reconciled(row[s], evidence[s], hold))
       /\ repair' \in IF hold THEN {repair \cup {s}} ELSE {repair, repair \ {s}}
  /\ behind' = behind \ {s}
  /\ UNCHANGED <<evidence, packed, backfilled, process>>

Ends == phase' = "down" /\ crashes < MaxCrashes /\ crashes' = crashes + 1

ReconcileCut(s) ==
  /\ phase = "up" /\ ~Skipped(row[s], FALSE)
  /\ \E half \in HalfReconciled(row[s], evidence[s]) : UnchangedBut(s, half)
  /\ Ends
  /\ UNCHANGED <<evidence, repair, packed, backfilled, listed, listings, behind>>

(***************************************************************************)
(* Routes                                                                   *)
(***************************************************************************)
RowsOnly == UNCHANGED <<evidence, repair, packed, backfilled, process, behind>>

(* A claim creates the row it is for, held for repair or not; enrollment    *)
(* leaves sessions whose import needs repair alone.                         *)
Claim(s) ==
  /\ phase = "up"
  /\ UnchangedBut(s, Ensured(row[s]))
  /\ RowsOnly

EnrollMissing(s) ==
  /\ phase = "up" /\ row[s] = NoRow /\ s \notin repair
  /\ UnchangedBut(s, FreshRow)
  /\ RowsOnly

(* check-transcript says what is stored, import-transcript(-preview) that a *)
(* transcript is available or needs permission.                             *)
TranscriptRoute(s) ==
  /\ phase = "up"
  /\ \E status \in {"missing", "available", "permission_needed"}
                   \cup (IF evidence[s].any THEN {"imported"} ELSE {}) :
       UnchangedBut(s, WithTranscript(Ensured(row[s]), status))
  /\ RowsOnly

UserExcludes(s) ==
  /\ phase = "up" /\ CanFailQuality(Ensured(row[s]))
  /\ UnchangedBut(s, QualityFailed(Ensured(row[s]), "user", "manual_exclusion", NoRevision))
  /\ RowsOnly

(* The route passes neither source nor revision: both stay as they were.    *)
UserAccepts(s) ==
  /\ phase = "up"
  /\ LET r == Ensured(row[s]) IN UnchangedBut(s, QualityPassed(r, r.source, r.revision))
  /\ RowsOnly

(* The button that runs the precheck again.                                 *)
Precheck(s) ==
  LET r == Ensured(row[s])
      e == evidence[s]
  IN /\ phase = "up" /\ ~UserExcluded(row[s])
     /\ e.disposition # "keep" => CanFailQuality(r)
     /\ UnchangedBut(s,
          CASE e.disposition = "keep"     -> QualityPassed(r, "automatic", e.revision)
            [] e.disposition = "review"   -> QualityForReview(r, e.revision)
            [] e.disposition = "suppress" -> QualityFailed(r, "automatic", "confirmed_noise", e.revision))
     /\ RowsOnly

(* applyImportRepair reopens what was dismissed automatically; the revision *)
(* stays.                                                                   *)
RepairReopens(s) ==
  /\ phase = "up" /\ row[s] # NoRow
  /\ row[s].publication = "not_added_to_logbook" /\ row[s].source = "automatic"
  /\ row[s].suppression \in {"confirmed_noise", "insufficient_evidence"}
  /\ UnchangedBut(s, QualityReopened(row[s], row[s].revision))
  /\ RowsOnly

(***************************************************************************)
(* V5 authoring.  A request takes sessions that are ready; its preparation  *)
(* dismisses those that were not; a pack is finished any time later.        *)
(***************************************************************************)
PackTakes(s) ==
  /\ phase = "up" /\ s \notin packed /\ row[s] # NoRow
  /\ \E reEnriching \in BOOLEAN : RowCompileReady(row[s], reEnriching)
  /\ packed' = packed \cup {s}
  /\ UNCHANGED <<row, evidence, repair, backfilled, process, behind>>

PreparationDismisses(s) ==
  /\ phase = "up" /\ row[s] # NoRow
  /\ UnchangedBut(s, Disposed(row[s], evidence[s].disposition, evidence[s].revision))
  /\ RowsOnly

FinishPack(s) ==
  /\ phase = "up" /\ s \in packed
  /\ \E disposition \in {"publish_ready", "hard_reject"} :
       /\ disposition = "hard_reject" => CanFailQuality(Ensured(row[s]))
       /\ UnchangedBut(s, FinishedRow(Ensured(row[s]), disposition))
  /\ packed' = packed \ {s}
  /\ UNCHANGED <<evidence, repair, backfilled, process, behind>>

(***************************************************************************)
(* Ageing: a review hold becomes a dismissal that keeps its revision.       *)
(***************************************************************************)
ReviewHold(r) ==
  /\ r # NoRow /\ r.publication = "publish_path" /\ r.nextAction = "review_quality"
  /\ r.quality = "unchecked" /\ r.suppression = "insufficient_evidence" /\ r.source = "automatic"

Aged(r, revision) == QualityFailed(r, "automatic", "insufficient_evidence", revision)

(* The command line reads the holds once and writes them one by one, while  *)
(* the daemon may be serving.  A published session ends it with an error.   *)
CliLists ==
  /\ listed = {} /\ listings < MaxListings
  /\ \E old \in SUBSET {s \in Session : ReviewHold(row[s])} :
       listed' = {<<s, row[s].revision>> : s \in old}
  /\ listings' = listings + 1
  /\ UNCHANGED <<stored, phase, crashes, behind>>

CliAges(s) ==
  /\ \E entry \in listed :
       /\ entry[1] = s
       /\ CanFailQuality(Ensured(row[s]))
       /\ UnchangedBut(s, Aged(Ensured(row[s]), entry[2]))
       /\ listed' = listed \ {entry}
  /\ behind' = behind \cup {s}
  /\ UNCHANGED <<evidence, repair, packed, backfilled, phase, crashes, listings>>

CliFails ==
  /\ \E entry \in listed : ~CanFailQuality(Ensured(row[entry[1]]))
  /\ listed' = {}
  /\ UNCHANGED <<stored, phase, crashes, listings, behind>>

(***************************************************************************)
(* The daemon starts and ends.                                              *)
(***************************************************************************)
BackfilledRow(e) ==
  CASE e.disposition = "keep"     -> Published(FreshRow)
    [] e.disposition = "review"   -> QualityForReview(FreshRow, e.revision)
    [] e.disposition = "suppress" ->
         [FreshRow EXCEPT !.publication = "not_added_to_logbook", !.nextAction = "none",
                          !.suppression = "confirmed_noise"]

Backfill(s) ==
  /\ phase = "down" /\ ~backfilled /\ row[s] = NoRow
  /\ UnchangedBut(s, BackfilledRow(evidence[s]))
  /\ RowsOnly

BackfillDone ==
  /\ phase = "down"
  /\ backfilled \/ \A s \in Session : row[s] # NoRow
  /\ backfilled' = TRUE
  /\ phase' = "ageing"
  /\ UNCHANGED <<row, evidence, repair, packed, listed, crashes, listings, behind>>

StartupAges(s) ==
  /\ phase = "ageing" /\ ReviewHold(row[s])
  /\ UnchangedBut(s, Aged(row[s], row[s].revision))
  /\ RowsOnly

Serves ==
  /\ phase = "ageing"
  /\ phase' = "up"
  /\ UNCHANGED <<stored, listed, crashes, listings, behind>>

Crash ==
  /\ phase # "down"
  /\ Ends
  /\ UNCHANGED <<stored, listed, listings, behind>>

OfSession(s) ==
  \/ LiveEvent(s) \/ EvidenceArrives(s) \/ Reconcile(s) \/ ReconcileCut(s)
  \/ Claim(s) \/ EnrollMissing(s) \/ TranscriptRoute(s)
  \/ UserExcludes(s) \/ UserAccepts(s) \/ Precheck(s) \/ RepairReopens(s)
  \/ PackTakes(s) \/ PreparationDismisses(s) \/ FinishPack(s)
  \/ CliAges(s) \/ Backfill(s) \/ StartupAges(s)

Next == (\E s \in Session : OfSession(s)) \/ CliLists \/ CliFails \/ BackfillDone \/ Serves \/ Crash

Spec == Init /\ [][Next]_vars

(***************************************************************************)
(* Properties                                                               *)
(***************************************************************************)

(* Reconciliation, prechecks, repairs, dismissals, ageing and restarts      *)
(* leave a user's exclusion alone: only the user's acceptance, the finish   *)
(* of a pack the session was in, and the command line's ageing from an      *)
(* older list replace it.  And nothing takes a session out of the Logbook.  *)
DecisionsStand ==
  [][\A s \in Session :
       /\ UserExcluded(row[s]) /\ ~UserExcluded(row'[s])
            => UserAccepts(s) \/ FinishPack(s) \/ CliAges(s)
       /\ InLogbook(row[s]) => InLogbook(row'[s])]_vars

(* A session that is dismissed automatically, and was judged by its         *)
(* evidence as it is, has the revision of that evidence or none, so that    *)
(* the next evidence reopens it and a repeated import of the same does not. *)
(* Ageing stores the revision of the hold: this needs every hold to be      *)
(* renewed when the evidence moves on.                                      *)
AutomaticIsCurrent ==
  \A s \in Session \ behind :
    row[s] # NoRow /\ row[s].publication = "not_added_to_logbook" /\ row[s].source = "automatic"
      => row[s].revision \in {evidence[s].revision, NoRevision}
=============================================================================
