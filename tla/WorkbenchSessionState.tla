----------------------- MODULE WorkbenchSessionState -----------------------
(***************************************************************************)
(* One row of workbench_session_state and the transitions the repository    *)
(* offers on it (daemon/db/workbenchPipelineRepository.ts).  Every caller - *)
(* the quality routes, the transcript reconciler, the aging drain and the   *)
(* V5 authoring service - changes a row only through these operators, so    *)
(* the modules that model the callers share them.                           *)
(*                                                                          *)
(* Timestamps, activity records, the free-text reason and the statuses of   *)
(* the optional artifact kinds are left out: no transition below reads them.*)
(***************************************************************************)
EXTENDS Integers

Publication == {"publish_path", "published", "not_added_to_logbook"}
Transcript  == {"unchecked", "available", "imported", "missing", "permission_needed"}
Quality     == {"unchecked", "passed", "failed"}
Requirement == {"missing", "satisfied"}
Package     == {"missing", "applied", "published"}
Resolution  == {"in_progress", "compile_ready", "automatic_resolved"}
NextAction  == {"check_transcript", "import_transcript", "review_quality",
                "enrich", "create_dossier", "publish", "none"}
Suppression == {"none", "insufficient_evidence", "confirmed_noise", "manual_exclusion"}
Source      == {"automatic", "user"}

NoRevision == -1    \* quality_evidence_revision IS NULL

Row == [publication : Publication, nextAction : NextAction, transcript : Transcript,
        quality : Quality, enrichment : Requirement, dossier : Requirement,
        package : Package, resolution : Resolution, suppression : Suppression,
        source : Source, revision : Int]

(* The row ensureWorkbenchSessionState inserts.                             *)
FreshRow ==
  [publication |-> "publish_path", nextAction |-> "check_transcript",
   transcript |-> "unchecked", quality |-> "unchecked",
   enrichment |-> "missing", dossier |-> "missing", package |-> "missing",
   resolution |-> "in_progress", suppression |-> "none",
   source |-> "automatic", revision |-> NoRevision]

TranscriptReady(row) == row.transcript \in {"available", "imported"}

(***************************************************************************)
(* The derived columns.  They are stored, and only some of the updates      *)
(* recompute them: Refreshed is refreshResolutionAndNextAction.             *)
(***************************************************************************)
ResolutionFor(row) ==
  IF row.publication = "not_added_to_logbook" \/ ~TranscriptReady(row)
     \/ row.quality # "passed" \/ row.enrichment # "satisfied" \/ row.dossier # "satisfied"
    THEN "in_progress"
    ELSE IF row.package = "published" THEN "automatic_resolved" ELSE "compile_ready"

NextActionFor(row) ==
  CASE row.publication = "not_added_to_logbook" -> "none"
    [] row.publication = "published" \/ row.package = "published" -> "none"
    [] OTHER ->
       IF row.transcript = "unchecked" THEN "check_transcript"
       ELSE IF ~TranscriptReady(row) THEN "import_transcript"
       ELSE IF row.quality = "unchecked" THEN "review_quality"
       ELSE IF row.quality = "failed" THEN "none"
       ELSE IF row.enrichment = "missing" THEN "enrich"
       ELSE IF row.dossier = "missing" THEN "create_dossier"
       ELSE "publish"

Refreshed(row) ==
  [row EXCEPT !.resolution = ResolutionFor(row), !.nextAction = NextActionFor(row)]

(***************************************************************************)
(* Transitions.  A COALESCE of the SQL keeps the old column: the operators  *)
(* take the value to store, and callers pass the old one where the code     *)
(* passes nothing.                                                          *)
(***************************************************************************)
WithTranscript(row, status) == Refreshed([row EXCEPT !.transcript = status])

(* markWorkbenchQuality(status "passed"): re-admits a row that was not      *)
(* added; a published row stays published and is not refreshed.             *)
QualityPassed(row, source, revision) ==
  LET passed == [row EXCEPT !.quality = "passed", !.suppression = "none",
                            !.source = source, !.revision = revision]
  IN IF row.publication = "published" THEN passed
     ELSE Refreshed([passed EXCEPT !.publication = "publish_path"])

(* markWorkbenchQuality(status "failed") throws on a published row.         *)
CanFailQuality(row) == row.publication # "published"

QualityFailed(row, source, suppression, revision) ==
  [row EXCEPT !.quality = "failed", !.publication = "not_added_to_logbook",
              !.nextAction = "none", !.suppression = suppression,
              !.source = source, !.revision = revision]

(* markWorkbenchQualityForReview throws on a published row.                 *)
QualityForReview(row, revision) ==
  [row EXCEPT !.quality = "unchecked", !.publication = "publish_path",
              !.nextAction = "review_quality", !.suppression = "insufficient_evidence",
              !.source = "automatic", !.revision = revision]

(* reopenWorkbenchSessionForQualityReview                                   *)
QualityReopened(row, revision) ==
  [QualityForReview(row, revision) EXCEPT !.suppression = "none"]

EnrichmentSatisfied(row) ==
  Refreshed([row EXCEPT
    !.enrichment = "satisfied",
    !.package = IF row.publication = "published" THEN "published"
                ELSE IF row.dossier = "satisfied" THEN "applied" ELSE @])

DossierApplied(row) ==
  Refreshed([row EXCEPT
    !.dossier = "satisfied",
    !.package = IF row.publication = "published" THEN "published"
                ELSE IF row.enrichment = "satisfied" THEN "applied" ELSE @])

(* publicationGateFailures is empty                                         *)
PublicationGateOpen(row) ==
  /\ TranscriptReady(row)
  /\ row.quality = "passed"
  /\ row.enrichment = "satisfied"
  /\ row.dossier = "satisfied"

(* markWorkbenchPublishedInTransaction: no gate of its own.                 *)
Published(row) ==
  IF row.publication = "published" THEN row
  ELSE Refreshed([row EXCEPT !.publication = "published", !.package = "published"])

(***************************************************************************)
(* What V5 authoring asks of a row and does to it.                          *)
(***************************************************************************)

(* workbenchStateIsCompileReady: only a request that re-enriches takes a     *)
(* published session.                                                        *)
RowCompileReady(row, reEnriching) ==
  /\ row.publication = "publish_path" \/ (reEnriching /\ row.publication = "published")
  /\ TranscriptReady(row)
  /\ row.quality = "passed"

(* disposeExcludedSessionFromPackagePath: a session that was not ready when *)
(* its request was created; `precheck' is the disposition of the capture    *)
(* precheck now, `revision' the evidence revision.                          *)
Disposed(row, precheck, revision) ==
  IF row.publication # "publish_path" \/ row.source = "user" THEN row
  ELSE IF precheck = "review" /\ ~TranscriptReady(row) THEN row
  ELSE QualityFailed(row, "automatic",
         IF precheck = "review" THEN "insufficient_evidence" ELSE "confirmed_noise", revision)

(* finishWorkbenchAuthoringV5Pack, on a session of the pack.                 *)
FinishedRow(row, disposition) ==
  IF disposition = "hard_reject"
    THEN QualityFailed(row, "automatic", "confirmed_noise", NoRevision)
    ELSE Published(DossierApplied(EnrichmentSatisfied(row)))
=============================================================================
