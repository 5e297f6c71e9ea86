----------------------- MODULE WorkbenchPipeline_proofs -----------------------
(***************************************************************************)
(* For any number of sessions, evidence revisions and restarts: the user's  *)
(* exclusions and the Logbook stand, and an automatic dismissal is as new   *)
(* as the evidence it was made from.                                        *)
(*                                                                          *)
(* AutomaticIsCurrent speaks of dismissed rows only.  Ageing dismisses with *)
(* the revision of the hold it finds, so the inductive invariant says the   *)
(* same of the rows that wait for a review (Current).                       *)
(***************************************************************************)
EXTENDS WorkbenchPipeline, TLAPS

(* Dismissed automatically, or waiting for a review, at this revision.      *)
Current(r, revision) ==
  r # NoRow /\ r.source = "automatic" =>
    /\ r.publication = "not_added_to_logbook" => r.revision \in {revision, NoRevision}
    /\ r.publication = "publish_path" /\ r.quality # "passed"
         /\ r.suppression = "insufficient_evidence" => r.revision = revision

RowsCurrent == \A s \in Session \ behind : Current(row[s], evidence[s].revision)

PipelineInv == TypeOK /\ RowsCurrent

(* A write that leaves the user's exclusion, and the Logbook, alone.        *)
Stands(r, new) ==
  /\ UserExcluded(r) => UserExcluded(new)
  /\ InLogbook(r) => InLogbook(new)

(* What the properties read of a row is the same in the other.              *)
SameJudgement(r, q) ==
  /\ q.publication = r.publication /\ q.quality = r.quality /\ q.suppression = r.suppression
  /\ q.source = r.source /\ q.revision = r.revision

(***************************************************************************)
(* The transitions of a row                                                 *)
(***************************************************************************)
LEMMA RefreshedJudgement ==
  ASSUME NEW x \in Row
  PROVE  Refreshed(x) \in Row /\ SameJudgement(x, Refreshed(x))
<1>1. ResolutionFor(x) \in Resolution
  BY DEF ResolutionFor, Resolution
<1>2. NextActionFor(x) \in NextAction
  BY DEF NextActionFor, NextAction
<1> QED
  BY <1>1, <1>2 DEF Refreshed, Row, SameJudgement

LEMMA FreshIsRow ==
  /\ FreshRow \in Row /\ FreshRow # NoRow
  /\ FreshRow.publication = "publish_path" /\ FreshRow.source = "automatic"
  /\ FreshRow.suppression = "none"
<1>1. FreshRow \in Row
  BY DEF FreshRow, Row, Publication, NextAction, Transcript, Quality, Requirement, Package,
         Resolution, Suppression, Source, NoRevision
<1> QED
  BY <1>1, PipelineAssumption DEF FreshRow

LEMMA TranscriptJudgement ==
  ASSUME NEW x \in Row, NEW status \in Transcript
  PROVE  WithTranscript(x, status) \in Row /\ SameJudgement(x, WithTranscript(x, status))
<1> DEFINE y == [x EXCEPT !.transcript = status]
<1>1. y \in Row /\ SameJudgement(x, y)
  BY DEF Row, SameJudgement
<1>2. WithTranscript(x, status) = Refreshed(y)
  BY DEF WithTranscript
<1> HIDE DEF y
<1> QED
  BY <1>1, <1>2, RefreshedJudgement DEF SameJudgement

LEMMA PassedRow ==
  ASSUME NEW x \in Row, NEW source \in Source, NEW revision \in Int
  PROVE  LET new == QualityPassed(x, source, revision)
         IN /\ new \in Row /\ new.quality = "passed"
            /\ new.publication = IF x.publication = "published" THEN "published" ELSE "publish_path"
<1> DEFINE y == [x EXCEPT !.quality = "passed", !.suppression = "none",
                          !.source = source, !.revision = revision]
           z == [y EXCEPT !.publication = "publish_path"]
<1>1. y \in Row /\ y.quality = "passed" /\ y.publication = x.publication
  BY DEF Row, Quality, Suppression
<1>2. z \in Row /\ z.quality = "passed" /\ z.publication = "publish_path"
  BY <1>1 DEF Row, Publication
<1>3. QualityPassed(x, source, revision) = IF x.publication = "published" THEN y ELSE Refreshed(z)
  BY DEF QualityPassed
<1> HIDE DEF y, z
<1> QED
  BY <1>1, <1>2, <1>3, RefreshedJudgement DEF SameJudgement

LEMMA FailedRow ==
  ASSUME NEW x \in Row, NEW source \in Source, NEW suppression \in Suppression, NEW revision \in Int
  PROVE  LET new == QualityFailed(x, source, suppression, revision)
         IN /\ new \in Row /\ new.publication = "not_added_to_logbook"
            /\ new.source = source /\ new.revision = revision
BY DEF QualityFailed, Row, Quality, Publication, NextAction

LEMMA ReviewRow ==
  ASSUME NEW x \in Row, NEW revision \in Int
  PROVE  LET new == QualityForReview(x, revision)
             open == QualityReopened(x, revision)
         IN /\ new \in Row /\ open \in Row
            /\ new.publication = "publish_path" /\ open.publication = "publish_path"
            /\ new.revision = revision /\ open.suppression = "none"
<1> DEFINE new == QualityForReview(x, revision)
<1>1. new \in Row /\ new.publication = "publish_path" /\ new.revision = revision
  BY DEF QualityForReview, Row, Quality, Publication, NextAction, Suppression, Source
<1>2. QualityReopened(x, revision) = [new EXCEPT !.suppression = "none"]
  BY DEF QualityReopened
<1> HIDE DEF new
<1>3. QualityReopened(x, revision) \in Row /\ QualityReopened(x, revision).suppression = "none"
      /\ QualityReopened(x, revision).publication = "publish_path"
  BY <1>1, <1>2 DEF Row, Suppression
<1> QED
  BY <1>1, <1>3 DEF new

LEMMA PublishedRow ==
  ASSUME NEW x \in Row
  PROVE  Published(x) \in Row /\ Published(x).publication = "published"
<1> DEFINE y == [x EXCEPT !.publication = "published", !.package = "published"]
<1>1. y \in Row /\ y.publication = "published"
  BY DEF Row, Publication, Package
<1>2. Published(x) = IF x.publication = "published" THEN x ELSE Refreshed(y)
  BY DEF Published
<1> HIDE DEF y
<1> QED
  BY <1>1, <1>2, RefreshedJudgement DEF SameJudgement

LEMMA AuthoredRow ==
  ASSUME NEW x \in Row
  PROVE  EnrichmentSatisfied(x) \in Row /\ DossierApplied(x) \in Row
<1>1. [x EXCEPT !.enrichment = "satisfied",
         !.package = IF x.publication = "published" THEN "published"
                     ELSE IF x.dossier = "satisfied" THEN "applied" ELSE @] \in Row
  BY DEF Row, Requirement, Package
<1>2. [x EXCEPT !.dossier = "satisfied",
         !.package = IF x.publication = "published" THEN "published"
                     ELSE IF x.enrichment = "satisfied" THEN "applied" ELSE @] \in Row
  BY DEF Row, Requirement, Package
<1> QED
  BY <1>1, <1>2, RefreshedJudgement DEF EnrichmentSatisfied, DossierApplied

LEMMA Named ==
  /\ "automatic" \in Source /\ "user" \in Source
  /\ "confirmed_noise" \in Suppression /\ "insufficient_evidence" \in Suppression
  /\ "manual_exclusion" \in Suppression /\ NoRevision \in Int
BY DEF Source, Suppression, NoRevision

(***************************************************************************)
(* Reconciliation, whole and cut                                            *)
(***************************************************************************)
EvidenceRecord == [revision : 0..MaxRevision, any : BOOLEAN, disposition : Disposition]

LEMMA RowIsRow == \A r \in Row : r # NoRow
BY PipelineAssumption

LEMMA EnsuredRow ==
  ASSUME NEW r \in Row \cup {NoRow}
  PROVE  /\ Ensured(r) \in Row /\ Ensured(r) # NoRow
         /\ r # NoRow => Ensured(r) = r
         /\ r = NoRow => Ensured(r) = FreshRow
BY FreshIsRow, RowIsRow DEF Ensured

(* Up to the judgement only a stale dismissal changes what is decided.       *)
LEMMA Opened ==
  ASSUME NEW x \in Row, NEW e \in EvidenceRecord
  PROVE  LET checked == AfterTranscript(x, e)
             open == Reconsidered(checked, e)
         IN /\ checked \in Row /\ SameJudgement(x, checked)
            /\ open \in Row
            /\ \/ SameJudgement(x, open) /\ ~Stale(open, e.revision)
               \/ /\ x.publication = "not_added_to_logbook" /\ x.source = "automatic"
                  /\ open.publication = "publish_path" /\ open.suppression = "none"
<1> DEFINE checked == AfterTranscript(x, e)
<1>1. checked \in Row /\ SameJudgement(x, checked)
  <2>1. "imported" \in Transcript /\ "missing" \in Transcript
    BY DEF Transcript
  <2> QED
    BY <2>1, TranscriptJudgement DEF AfterTranscript, SameJudgement
<1>2. e.revision \in Int
  BY PipelineAssumption DEF EvidenceRecord
<1> HIDE DEF checked
<1>3. CASE Stale(checked, e.revision)
  <2>1. Reconsidered(checked, e) = QualityReopened(checked, e.revision)
    BY <1>3 DEF Reconsidered
  <2>2. checked.publication = "not_added_to_logbook" /\ checked.source = "automatic"
    BY <1>3 DEF Stale
  <2> QED
    BY <1>1, <1>2, <2>1, <2>2, ReviewRow DEF checked, SameJudgement
<1>4. CASE ~Stale(checked, e.revision)
  BY <1>1, <1>4 DEF Reconsidered, checked
<1> QED
  BY <1>3, <1>4

LEMMA JudgedRow ==
  ASSUME NEW x \in Row, NEW e \in EvidenceRecord, NEW hold \in BOOLEAN,
         x.publication # "published", ~Stale(x, e.revision)
  PROVE  LET new == Judged(x, e, hold)
         IN /\ new \in Row \cup {NoRow}
            /\ Current(new, e.revision)
            /\ UserExcluded(x) => UserExcluded(new)
<1> DEFINE new == Judged(x, e, hold)
<1>1. e.revision \in Int /\ e.disposition \in Disposition
  BY PipelineAssumption DEF EvidenceRecord
<1>2. x # NoRow
  BY RowIsRow
<1>3. CASE UserExcluded(x)
  <2>1. new = x
    BY <1>3 DEF Judged
  <2> QED
    BY <1>3, <2>1 DEF Current, UserExcluded
<1>4. CASE ~UserExcluded(x) /\ hold
  <2>1. new = NoRow \/ (new = x /\ x.source = "user")
    BY <1>4 DEF Judged, RepairRemoved
  <2> QED
    BY <1>4, <2>1 DEF Current
<1>5. CASE ~UserExcluded(x) /\ ~hold /\ e.disposition = "keep"
  <2>1. \/ new = x /\ x.quality = "passed" /\ x.publication # "not_added_to_logbook"
        \/ new = QualityPassed(x, "automatic", e.revision)
    BY <1>5 DEF Judged
  <2> QED
    BY <1>1, <1>5, <2>1, Named, PassedRow DEF Current
<1>6. CASE ~UserExcluded(x) /\ ~hold /\ e.disposition = "review"
  <2>1. \/ new = x /\ HeldFor(x, e.revision)
        \/ new = QualityForReview(x, e.revision)
    BY <1>6 DEF Judged
  <2> QED
    BY <1>1, <1>6, <2>1, ReviewRow DEF Current, HeldFor
<1>7. CASE ~UserExcluded(x) /\ ~hold /\ e.disposition = "suppress"
  <2>1. new = QualityFailed(x, "automatic", "confirmed_noise", e.revision)
    BY <1>7 DEF Judged
  <2>2. /\ new \in Row /\ new.publication = "not_added_to_logbook" /\ new.revision = e.revision
    BY <1>1, <2>1, Named, FailedRow
  <2> QED
    BY <1>7, <2>2 DEF Current
<1> QED
  BY <1>1, <1>3, <1>4, <1>5, <1>6, <1>7 DEF Disposition

(* Whatever the row was, a reconciliation brings it up to the evidence.     *)
LEMMA ReconciledRow ==
  ASSUME NEW r \in Row \cup {NoRow}, NEW e \in EvidenceRecord, NEW hold \in BOOLEAN
  PROVE  LET new == Reconciled(r, e, hold)
         IN new \in Row \cup {NoRow} /\ Current(new, e.revision) /\ Stands(r, new)
<1>1. CASE Skipped(r, hold)
  <2>1. Reconciled(r, e, hold) = r
    BY <1>1 DEF Reconciled
  <2> QED
    BY <1>1, <2>1 DEF Skipped, InLogbook, Current, Stands
<1>2. CASE ~Skipped(r, hold)
  <2> DEFINE x == Ensured(r)
             open == Reconsidered(AfterTranscript(x, e), e)
  <2>1. x \in Row /\ x.publication # "published" /\ ~InLogbook(r)
        /\ (UserExcluded(r) => UserExcluded(x) /\ x = r)
    BY <1>2, EnsuredRow, FreshIsRow DEF Skipped, InLogbook, UserExcluded
  <2>2. Reconciled(r, e, hold) = Judged(open, e, hold)
    BY <1>2 DEF Reconciled
  <2> HIDE DEF x
  <2>3. /\ open \in Row
        /\ \/ SameJudgement(x, open) /\ ~Stale(open, e.revision)
           \/ /\ x.publication = "not_added_to_logbook" /\ x.source = "automatic"
              /\ open.publication = "publish_path" /\ open.suppression = "none"
    BY <2>1, Opened
  <2> HIDE DEF open
  <2>4. open.publication # "published" /\ ~Stale(open, e.revision)
    BY <2>1, <2>3 DEF SameJudgement, Stale
  <2>5. UserExcluded(r) => UserExcluded(open)
    BY <2>1, <2>3, RowIsRow DEF SameJudgement, UserExcluded
  <2> QED
    BY <2>1, <2>2, <2>3, <2>4, <2>5, JudgedRow DEF Stands
<1> QED
  BY <1>1, <1>2

LEMMA HalfReconciledRow ==
  ASSUME NEW r \in Row \cup {NoRow}, NEW e \in EvidenceRecord, ~Skipped(r, FALSE),
         NEW half \in HalfReconciled(r, e), NEW revision \in Int
  PROVE  half \in Row /\ Stands(r, half) /\ (Current(r, revision) => Current(half, revision))
<1> DEFINE x == Ensured(r)
           checked == AfterTranscript(x, e)
           open == Reconsidered(checked, e)
<1>1. half \in {x, checked, open}
  BY DEF HalfReconciled
<1>2. x \in Row /\ ~InLogbook(r) /\ (UserExcluded(r) => UserExcluded(x) /\ x = r)
      /\ (Current(r, revision) => Current(x, revision))
  BY EnsuredRow, FreshIsRow DEF Skipped, InLogbook, UserExcluded, Current
<1> HIDE DEF x
<1>3. /\ checked \in Row /\ SameJudgement(x, checked)
      /\ open \in Row
      /\ \/ SameJudgement(x, open)
         \/ /\ x.publication = "not_added_to_logbook" /\ x.source = "automatic"
            /\ open.publication = "publish_path" /\ open.suppression = "none"
  BY <1>2, Opened
<1> HIDE DEF checked, open
<1>4. half \in Row /\ (SameJudgement(x, half) \/
        (/\ x.publication = "not_added_to_logbook" /\ x.source = "automatic"
         /\ half.publication = "publish_path" /\ half.suppression = "none"))
  BY <1>1, <1>2, <1>3 DEF SameJudgement
<1>5. UserExcluded(x) => UserExcluded(half)
  BY <1>2, <1>4, RowIsRow DEF SameJudgement, UserExcluded
<1>6. Current(x, revision) => Current(half, revision)
  BY <1>2, <1>4, RowIsRow DEF SameJudgement, Current
<1> QED
  BY <1>2, <1>4, <1>5, <1>6 DEF Stands

(***************************************************************************)
(* One row is written                                                       *)
(***************************************************************************)
LEMMA Written ==
  ASSUME PipelineInv, NEW s \in Session, NEW new \in Row \cup {NoRow}, UnchangedBut(s, new),
         \A q \in Session \ {s} : evidence'[q] = evidence[q],
         behind' \ {s} = behind \ {s},
         s \notin behind' => Current(new, evidence'[s].revision),
         InLogbook(row[s]) => InLogbook(new)
  PROVE  /\ row' \in [Session -> Row \cup {NoRow}] /\ RowsCurrent'
         /\ row'[s] = new
         /\ \A q \in Session : q # s => row'[q] = row[q]
         /\ \A q \in Session : InLogbook(row[q]) => InLogbook(row'[q])
<1>1. row \in [Session -> Row \cup {NoRow}]
  BY DEF PipelineInv, TypeOK
<1>2. /\ row' \in [Session -> Row \cup {NoRow}] /\ row'[s] = new
      /\ \A q \in Session : q # s => row'[q] = row[q]
  BY <1>1 DEF UnchangedBut
<1>3. RowsCurrent'
  <2> SUFFICES ASSUME NEW q \in Session, q \notin behind'
               PROVE  Current(row'[q], evidence'[q].revision)
    BY DEF RowsCurrent, Current
  <2>1. CASE q = s
    BY <1>2, <2>1
  <2>2. CASE q # s
    <3>1. q \notin behind /\ evidence'[q] = evidence[q] /\ row'[q] = row[q]
      BY <1>2, <2>2
    <3> QED
      BY <3>1 DEF PipelineInv, RowsCurrent
  <2> QED
    BY <2>1, <2>2
<1> QED
  BY <1>2, <1>3

(* A handler that writes the row and, if it is the user's, what they said.  *)
LEMMA RowOnlyWritten ==
  ASSUME PipelineInv, NEW s \in Session, NEW new \in Row \cup {NoRow}, UnchangedBut(s, new),
         RowsOnly,
         Current(row[s], evidence[s].revision) => Current(new, evidence[s].revision),
         InLogbook(row[s]) => InLogbook(new)
  PROVE  /\ PipelineInv'
         /\ row'[s] = new
         /\ \A q \in Session : q # s => row'[q] = row[q]
         /\ \A q \in Session : InLogbook(row[q]) => InLogbook(row'[q])
<1>1. evidence' = evidence /\ behind' = behind
  BY DEF RowsOnly
<1>2. s \notin behind' => Current(new, evidence'[s].revision)
  BY <1>1 DEF PipelineInv, RowsCurrent
<1>3. /\ row' \in [Session -> Row \cup {NoRow}] /\ RowsCurrent'
      /\ row'[s] = new
      /\ \A q \in Session : q # s => row'[q] = row[q]
      /\ \A q \in Session : InLogbook(row[q]) => InLogbook(row'[q])
  BY <1>1, <1>2, Written
<1>4. TypeOK'
  BY <1>1, <1>3 DEF PipelineInv, TypeOK, RowsOnly, process
<1> QED
  BY <1>3, <1>4 DEF PipelineInv

(* The whole effect of a step on the properties.                            *)
Keeps ==
  /\ PipelineInv'
  /\ \A q \in Session : InLogbook(row[q]) => InLogbook(row'[q])
  /\ \A q \in Session : UserExcluded(row[q]) /\ ~UserExcluded(row'[q])
                           => UserAccepts(q) \/ FinishPack(q) \/ CliAges(q)

LEMMA RowOnlyKeeps ==
  ASSUME PipelineInv, NEW s \in Session, NEW new \in Row \cup {NoRow}, UnchangedBut(s, new),
         RowsOnly,
         Current(row[s], evidence[s].revision) => Current(new, evidence[s].revision),
         Stands(row[s], new)
  PROVE  Keeps
<1>1. /\ PipelineInv' /\ row'[s] = new
      /\ \A q \in Session : q # s => row'[q] = row[q]
      /\ \A q \in Session : InLogbook(row[q]) => InLogbook(row'[q])
  BY RowOnlyWritten DEF Stands
<1>2. \A q \in Session : UserExcluded(row[q]) => UserExcluded(row'[q])
  BY <1>1 DEF Stands
<1> QED
  BY <1>1, <1>2 DEF Keeps

LEMMA StoredTypes ==
  ASSUME PipelineInv, NEW s \in Session
  PROVE  /\ row[s] \in Row \cup {NoRow} /\ evidence[s] \in EvidenceRecord
         /\ evidence[s].revision \in Int /\ evidence[s].disposition \in Disposition
         /\ Ensured(row[s]) \in Row
<1>1. row[s] \in Row \cup {NoRow} /\ evidence[s] \in EvidenceRecord
  BY DEF PipelineInv, TypeOK, EvidenceRecord
<1>2. evidence[s].revision \in Int /\ evidence[s].disposition \in Disposition
  BY <1>1, PipelineAssumption DEF EvidenceRecord
<1> QED
  BY <1>1, <1>2, EnsuredRow

(***************************************************************************)
(* The steps                                                                *)
(***************************************************************************)
LEMMA Evidenced ==
  ASSUME PipelineInv, NEW s \in Session, LiveEvent(s) \/ EvidenceArrives(s) \/ Reconcile(s)
  PROVE  Keeps
<1>0. row[s] \in Row \cup {NoRow} /\ evidence[s] \in EvidenceRecord
  BY StoredTypes
<1>t. evidence \in [Session -> EvidenceRecord]
  BY DEF PipelineInv, TypeOK, EvidenceRecord
<1>e. \A e \in Evidence : e \in EvidenceRecord
  BY DEF Evidence, EvidenceRecord
<1>1. CASE LiveEvent(s)
  <2>1. PICK e \in Later(evidence[s]) :
          /\ evidence' = [evidence EXCEPT ![s] = e]
          /\ UnchangedBut(s, Reconciled(row[s], e, FALSE))
    BY <1>1 DEF LiveEvent
  <2>2. e \in EvidenceRecord
    BY <1>e, <2>1 DEF Later
  <2> DEFINE new == Reconciled(row[s], e, FALSE)
  <2>3. new \in Row \cup {NoRow} /\ Current(new, e.revision) /\ Stands(row[s], new)
    BY <1>0, <2>2, ReconciledRow
  <2>4. UnchangedBut(s, new)
    BY <2>1
  <2> HIDE DEF new
  <2>5. evidence' \in [Session -> EvidenceRecord] /\ evidence'[s] = e
        /\ \A q \in Session \ {s} : evidence'[q] = evidence[q]
    BY <1>t, <2>1, <2>2
  <2>6. behind' = behind \ {s}
    BY <1>1 DEF LiveEvent
  <2>7. /\ row' \in [Session -> Row \cup {NoRow}] /\ RowsCurrent'
        /\ row'[s] = new
        /\ \A q \in Session : q # s => row'[q] = row[q]
        /\ \A q \in Session : InLogbook(row[q]) => InLogbook(row'[q])
    BY <2>3, <2>4, <2>5, <2>6, Written DEF Stands
  <2>8. TypeOK'
    BY <1>1, <2>5, <2>6, <2>7 DEF PipelineInv, TypeOK, LiveEvent, process, EvidenceRecord
  <2> QED
    BY <2>3, <2>7, <2>8 DEF Keeps, PipelineInv, Stands
<1>2. CASE EvidenceArrives(s)
  <2>1. PICK e \in Later(evidence[s]) : evidence' = [evidence EXCEPT ![s] = e]
    BY <1>2 DEF EvidenceArrives
  <2>2. e \in EvidenceRecord
    BY <1>e, <2>1 DEF Later
  <2>3. evidence' \in [Session -> EvidenceRecord]
        /\ \A q \in Session \ {s} : evidence'[q] = evidence[q]
    BY <1>t, <2>1, <2>2
  <2>4. row' = row /\ behind' = behind \cup {s}
    BY <1>2 DEF EvidenceArrives
  <2>5. RowsCurrent'
    BY <2>3, <2>4 DEF PipelineInv, RowsCurrent
  <2>6. TypeOK'
    BY <1>2, <2>3, <2>4 DEF PipelineInv, TypeOK, EvidenceArrives, process, EvidenceRecord
  <2> QED
    BY <2>4, <2>5, <2>6 DEF Keeps, PipelineInv
<1>3. CASE Reconcile(s)
  <2>1. PICK hold \in BOOLEAN :
          /\ UnchangedBut(s, Reconciled(row[s], evidence[s], hold))
          /\ repair' \in IF hold THEN {repair \cup {s}} ELSE {repair, repair \ {s}}
    BY <1>3 DEF Reconcile
  <2> DEFINE new == Reconciled(row[s], evidence[s], hold)
  <2>2. new \in Row \cup {NoRow} /\ Current(new, evidence[s].revision) /\ Stands(row[s], new)
    BY <1>0, ReconciledRow
  <2>3. UnchangedBut(s, new)
    BY <2>1
  <2> HIDE DEF new
  <2>4. evidence' = evidence /\ behind' = behind \ {s}
    BY <1>3 DEF Reconcile
  <2>5. /\ row' \in [Session -> Row \cup {NoRow}] /\ RowsCurrent'
        /\ row'[s] = new
        /\ \A q \in Session : q # s => row'[q] = row[q]
        /\ \A q \in Session : InLogbook(row[q]) => InLogbook(row'[q])
    BY <2>2, <2>3, <2>4, Written DEF Stands
  <2>6. repair' \subseteq Session
    BY <2>1 DEF PipelineInv, TypeOK
  <2>7. TypeOK'
    BY <1>3, <2>4, <2>5, <2>6 DEF PipelineInv, TypeOK, Reconcile, process
  <2> QED
    BY <2>2, <2>5, <2>7 DEF Keeps, PipelineInv, Stands
<1> QED
  BY <1>1, <1>2, <1>3

LEMMA CutShort ==
  ASSUME PipelineInv, NEW s \in Session, ReconcileCut(s)
  PROVE  Keeps
<1>1. PICK half \in HalfReconciled(row[s], evidence[s]) : UnchangedBut(s, half)
  BY DEF ReconcileCut
<1>2. half \in Row /\ Stands(row[s], half)
      /\ (Current(row[s], evidence[s].revision) => Current(half, evidence[s].revision))
  BY StoredTypes, HalfReconciledRow DEF ReconcileCut
<1>3. evidence' = evidence /\ behind' = behind
  BY DEF ReconcileCut
<1>4. s \notin behind' => Current(half, evidence'[s].revision)
  BY <1>2, <1>3 DEF PipelineInv, RowsCurrent
<1>5. /\ row' \in [Session -> Row \cup {NoRow}] /\ RowsCurrent'
      /\ row'[s] = half
      /\ \A q \in Session : q # s => row'[q] = row[q]
      /\ \A q \in Session : InLogbook(row[q]) => InLogbook(row'[q])
  BY <1>1, <1>2, <1>3, <1>4, Written DEF Stands
<1>6. TypeOK'
  BY <1>3, <1>5, PipelineAssumption DEF PipelineInv, TypeOK, ReconcileCut, Ends
<1> QED
  BY <1>2, <1>5, <1>6 DEF Keeps, PipelineInv, Stands

(* The routes, the repair, the dismissal by a preparation, and the start.   *)
LEMMA Routed ==
  ASSUME PipelineInv, NEW s \in Session,
         \/ Claim(s) \/ EnrollMissing(s) \/ TranscriptRoute(s) \/ RepairReopens(s)
         \/ PreparationDismisses(s) \/ Precheck(s) \/ UserExcludes(s)
         \/ Backfill(s) \/ StartupAges(s)
  PROVE  Keeps
<1> DEFINE r == row[s]
           e == evidence[s]
           x == Ensured(r)
<1>0. /\ r \in Row \cup {NoRow} /\ e \in EvidenceRecord /\ x \in Row
      /\ e.revision \in Int /\ e.disposition \in Disposition
  BY StoredTypes DEF PipelineInv, TypeOK
<1>x. /\ r # NoRow => x = r
      /\ r = NoRow => x = FreshRow
  BY <1>0, EnsuredRow
<1>s. /\ Stands(NoRow, NoRow) /\ \A n : Stands(NoRow, n)
      /\ \A n : ~UserExcluded(r) /\ ~InLogbook(r) => Stands(r, n)
  BY DEF Stands, UserExcluded, InLogbook
<1>y. Current(r, e.revision) => Current(x, e.revision)
  BY <1>x, FreshIsRow DEF Current
<1>z. Stands(r, x)
  BY <1>x, <1>s DEF Stands
<1> SUFFICES \E n \in Row \cup {NoRow} :
      /\ UnchangedBut(s, n) /\ RowsOnly
      /\ Current(r, e.revision) => Current(n, e.revision)
      /\ Stands(r, n)
  BY RowOnlyKeeps
<1>1. CASE Claim(s)
  BY <1>0, <1>1, <1>y, <1>z DEF Claim
<1>2. CASE EnrollMissing(s)
  BY <1>0, <1>2, <1>s, FreshIsRow DEF EnrollMissing, Current
<1>3. CASE TranscriptRoute(s)
  <2>1. PICK status \in Transcript : UnchangedBut(s, WithTranscript(x, status))
    BY <1>3 DEF TranscriptRoute, Transcript
  <2> DEFINE n == WithTranscript(x, status)
  <2> HIDE DEF x
  <2>2. n \in Row /\ SameJudgement(x, n)
    BY <1>0, TranscriptJudgement
  <2> HIDE DEF n
  <2>3. Current(x, e.revision) => Current(n, e.revision)
    BY <1>0, <2>2, RowIsRow DEF Current, SameJudgement
  <2>4. Stands(x, n)
    BY <1>0, <2>2, RowIsRow DEF Stands, SameJudgement, UserExcluded, InLogbook
  <2>5. Stands(r, n)
    BY <1>z, <2>4 DEF Stands
  <2>6. UnchangedBut(s, n)
    BY <2>1 DEF n
  <2> QED
    BY <1>0, <1>3, <1>y, <2>2, <2>3, <2>5, <2>6 DEF TranscriptRoute
<1>4. CASE RepairReopens(s)
  <2> DEFINE n == QualityReopened(r, r.revision)
  <2>1. r \in Row /\ r.revision \in Int
    BY <1>0, <1>4 DEF RepairReopens, Row
  <2>2. n \in Row /\ n.publication = "publish_path" /\ n.suppression = "none"
    BY <2>1, ReviewRow
  <2>3. UnchangedBut(s, n) /\ RowsOnly
    BY <1>0, <1>4 DEF RepairReopens
  <2> HIDE DEF n
  <2>4. ~UserExcluded(r) /\ ~InLogbook(r)
    BY <1>4 DEF RepairReopens, UserExcluded, InLogbook
  <2> QED
    BY <1>s, <2>2, <2>3, <2>4 DEF Current
<1>5. CASE PreparationDismisses(s)
  <2> DEFINE n == Disposed(r, e.disposition, e.revision)
  <2>1. r \in Row
    BY <1>0, <1>5 DEF PreparationDismisses
  <2>2. \/ n = r
        \/ /\ r.publication = "publish_path"
           /\ \E c \in {"insufficient_evidence", "confirmed_noise"} :
                n = QualityFailed(r, "automatic", c, e.revision)
    BY DEF Disposed
  <2>3. n = r \/ (r.publication = "publish_path" /\ n \in Row
                 /\ n.publication = "not_added_to_logbook" /\ n.revision = e.revision)
    BY <1>0, <2>1, <2>2, Named, FailedRow
  <2>4. UnchangedBut(s, n) /\ RowsOnly
    BY <1>0, <1>5 DEF PreparationDismisses
  <2> HIDE DEF n
  <2>5. Stands(r, n)
    BY <2>3 DEF Stands, UserExcluded, InLogbook
  <2>6. Current(r, e.revision) => Current(n, e.revision)
    BY <2>3 DEF Current
  <2> QED
    BY <2>1, <2>3, <2>4, <2>5, <2>6
<1>6. CASE Precheck(s)
  <2>1. PICK n :
          /\ UnchangedBut(s, n)
          /\ \/ e.disposition = "keep" /\ n = QualityPassed(x, "automatic", e.revision)
             \/ e.disposition = "review" /\ n = QualityForReview(x, e.revision)
             \/ /\ e.disposition = "suppress"
                /\ n = QualityFailed(x, "automatic", "confirmed_noise", e.revision)
    BY <1>0, <1>6 DEF Precheck, Disposition
  <2>2. ~UserExcluded(r) /\ (e.disposition # "keep" => x.publication # "published")
        /\ RowsOnly
    BY <1>0, <1>6 DEF Precheck, CanFailQuality
  <2> HIDE DEF x
  <2>3. /\ n \in Row
        /\ Current(n, e.revision)
        /\ x.publication = "published" => n.publication = "published"
    <3>1. CASE e.disposition = "keep"
      <4>1. n = QualityPassed(x, "automatic", e.revision)
        BY <2>1, <3>1
      <4>2. /\ n \in Row /\ n.quality = "passed"
            /\ n.publication = IF x.publication = "published" THEN "published" ELSE "publish_path"
        BY <1>0, <4>1, Named, PassedRow
      <4> QED
        BY <4>2 DEF Current
    <3>2. CASE e.disposition = "review"
      <4>1. n = QualityForReview(x, e.revision)
        BY <2>1, <3>2
      <4>2. n \in Row /\ n.publication = "publish_path" /\ n.revision = e.revision
        BY <1>0, <4>1, ReviewRow
      <4> QED
        BY <2>2, <3>2, <4>2 DEF Current
    <3>3. CASE e.disposition = "suppress"
      <4>1. n = QualityFailed(x, "automatic", "confirmed_noise", e.revision)
        BY <2>1, <3>3
      <4>a. x \in Row /\ e.revision \in Int
        BY <1>0
      <4>2. n \in Row /\ n.publication = "not_added_to_logbook" /\ n.revision = e.revision
        BY <4>1, <4>a, Named, FailedRow
      <4> QED
        BY <2>2, <3>3, <4>2 DEF Current
    <3> QED
      BY <1>0, <3>1, <3>2, <3>3 DEF Disposition
  <2>4. Stands(r, n)
    BY <1>x, <2>2, <2>3, RowIsRow DEF Stands, InLogbook
  <2> QED
    BY <2>1, <2>2, <2>3, <2>4
<1>7. CASE UserExcludes(s)
  <2> DEFINE n == QualityFailed(x, "user", "manual_exclusion", NoRevision)
  <2>2. UnchangedBut(s, n) /\ RowsOnly /\ x.publication # "published"
    BY <1>0, <1>7 DEF UserExcludes, CanFailQuality
  <2> HIDE DEF x
  <2>a. x \in Row
    BY <1>0
  <2>1. n \in Row /\ n.publication = "not_added_to_logbook" /\ n.source = "user"
    BY ONLY <2>a, Named, FailedRow
  <2> HIDE DEF n
  <2>3. UserExcluded(n) /\ ~InLogbook(r)
    BY <1>x, <2>1, <2>2, RowIsRow DEF UserExcluded, InLogbook
  <2> QED
    BY <2>1, <2>2, <2>3 DEF Stands, Current
<1>8. CASE Backfill(s)
  <2> DEFINE n == BackfilledRow(e)
             dismissed == [FreshRow EXCEPT !.publication = "not_added_to_logbook", !.nextAction = "none",
                                           !.suppression = "confirmed_noise"]
  <2>1. dismissed \in Row /\ dismissed.revision = FreshRow.revision
        /\ dismissed.publication = "not_added_to_logbook"
    BY FreshIsRow DEF Row, Publication, NextAction, Suppression
  <2>r. FreshRow.revision = NoRevision
    BY DEF FreshRow
  <2>2. \/ n = Published(FreshRow)
        \/ n = QualityForReview(FreshRow, e.revision)
        \/ n = dismissed
    BY <1>0 DEF BackfilledRow, Disposition
  <2>3. r = NoRow /\ UnchangedBut(s, n) /\ RowsOnly
    BY <1>0, <1>8 DEF Backfill
  <2> HIDE DEF n, dismissed
  <2>4. n \in Row /\ Current(n, e.revision)
    BY <1>0, <2>1, <2>r, <2>2, FreshIsRow, PublishedRow, ReviewRow DEF Current
  <2> QED
    BY <1>s, <2>3, <2>4
<1>9. CASE StartupAges(s)
  <2> DEFINE n == Aged(r, r.revision)
  <2>1. r \in Row /\ r.revision \in Int
    BY <1>0, <1>9 DEF StartupAges, ReviewHold, Row
  <2>2. n \in Row /\ n.publication = "not_added_to_logbook" /\ n.revision = r.revision
    BY <2>1, Named, FailedRow DEF Aged
  <2>3. UnchangedBut(s, n) /\ RowsOnly
    BY <1>0, <1>9 DEF StartupAges
  <2> HIDE DEF n
  <2>4. Current(r, e.revision) => Current(n, e.revision)
    BY <1>9, <2>2 DEF StartupAges, ReviewHold, Current
  <2>5. ~UserExcluded(r) /\ ~InLogbook(r)
    BY <1>9 DEF StartupAges, ReviewHold, UserExcluded, InLogbook
  <2> QED
    BY <1>s, <2>2, <2>3, <2>4, <2>5
<1> QED
  BY <1>1, <1>2, <1>3, <1>4, <1>5, <1>6, <1>7, <1>8, <1>9

(* A pack may be finished over what the user said meanwhile, and so may the *)
(* command line's ageing; the user's acceptance is theirs.                  *)
LEMMA Overridden ==
  ASSUME PipelineInv, NEW s \in Session, UserAccepts(s) \/ FinishPack(s) \/ CliAges(s)
  PROVE  Keeps
<1> DEFINE r == row[s]
           x == Ensured(r)
<1>0. /\ r \in Row \cup {NoRow} /\ x \in Row
      /\ r # NoRow => x = r
  BY StoredTypes, EnsuredRow DEF PipelineInv, TypeOK
<1>1. CASE UserAccepts(s)
  <2> DEFINE n == QualityPassed(x, x.source, x.revision)
  <2>1. x.source \in Source /\ x.revision \in Int
    BY <1>0 DEF Row
  <2>2. UnchangedBut(s, n) /\ RowsOnly
    BY <1>0, <1>1 DEF UserAccepts
  <2> HIDE DEF x
  <2>3. /\ n \in Row /\ n.quality = "passed"
        /\ n.publication = IF x.publication = "published" THEN "published" ELSE "publish_path"
    BY <1>0, <2>1, PassedRow
  <2> HIDE DEF n
  <2>4. InLogbook(r) => InLogbook(n)
    BY <1>0, <2>3, RowIsRow DEF InLogbook
  <2>5. Current(n, evidence[s].revision)
    BY <2>3 DEF Current
  <2>6. /\ PipelineInv'
        /\ \A q \in Session : q # s => row'[q] = row[q]
        /\ \A q \in Session : InLogbook(row[q]) => InLogbook(row'[q])
    BY <2>2, <2>3, <2>4, <2>5, RowOnlyWritten
  <2> QED
    BY <1>1, <2>6 DEF Keeps
<1>2. CASE FinishPack(s)
  <2>1. PICK disposition \in {"publish_ready", "hard_reject"} :
          /\ disposition = "hard_reject" => CanFailQuality(x)
          /\ UnchangedBut(s, FinishedRow(x, disposition))
    BY <1>2 DEF FinishPack
  <2> DEFINE n == FinishedRow(x, disposition)
  <2>2. UnchangedBut(s, n) /\ evidence' = evidence /\ behind' = behind /\ packed' = packed \ {s}
    BY <1>2, <2>1 DEF FinishPack
  <2> HIDE DEF x
  <2>3. \/ n \in Row /\ n.publication = "published"
        \/ /\ n \in Row /\ n.publication = "not_added_to_logbook" /\ n.revision = NoRevision
           /\ x.publication # "published"
    <3>1. CASE disposition = "hard_reject"
      BY <1>0, <2>1, <3>1, Named, FailedRow DEF FinishedRow, CanFailQuality
    <3>2. CASE disposition # "hard_reject"
      <4>1. EnrichmentSatisfied(x) \in Row
        BY <1>0, AuthoredRow
      <4>2. DossierApplied(EnrichmentSatisfied(x)) \in Row
        BY <4>1, AuthoredRow
      <4> QED
        BY <3>2, <4>2, PublishedRow DEF FinishedRow
    <3> QED
      BY <3>1, <3>2
  <2> HIDE DEF n
  <2>4. InLogbook(r) => InLogbook(n)
    BY <1>0, <2>3, RowIsRow DEF InLogbook
  <2>5. Current(n, evidence[s].revision)
    BY <2>3 DEF Current
  <2>6. /\ row' \in [Session -> Row \cup {NoRow}] /\ RowsCurrent'
        /\ \A q \in Session : q # s => row'[q] = row[q]
        /\ \A q \in Session : InLogbook(row[q]) => InLogbook(row'[q])
    BY <2>2, <2>3, <2>4, <2>5, Written
  <2>7. TypeOK'
    BY <1>2, <2>2, <2>6 DEF PipelineInv, TypeOK, FinishPack, process
  <2> QED
    BY <1>2, <2>6, <2>7 DEF Keeps, PipelineInv
<1>3. CASE CliAges(s)
  <2>1. PICK entry \in listed :
          /\ CanFailQuality(x)
          /\ UnchangedBut(s, Aged(x, entry[2]))
          /\ listed' = listed \ {entry}
    BY <1>3 DEF CliAges
  <2>2. entry[2] \in Int /\ listed' \subseteq Session \X Int
    BY <2>1 DEF PipelineInv, TypeOK
  <2> DEFINE n == Aged(x, entry[2])
  <2>3. UnchangedBut(s, n) /\ evidence' = evidence /\ behind' = behind \cup {s}
    BY <1>3, <2>1 DEF CliAges
  <2> HIDE DEF x
  <2>4. n \in Row
    BY <1>0, <2>2, Named, FailedRow DEF Aged
  <2> HIDE DEF n
  <2>5. ~InLogbook(r)
    BY <1>0, <2>1 DEF InLogbook, CanFailQuality
  <2>6. /\ row' \in [Session -> Row \cup {NoRow}] /\ RowsCurrent'
        /\ \A q \in Session : q # s => row'[q] = row[q]
        /\ \A q \in Session : InLogbook(row[q]) => InLogbook(row'[q])
    BY <2>3, <2>4, <2>5, Written
  <2>7. TypeOK'
    BY <1>3, <2>2, <2>3, <2>6 DEF PipelineInv, TypeOK, CliAges
  <2> QED
    BY <1>3, <2>6, <2>7 DEF Keeps, PipelineInv
<1> QED
  BY <1>1, <1>2, <1>3

(* The other steps leave rows, evidence and what was judged alone.           *)
LEMMA Elsewhere ==
  ASSUME PipelineInv,
         \/ (\E s \in Session : PackTakes(s)) \/ CliLists \/ CliFails \/ BackfillDone
         \/ Serves \/ Crash \/ UNCHANGED vars
  PROVE  Keeps
<1>1. row' = row /\ evidence' = evidence /\ behind' = behind
  BY DEF PackTakes, CliLists, CliFails, BackfillDone, Serves, Crash, vars, stored, process
<1>2. repair' \subseteq Session /\ packed' \subseteq Session
      /\ backfilled' \in BOOLEAN
  BY DEF PackTakes, CliLists, CliFails, BackfillDone, Serves, Crash, vars, stored, process,
         PipelineInv, TypeOK
<1>3. listed' \subseteq Session \X Int
  <2>1. CASE CliLists
    <3>1. PICK old \in SUBSET {s \in Session : ReviewHold(row[s])} :
            listed' = {<<s, row[s].revision>> : s \in old}
      BY <2>1 DEF CliLists
    <3>2. \A s \in old : s \in Session /\ row[s].revision \in Int
      BY <3>1 DEF ReviewHold, PipelineInv, TypeOK, Row
    <3> QED
      BY <3>1, <3>2
  <2>2. CASE ~CliLists
    BY <2>2 DEF PackTakes, CliFails, BackfillDone, Serves, Crash, vars, stored, process,
                PipelineInv, TypeOK
  <2> QED
    BY <2>1, <2>2
<1>4. phase' \in {"down", "ageing", "up"} /\ crashes' \in 0..MaxCrashes /\ listings' \in 0..MaxListings
  BY PipelineAssumption DEF PackTakes, CliLists, CliFails, BackfillDone, Serves, Crash, Ends, vars,
         stored, process, PipelineInv, TypeOK
<1>5. TypeOK'
  BY <1>1, <1>2, <1>3, <1>4 DEF PipelineInv, TypeOK
<1> QED
  BY <1>1, <1>5 DEF Keeps, PipelineInv, RowsCurrent

LEMMA Step == ASSUME PipelineInv, [Next]_vars PROVE Keeps
<1>1. ASSUME NEW s \in Session, OfSession(s) PROVE Keeps
  BY <1>1, Evidenced, CutShort, Routed, Overridden, Elsewhere DEF OfSession
<1> QED
  BY <1>1, Elsewhere DEF Next

LEMMA Start == Init => PipelineInv
<1> SUFFICES ASSUME Init PROVE PipelineInv
  OBVIOUS
<1>1. evidence \in [Session -> EvidenceRecord]
  BY DEF Init, Evidence, EvidenceRecord
<1>2. TypeOK
  BY <1>1, PipelineAssumption DEF Init, TypeOK, EvidenceRecord
<1> QED
  BY <1>2 DEF Init, PipelineInv, RowsCurrent

LEMMA InvariantHolds == Spec => []PipelineInv
<1>1. PipelineInv /\ [Next]_vars => PipelineInv'
  BY Step DEF Keeps
<1> QED
  BY <1>1, Start, PTL DEF Spec

(* The rows stay rows of the table, whatever order their writers come in.   *)
THEOREM PipelineTypesHold == Spec => []TypeOK
<1>1. PipelineInv => TypeOK
  BY DEF PipelineInv
<1> QED
  BY <1>1, InvariantHolds, PTL

(* An automatic dismissal carries the revision of the evidence it was made  *)
(* from, whichever of the reconciler, the precheck, authoring, the backfill *)
(* and ageing made it.                                                      *)
THEOREM AutomaticIsCurrentHolds == Spec => []AutomaticIsCurrent
<1>1. PipelineInv => AutomaticIsCurrent
  BY DEF PipelineInv, RowsCurrent, Current, AutomaticIsCurrent
<1> QED
  BY <1>1, InvariantHolds, PTL

(* A user's exclusion is replaced by the user, a pack or the command line   *)
(* only, and the Logbook keeps what it has.                                 *)
THEOREM DecisionsStandHolds == Spec => DecisionsStand
<1>1. PipelineInv /\ [Next]_vars
        => [\A s \in Session :
              /\ UserExcluded(row[s]) /\ ~UserExcluded(row'[s])
                   => UserAccepts(s) \/ FinishPack(s) \/ CliAges(s)
              /\ InLogbook(row[s]) => InLogbook(row'[s])]_vars
  BY Step DEF Keeps
<1> QED
  BY <1>1, InvariantHolds, PTL DEF Spec, DecisionsStand
=============================================================================
