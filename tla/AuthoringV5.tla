---------------------------- MODULE AuthoringV5 ----------------------------
(***************************************************************************)
(* Workbench authoring V5: a request freezes a selection of sessions, the   *)
(* daemon prepares it in small transactions, and agents then author its     *)
(* packs.                                                                   *)
(*                                                                          *)
(*   workbench/authoring/workbenchAuthoringV5Service.ts   the operations    *)
(*   daemon/db/workbenchAuthoringV5Repository.ts          their SQL         *)
(*   daemon/workbenchAuthoringV5PreparationCoordinator.ts the step runner   *)
(*   daemon/workbenchAuthoringV5Api.ts                    HTTP entry points *)
(*   daemon/db/migrations/036, 038, 039                   tables, triggers  *)
(*                                                                          *)
(* The daemon is one thread and every operation is one SQLite transaction,  *)
(* so an operation is one action.  What interleaves is: the steps of the    *)
(* preparation coordinator (one per event-loop turn), the calls of any      *)
(* number of agents, the quality decisions of the user, the transcript      *)
(* import, deletions, failing steps, and crashes of the daemon.             *)
(*                                                                          *)
(* A request is identified with its creation token, so repeating a create   *)
(* call changes nothing.  Evidence text is abstracted to its number of      *)
(* pages and to whether any of it is usable; a draft is abstracted to the   *)
(* disposition its classification gives each session.                       *)
(***************************************************************************)
EXTENDS Naturals, Sequences, FiniteSets, Functions, Subsequence, FixedPacks,
        WorkbenchSessionState

CONSTANTS
  Session,
  Request,
  Selection,         \* Selection[r]: the session ids posted, in order
  ReEnrich,          \* the requests posted with reEnrich = true
  EvidencePages,     \* pages of 25 evidence items a session has below the cutoff
  Usable,            \* the sessions with usable authoring evidence
  StartingRow,       \* the row each session has before the first request
  PreparationBatch,  \* ordinals per preparation transaction, 10 in the code
  MemberChunk,       \* request sessions inserted per transaction, 50 in the code
  MaxDraftRevision,  \* bound: saves per pack
  MaxFailures,       \* bound: failing preparation steps
  MaxCrashes         \* bound: daemon crashes

ASSUME SelectionAssumption ==
  /\ Selection \in [Request -> Seq(Session)]
  /\ \A r \in Request :
       /\ Selection[r] # <<>>                                \* authoring_v5_selection_empty
       /\ \A i, j \in DOMAIN Selection[r] :
            Selection[r][i] = Selection[r][j] => i = j        \* authoring_session_id_duplicate

ASSUME EvidenceAssumption ==
  /\ EvidencePages \in [Session -> Nat]
  /\ Usable \subseteq {s \in Session : EvidencePages[s] > 0}
  /\ StartingRow \in [Session -> Row]
  /\ ReEnrich \subseteq Request

ASSUME BoundAssumption ==
  /\ IsFiniteSet(Session)
  /\ PreparationBatch \in Nat \ {0}
  /\ MemberChunk \in Nat \ {0}
  /\ MaxDraftRevision \in Nat
  /\ MaxFailures \in Nat
  /\ MaxCrashes \in Nat

VARIABLES
  stored,        \* the sessions in the sessions table
  row,           \* their workbench_session_state rows
  status,        \* status of the preparation row of a request
  error,         \* its error code
  ready,         \* sessions whose frozen readiness reason is NULL
  outcome,       \* outcomes of the ordinals prepared so far
  pages,         \* evidence pages stored for the ordinal in progress
  reqStatus,     \* status of the request row ("none": no row yet)
  member,        \* state of the request's session rows ("none": no row)
  pack,          \* the request's pack rows, by ordinal
  receipt,       \* packReceipts of the request receipt, in their order
  created,       \* requests in the order of created_at
  queue,         \* the coordinator's queued set, in insertion order
  up,            \* the daemon runs
  failures, crashes

sessionVars == <<stored, row>>
prepVars    == <<status, error, ready, outcome, pages, created>>
requestVars == <<reqStatus, member, pack, receipt>>
daemonVars  == <<queue, up, failures, crashes>>
vars == <<sessionVars, prepVars, requestVars, daemonVars>>

PrepStatus  == {"none", "preparing", "ready", "failed"}
ErrorCode   == {"none", "no_eligible", "step_failed"}
PackStatus  == {"pending", "available", "active", "saved", "completed"}
Disposition == {"publish", "soft_flag", "hard_reject"}
MemberState == {"none", "pending", "assigned", "published", "soft_flagged", "rejected"}

(* A draft, seen as the disposition of each session in it; revision 0 is    *)
(* the absence of a draft or of a receipt.                                  *)
Verdicts == UNION {[m -> Disposition] : m \in SUBSET Session}
Draft    == [revision : Nat, verdict : Verdicts]
NoDraft  == [revision |-> 0, verdict |-> [s \in {} |-> "publish"]]
Pack     == [status : PackStatus, members : SUBSET Session, draft : Draft, receipt : Draft]

MemberStateFor(disposition) ==
  CASE disposition = "hard_reject" -> "rejected"
    [] disposition = "soft_flag"   -> "soft_flagged"
    [] disposition = "publish"     -> "published"

-----------------------------------------------------------------------------
(* Derived values                                                           *)

Selected(r) == {Selection[r][k] : k \in DOMAIN Selection[r]}

Preparing(r) == status[r] = "preparing"

CompileReady(r, s) == RowCompileReady(row[s], r \in ReEnrich)

EligibleOrdinals(r) == {k \in DOMAIN outcome[r] : outcome[r][k] = "eligible"}
Rank(r, k)     == Cardinality({j \in EligibleOrdinals(r) : j < k})
EligibleCount(r) == Cardinality(EligibleOrdinals(r))

SessionsAtRanks(r, ranks) ==
  {Selection[r][k] : k \in {j \in EligibleOrdinals(r) : Rank(r, j) \in ranks}}

Eligible(r) == {Selection[r][k] : k \in EligibleOrdinals(r)}

(* The session ids fixedPacks gives the pack with this (0-based) ordinal.   *)
PlannedMembers(r, o) == SessionsAtRanks(r, PackRanks(EligibleCount(r), o))

Members(r) == {s \in Session : member[r][s] # "none"}

(* Mutant: triggers that let go of a failed preparation, which can be retried. *)
FrozenWhilePreparing(s) ==
  /\ EvidencePages[s] > 0
  /\ \E r \in Request : s \in Selected(r) /\ status[r] = "preparing"

(* The freeze_authoring_v5_* triggers abort any update or delete of an      *)
(* evidence row below the cutoff while this holds, whatever the outcome of  *)
(* the session.                                                             *)
Frozen(s) ==
  /\ EvidencePages[s] > 0
  /\ \E r \in Request :
       /\ s \in Selected(r)
       /\ status[r] = "preparing" \/ (status[r] = "failed" /\ error[r] # "no_eligible")

-----------------------------------------------------------------------------
Init ==
  /\ stored = Session
  /\ row = StartingRow
  /\ status = [r \in Request |-> "none"]
  /\ error = [r \in Request |-> "none"]
  /\ ready = [r \in Request |-> {}]
  /\ outcome = [r \in Request |-> <<>>]
  /\ pages = [r \in Request |-> 0]
  /\ reqStatus = [r \in Request |-> "none"]
  /\ member = [r \in Request |-> [s \in Session |-> "none"]]
  /\ pack = [r \in Request |-> <<>>]
  /\ receipt = [r \in Request |-> <<>>]
  /\ created = <<>>
  /\ queue = <<>>
  /\ up = TRUE
  /\ failures = 0
  /\ crashes = 0

-----------------------------------------------------------------------------
(* Preparation                                                              *)

(* POST /requests: createWorkbenchAuthoringV5Request and the schedule call  *)
(* behind it.  Readiness is read now and frozen for the whole preparation.  *)
Create(r) ==
  /\ up
  /\ status[r] = "none"
  /\ status' = [status EXCEPT ![r] = "preparing"]
  /\ ready' = [ready EXCEPT ![r] = {s \in Selected(r) : s \in stored /\ CompileReady(r, s)}]
  /\ created' = Append(created, r)
  /\ queue' = Append(queue, r)
  /\ UNCHANGED <<sessionVars, error, outcome, pages, requestVars, up, failures, crashes>>

(* The coordinator works on the first queued request, one step per turn.    *)
AtHead(r) == up /\ queue # <<>> /\ r = Head(queue) /\ Preparing(r)

AllPrepared(r) == Len(outcome[r]) = Len(Selection[r])

(* The ordinals one preparation transaction covers: up to PreparationBatch, *)
(* stopping at a ready session whose evidence has a further page.           *)
BatchStart(r) == Len(outcome[r]) + 1
PagesBefore(r, k) == IF k = BatchStart(r) THEN pages[r] ELSE 0
MorePages(r, k) ==
  Selection[r][k] \in ready[r] /\ PagesBefore(r, k) + 1 < EvidencePages[Selection[r][k]]
BatchOrdinals(r) ==
  {k \in DOMAIN Selection[r] :
     BatchStart(r) <= k /\ k < BatchStart(r) + PreparationBatch}
Stops(r) == {k \in BatchOrdinals(r) : MorePages(r, k)}
Settled(r) == {k \in BatchOrdinals(r) : \A j \in Stops(r) : k < j}

SettledOutcome(r, k) ==
  IF Selection[r][k] \in ready[r] \cap Usable THEN "eligible" ELSE "excluded"

(* recordWorkbenchAuthoringV5PreparedSession for each settled ordinal.       *)
WithSettled(r) ==
  [k \in DOMAIN outcome[r] \cup Settled(r) |->
     IF k \in Settled(r) THEN SettledOutcome(r, k) ELSE outcome[r][k]]

(* insertWorkbenchAuthoringV5PreparationEvidencePage: one page more of the   *)
(* session the batch stopped at.                                            *)
PagesAfter(r) ==
  IF Stops(r) = {} THEN 0
  ELSE 1 + PagesBefore(r, CHOOSE k \in Stops(r) : \A j \in Stops(r) : k <= j)

(* `precheck' is the disposition of the capture precheck, whatever it is.    *)
PrepareBatch(r) ==
  /\ AtHead(r)
  /\ ~AllPrepared(r)
  /\ LET excluded == {Selection[r][k] : k \in {j \in Settled(r) : SettledOutcome(r, j) = "excluded"}}
     IN \E precheck \in [excluded \cap stored -> {"keep", "review", "suppress"}] :
          row' = [s \in Session |->
                    IF s \in DOMAIN precheck THEN Disposed(row[s], precheck[s], 0) ELSE row[s]]
  /\ outcome' = [outcome EXCEPT ![r] = WithSettled(r)]
  /\ pages' = [pages EXCEPT ![r] = PagesAfter(r)]
  /\ UNCHANGED <<stored, status, error, ready, created, requestVars, daemonVars>>

(* finalizeWorkbenchAuthoringV5Preparation, one transaction per action.     *)
Finalizing(r) == AtHead(r) /\ AllPrepared(r)

(* fixedPacks runs at the start of every finalising transaction.            *)
Building(r) ==
  /\ Finalizing(r)
  /\ EligibleCount(r) > 0
  /\ PackSizesValid(EligibleCount(r))

(* No eligible session: the step throws and the coordinator records the     *)
(* failure, which is terminal.                                              *)
FinalizeNoEligible(r) ==
  /\ Finalizing(r)
  /\ EligibleCount(r) = 0
  /\ status' = [status EXCEPT ![r] = "failed"]
  /\ error' = [error EXCEPT ![r] = "no_eligible"]
  /\ queue' = Tail(queue)
  /\ UNCHANGED <<sessionVars, ready, outcome, pages, created, requestVars, up, failures, crashes>>

FinalizeShell(r) ==
  /\ Building(r)
  /\ reqStatus[r] = "none"
  /\ reqStatus' = [reqStatus EXCEPT ![r] = "open"]
  /\ UNCHANGED <<sessionVars, prepVars, member, pack, receipt, daemonVars>>

(* sessions.slice(storedSessionCount, storedSessionCount + 50); the rows    *)
(* reference sessions(session_id).                                          *)
MemberSlice(r) ==
  SessionsAtRanks(r, Cardinality(Members(r)) .. (Cardinality(Members(r)) + MemberChunk - 1))

FinalizeMembers(r) ==
  /\ Building(r)
  /\ reqStatus[r] # "none"
  /\ Cardinality(Members(r)) < EligibleCount(r)
  /\ MemberSlice(r) \subseteq stored
  /\ member' = [member EXCEPT ![r] =
       [s \in Session |-> IF s \in MemberSlice(r) /\ @[s] = "none" THEN "pending" ELSE @[s]]]
  /\ UNCHANGED <<sessionVars, prepVars, reqStatus, pack, receipt, daemonVars>>

(* Mutant: insertWorkbenchAuthoringV5Pack called with available = true.      *)
PackReleasedAtOnce(r, o) ==
  [status |-> "available", members |-> PlannedMembers(r, o - 1),
   draft |-> NoDraft, receipt |-> NoDraft]

(* insertWorkbenchAuthoringV5Pack(db, requestId, pack, false)               *)
InsertedPack(r, o) ==
  [status |-> "pending", members |-> PlannedMembers(r, o - 1),
   draft |-> NoDraft, receipt |-> NoDraft]

FinalizePack(r) ==
  /\ Building(r)
  /\ reqStatus[r] # "none"
  /\ Cardinality(Members(r)) >= EligibleCount(r)
  /\ Len(pack[r]) < PackCount(EligibleCount(r))
  /\ PlannedMembers(r, Len(pack[r])) \subseteq Members(r)
  /\ pack' = [pack EXCEPT ![r] = Append(@, InsertedPack(r, Len(@) + 1))]
  /\ UNCHANGED <<sessionVars, prepVars, reqStatus, member, receipt, daemonVars>>

(* releaseAllWorkbenchAuthoringV5Packs, on one pack                         *)
Released(p) == IF p.status = "pending" THEN [p EXCEPT !.status = "available"] ELSE p

(* The last step makes every pack available and the preparation ready.      *)
FinalizeRelease(r) ==
  /\ Building(r)
  /\ reqStatus[r] # "none"
  /\ Cardinality(Members(r)) >= EligibleCount(r)
  /\ Len(pack[r]) >= PackCount(EligibleCount(r))
  /\ pack' = [pack EXCEPT ![r] =
       [o \in DOMAIN @ |-> Released(@[o])]]
  /\ status' = [status EXCEPT ![r] = "ready"]
  /\ error' = [error EXCEPT ![r] = "none"]
  /\ queue' = Tail(queue)
  /\ UNCHANGED <<sessionVars, ready, outcome, pages, created, reqStatus, member, receipt,
                 up, failures, crashes>>

(* Any step may throw (a busy database, an I/O error, a violated foreign    *)
(* key): its transaction rolls back and the coordinator marks the           *)
(* preparation failed.                                                      *)
StepFails(r) ==
  /\ AtHead(r)
  /\ failures < MaxFailures
  /\ failures' = failures + 1
  /\ status' = [status EXCEPT ![r] = "failed"]
  /\ error' = [error EXCEPT ![r] = "step_failed"]
  /\ queue' = Tail(queue)
  /\ UNCHANGED <<sessionVars, ready, outcome, pages, created, requestVars, up, crashes>>

(* Mutant: a retry that starts over and forgets the outcomes.               *)
RetryFromScratch(r) ==
  /\ up
  /\ status[r] = "failed"
  /\ error[r] # "no_eligible"
  /\ status' = [status EXCEPT ![r] = "preparing"]
  /\ error' = [error EXCEPT ![r] = "none"]
  /\ outcome' = [outcome EXCEPT ![r] = <<>>]
  /\ queue' = Append(queue, r)
  /\ UNCHANGED <<sessionVars, ready, pages, created, requestVars, up, failures, crashes>>

(* POST /requests/:id/start on a failed preparation that is not terminal.   *)
Retry(r) ==
  /\ up
  /\ status[r] = "failed"
  /\ error[r] # "no_eligible"
  /\ status' = [status EXCEPT ![r] = "preparing"]
  /\ error' = [error EXCEPT ![r] = "none"]
  /\ queue' = Append(queue, r)
  /\ UNCHANGED <<sessionVars, ready, outcome, pages, created, requestVars, up, failures, crashes>>

-----------------------------------------------------------------------------
(* The pack campaign                                                        *)

PacksWith(r, s) == {o \in DOMAIN pack[r] : pack[r][o].status = s}

PackAssigned(r, o) ==
  [s \in Session |->
     IF s \in pack[r][o].members /\ member[r][s] = "pending" THEN "assigned" ELSE member[r][s]]

(* POST /requests/:id/start claims the lowest available pack.  With none    *)
(* available it returns the lowest pack in flight, which changes nothing:   *)
(* that pack is then worked on by whoever called.                           *)
ClaimPack(r) ==
  /\ up
  /\ status[r] = "ready"
  /\ reqStatus[r] # "completed"
  /\ \E o \in PacksWith(r, "available") :
       /\ \A p \in PacksWith(r, "available") : o <= p
       /\ pack' = [pack EXCEPT ![r][o].status = "active"]
       /\ member' = [member EXCEPT ![r] = PackAssigned(r, o)]
  /\ reqStatus' = [reqStatus EXCEPT ![r] = IF @ \in {"open", "active"} THEN "active" ELSE @]
  /\ UNCHANGED <<sessionVars, prepVars, receipt, daemonVars>>

(* Mutant: the status guard of the save lost.                               *)
SaveableOnceClaimed(p) == p.status \in {"active", "saved", "completed"}

Saveable(p) == p.status \in {"active", "saved"}

(* saveWorkbenchAuthoringV5Draft.  The draft must name exactly the sessions *)
(* of the pack; each save replaces the one before.  Inspect and scaffold    *)
(* are not required by it and change no state modelled here.                *)
SaveDraft(r, o) ==
  /\ up
  /\ Saveable(pack[r][o])
  /\ pack[r][o].draft.revision < MaxDraftRevision
  /\ \E verdict \in [pack[r][o].members -> Disposition] :
       pack' = [pack EXCEPT
         ![r][o].draft = [revision |-> @.revision + 1, verdict |-> verdict],
         ![r][o].status = "saved"]
  /\ UNCHANGED <<sessionVars, prepVars, reqStatus, member, receipt, daemonVars>>

(* finishWorkbenchAuthoringV5Pack.  A pack with a receipt answers with it.  *)
(* The draft is parsed against the current members, rejecting a published   *)
(* session throws, and the whole finish is one transaction.                 *)
CanFinish(r, o) ==
  LET p == pack[r][o]
  IN /\ p.status = "saved"
     /\ p.receipt = NoDraft
     /\ DOMAIN p.draft.verdict = p.members
     /\ \A s \in p.members :
          p.draft.verdict[s] = "hard_reject" => CanFailQuality(row[s])

(* Mutant: the serial rule, complete when nothing is left to claim.         *)
NothingLeftToClaim(r, o) ==
  \A q \in DOMAIN pack[r] \ {o} : pack[r][q].status \notin {"pending", "available"}

LastPack(r, o) == \A q \in DOMAIN pack[r] \ {o} : pack[r][q].status = "completed"

(* [...completedReceipts, packReceipt]: the other packs by ordinal, then    *)
(* the one that finishes the request.                                       *)
RequestReceipt(r, last) ==
  [k \in DOMAIN pack[r] |->
     LET o == IF k = Len(pack[r]) THEN last ELSE IF k < last THEN k ELSE k + 1
     IN [pack |-> o, receipt |-> IF o = last THEN pack[r][o].draft ELSE pack[r][o].receipt]]

FinishPack(r, o) ==
  LET p == pack[r][o]
      done == [p EXCEPT !.status = "completed", !.receipt = p.draft]
  IN /\ up
     /\ CanFinish(r, o)
     /\ row' = [s \in Session |->
          IF s \in p.members THEN FinishedRow(row[s], p.draft.verdict[s]) ELSE row[s]]
     /\ member' = [member EXCEPT ![r] =
          [s \in Session |-> IF s \in p.members /\ @[s] = "assigned"
                               THEN MemberStateFor(p.draft.verdict[s]) ELSE @[s]]]
     /\ pack' = [pack EXCEPT ![r] =
          [q \in DOMAIN @ |-> IF q = o THEN done ELSE Released(@[q])]]
     /\ reqStatus' = [reqStatus EXCEPT ![r] = IF LastPack(r, o) THEN "completed" ELSE "active"]
     /\ receipt' = IF LastPack(r, o) THEN [receipt EXCEPT ![r] = RequestReceipt(r, o)] ELSE receipt
     /\ UNCHANGED <<stored, prepVars, daemonVars>>

-----------------------------------------------------------------------------
(* The rest of the daemon                                                   *)

(* POST /workbench/sessions/:id/quality {"status": "failed"}                *)
UserExcludes(s) ==
  /\ up
  /\ s \in stored
  /\ CanFailQuality(row[s])
  /\ row' = [row EXCEPT ![s] = QualityFailed(@, "user", "manual_exclusion", NoRevision)]
  /\ UNCHANGED <<stored, prepVars, requestVars, daemonVars>>

(* POST /workbench/sessions/:id/quality {"status": "passed"}                *)
UserAccepts(s) ==
  /\ up
  /\ s \in stored
  /\ row' = [row EXCEPT ![s] = QualityPassed(@, @.source, @.revision)]
  /\ UNCHANGED <<stored, prepVars, requestVars, daemonVars>>

(* reconcileImportedTranscript when an import completes and the precheck    *)
(* keeps the session; an exclusion by the user stands.                      *)
TranscriptImported(s) ==
  /\ up
  /\ s \in stored
  /\ row[s].publication # "published"
  /\ row[s].transcript # "imported"
  /\ LET imported == WithTranscript(row[s], "imported")
     IN row' = [row EXCEPT ![s] =
          IF imported.publication = "not_added_to_logbook" /\ imported.source = "user"
            THEN imported ELSE QualityPassed(imported, "automatic", 0)]
  /\ UNCHANGED <<stored, prepVars, requestVars, daemonVars>>

(* Mutant: pack membership without ON DELETE CASCADE.                       *)
MembershipKept(p, s) == p

MembershipDeleted(p, s) == [p EXCEPT !.members = @ \ {s}]

(* Deleting the data of a session (deleteSessionScope): the freeze triggers *)
(* abort it, otherwise the foreign keys take its row and memberships along. *)
DeleteSession(s) ==
  /\ up
  /\ s \in stored
  /\ ~Frozen(s)
  /\ stored' = stored \ {s}
  /\ row' = [row EXCEPT ![s] = FreshRow]
  /\ member' = [r \in Request |-> [member[r] EXCEPT ![s] = "none"]]
  /\ pack' = [r \in Request |->
       [o \in DOMAIN pack[r] |-> MembershipDeleted(pack[r][o], s)]]
  /\ UNCHANGED <<prepVars, reqStatus, receipt, daemonVars>>

(* The process dies: the coordinator's set is memory, the rest is SQLite.   *)
Crash ==
  /\ up
  /\ crashes < MaxCrashes
  /\ crashes' = crashes + 1
  /\ up' = FALSE
  /\ queue' = <<>>
  /\ UNCHANGED <<sessionVars, prepVars, requestVars, failures>>

(* Mutant: a startup that does not call resume().                           *)
NothingResumed == <<>>

(* listPreparingWorkbenchAuthoringV5RequestIds                              *)
ResumedQueue == Subsequence(created, {i \in DOMAIN created : Preparing(created[i])})

(* Startup: coordinator.resume() queues every preparing request.            *)
Restart ==
  /\ ~up
  /\ up' = TRUE
  /\ queue' = ResumedQueue
  /\ UNCHANGED <<sessionVars, prepVars, requestVars, failures, crashes>>

-----------------------------------------------------------------------------
PreparationStep(r) ==
  \/ PrepareBatch(r) \/ FinalizeNoEligible(r) \/ FinalizeShell(r) \/ FinalizeMembers(r)
  \/ FinalizePack(r) \/ FinalizeRelease(r)

RequestStep(r) ==
  \/ Create(r) \/ PreparationStep(r) \/ StepFails(r) \/ Retry(r) \/ ClaimPack(r)
  \/ \E o \in DOMAIN pack[r] : SaveDraft(r, o) \/ FinishPack(r, o)

SessionStep(s) ==
  UserExcludes(s) \/ UserAccepts(s) \/ TranscriptImported(s) \/ DeleteSession(s)

Next ==
  \/ \E r \in Request : RequestStep(r)
  \/ \E s \in Session : SessionStep(s)
  \/ Crash
  \/ Restart

Spec == Init /\ [][Next]_vars

(* The event loop runs the next coordinator step as long as one is queued,  *)
(* and the launcher restarts a daemon that died.                            *)
Fairness ==
  /\ \A r \in Request : WF_vars(PreparationStep(r))
  /\ WF_vars(Restart)

FairSpec == Spec /\ Fairness

-----------------------------------------------------------------------------
(* Properties                                                               *)

TypeOK ==
  /\ stored \subseteq Session
  /\ row \in [Session -> Row]
  /\ status \in [Request -> PrepStatus]
  /\ error \in [Request -> ErrorCode]
  /\ ready \in [Request -> SUBSET Session]
  /\ outcome \in [Request -> Seq({"eligible", "excluded"})]
  /\ pages \in [Request -> Nat]
  /\ reqStatus \in [Request -> {"none", "open", "active", "completed"}]
  /\ member \in [Request -> [Session -> MemberState]]
  /\ pack \in [Request -> Seq(Pack)]
  /\ receipt \in [Request -> Seq([pack : Nat \ {0}, receipt : Draft])]
  /\ created \in Seq(Request)
  /\ queue \in Seq(Request)
  /\ up \in BOOLEAN
  /\ failures \in Nat
  /\ crashes \in Nat

(* No preparation is forgotten: while the daemon runs, the in-memory queue  *)
(* holds exactly the requests SQLite calls preparing, each once - through   *)
(* failures, retries, crashes and the rebuild in resume().                  *)
QueueIsPreparing ==
  /\ up => Range(queue) = {r \in Request : Preparing(r)}
  /\ \A i, j \in DOMAIN queue : queue[i] = queue[j] => i = j

(* Nothing of a request can be claimed before all of it is there: until the *)
(* preparation is ready its packs are pending, and once it is ready every   *)
(* planned pack exists and none is pending.                                 *)
StagedUntilReady ==
  \A r \in Request :
    /\ status[r] # "ready" => \A o \in DOMAIN pack[r] : pack[r][o].status = "pending"
    /\ status[r] = "ready" =>
         /\ Len(pack[r]) = PackCount(EligibleCount(r))
         /\ \A o \in DOMAIN pack[r] : pack[r][o].status # "pending"

(* The packs divide the eligible sessions that are still stored, in the     *)
(* order of the selection, whatever chunks, failures, retries and deletions *)
(* came between the transactions that wrote them.                           *)
PacksFollowPlan ==
  \A r \in Request :
    /\ \A o \in DOMAIN pack[r] :
         pack[r][o].members = PlannedMembers(r, o - 1) \cap stored
    /\ pack[r] # <<>> => Members(r) = Eligible(r) \cap stored

(* The freeze triggers keep what a preparation still has to insert: until   *)
(* it is ready, no eligible session can disappear, so the foreign keys of   *)
(* the member and pack rows hold and the count-based slices miss nobody.    *)
EligibleStayStored ==
  \A r \in Request : status[r] \in {"preparing", "failed"} => Eligible(r) \subseteq stored

(* The state of a member row is that of its pack.                           *)
MembersTrackPacks ==
  \A r \in Request : \A o \in DOMAIN pack[r] : \A s \in pack[r][o].members :
    LET p == pack[r][o]
    IN member[r][s] =
         CASE p.status \in {"pending", "available"} -> "pending"
           [] p.status \in {"active", "saved"}      -> "assigned"
           [] p.status = "completed"                -> MemberStateFor(p.receipt.verdict[s])

(* A request is complete exactly when every pack of it is, and its receipt  *)
(* then carries the receipt of every pack: parallel agents finishing the    *)
(* last packs in any order neither lose nor repeat one.                     *)
CompletionIsExact ==
  \A r \in Request :
    /\ reqStatus[r] = "completed" <=>
         /\ status[r] = "ready"
         /\ \A o \in DOMAIN pack[r] : pack[r][o].status = "completed"
    /\ reqStatus[r] # "completed" => receipt[r] = <<>>
    /\ reqStatus[r] = "completed" =>
         /\ Len(receipt[r]) = Len(pack[r])
         /\ Range(receipt[r]) =
              {[pack |-> o, receipt |-> pack[r][o].receipt] : o \in DOMAIN pack[r]}

(* Together: what the members, the packs and the request say of the work is *)
(* one account of it.                                                       *)
AccountsAgree == MembersTrackPacks /\ CompletionIsExact

(* A receipt is written once, for the draft the pack holds, and nothing     *)
(* changes it or the draft afterwards.                                      *)
ReceiptsAreFinal ==
  [][\A r \in Request : \A o \in DOMAIN pack[r] :
       /\ pack[r][o].receipt # NoDraft => pack'[r][o].receipt = pack[r][o].receipt
       /\ pack'[r][o].receipt # NoDraft => pack'[r][o].receipt = pack'[r][o].draft]_vars

(* Outcomes are only appended: what a preparation decided about a session   *)
(* stands through failures, retries and restarts, so the plan of the packs  *)
(* cannot shift under rows already inserted.                                *)
OutcomesAreStable ==
  [][\A r \in Request :
       /\ \A k \in DOMAIN outcome[r] :
            k \in DOMAIN outcome'[r] /\ outcome'[r][k] = outcome[r][k]
       /\ reqStatus[r] # "none" => outcome'[r] = outcome[r]]_vars

(* Every preparation ends: ready, or failed and waiting for a retry.        *)
PreparationSettles ==
  \A r \in Request : Preparing(r) ~> status[r] \in {"ready", "failed"}

=============================================================================
