---------------------------- MODULE PagesPublication ----------------------------
(***************************************************************************)
(* Masthead Pages: publishing one Logbook lineage on the hosted service    *)
(* and withdrawing it again.  Four actors:                                 *)
(*   - the daemon keeps one row per lineage, with at most one staged       *)
(*     operation (src/daemon/db/mastheadPagesRepository.ts and             *)
(*     mastheadPagesApi.ts);                                               *)
(*   - the review dialog starts flows and records their results            *)
(*     (src/app/mastheadPages/useMastheadPagesController.ts).  It can be   *)
(*     closed and opened again while a flow runs;                          *)
(*   - the Electron main process loads the staged bytes again, compares    *)
(*     digests and sends them (src/electron/mastheadPages*.ts);            *)
(*   - the hosted service is external: it answers a request once for each  *)
(*     idempotency key, checks the expected parent, may refuse, may be     *)
(*     unavailable, and its answer may never arrive.                       *)
(* A request is a number: its bytes hold a fresh idempotency key, so the   *)
(* number stands for the key, the digest and the published object alike.   *)
(* A page has the number of the request that created it.                   *)
(* The dialog's copy of the row decides which buttons it shows; the        *)
(* handlers are modelled as callable whenever the dialog is open and not   *)
(* busy, which allows more than the buttons do.                            *)
(***************************************************************************)
EXTENDS Integers, Sequences

CONSTANTS
  Flows,        \* publish and removal handlers that may run at a time
  MaxRequests   \* bound on the operations staged

ASSUME PagesAssumption == MaxRequests \in Nat

VARIABLES
  requests,    \* every operation staged so far
  mapping,     \* daemon: the lineage's row of masthead_pages_release_mappings
  review,      \* dialog: its phase and the request it finalized
  flow,        \* handlers between two awaits
  confirmed,   \* requests whose digest a click of the user selected
  wire,        \* requests whose sender stopped waiting; they may still arrive
  site,        \* host: the object each page shows and whether it is listed
  accepted,    \* host: keys answered with success
  refused,     \* host: keys refused for good
  crossed      \* history: since the last operation was staged, a result of
               \* an earlier one has been recorded

dialog == <<review, flow, confirmed>>
host == <<wire, site, accepted, refused>>
row == <<requests, mapping, crossed>>
vars == <<row, dialog, host>>

None == 0
Ids == 1..MaxRequests
Idle == [pc |-> "idle", mode |-> "none", id |-> None, request |-> None,
         answer |-> "none", current |-> None]

TypeOK ==
  /\ requests \in Seq([kind : {"publish", "remove"}, page : Ids \union {None}, parent : Ids \union {None}])
  /\ Len(requests) <= MaxRequests
  /\ mapping \in [status : {"none", "live", "failed", "removed"}, page : Ids \union {None},
                  object : Ids \union {None}, pending : Ids \union {None}, error : BOOLEAN]
  /\ review \in [phase : {"closed", "editing", "finalized", "busy", "complete"}, staged : Ids \union {None}]
  /\ flow \in [Flows -> [pc : {"idle", "load", "send", "sent", "answered", "threw"},
                         mode : {"none", "confirm", "retry", "remove"},
                         id : Ids \union {None}, request : Ids \union {None},
                         answer : {"none", "accepted", "conflict", "refused", "unavailable"},
                         current : Ids \union {None}]]
  /\ site \in [Ids -> [object : Ids \union {None}, listed : BOOLEAN]]
  /\ {confirmed, wire, accepted, refused} \subseteq SUBSET Ids
  /\ crossed \in BOOLEAN

Init ==
  /\ requests = <<>>
  /\ mapping = [status |-> "none", page |-> None, object |-> None, pending |-> None, error |-> FALSE]
  /\ review = [phase |-> "closed", staged |-> None]
  /\ flow = [f \in Flows |-> Idle]
  /\ site = [p \in Ids |-> [object |-> None, listed |-> FALSE]]
  /\ confirmed = {} /\ wire = {} /\ accepted = {} /\ refused = {}
  /\ crossed = FALSE

-----------------------------------------------------------------------------
(* The daemon's row.                                                        *)

KindPending(kind) == mapping.pending # None /\ requests[mapping.pending].kind = kind

\* finalizeOne and stageMastheadPagesPublication: the request names the page
\* and the parent the row knows, and replaces whatever was staged.
StagePublication ==
  /\ Len(requests) < MaxRequests
  /\ requests' = Append(requests, [kind |-> "publish", page |-> mapping.page, parent |-> mapping.object])
  /\ mapping' = [mapping EXCEPT !.pending = Len(requests'), !.error = FALSE,
                                !.status = IF @ = "removed" THEN "none" ELSE @]
  /\ crossed' = FALSE

StageRemoval ==
  /\ Len(requests) < MaxRequests
  /\ mapping.page # None
  /\ mapping.status = "removed" => mapping.pending # None
  /\ requests' = Append(requests, [kind |-> "remove", page |-> mapping.page, parent |-> None])
  /\ mapping' = [mapping EXCEPT !.pending = Len(requests'), !.error = FALSE]
  /\ crossed' = FALSE

Target(n) == IF requests[n].page = None THEN n ELSE requests[n].page

\* recordMastheadPagesPublication, markMastheadPagesRemoved and
\* recordMastheadPagesFailure: none of them looks at which request is staged.
RecordPublication(n) ==
  mapping' = [status |-> "live", page |-> Target(n), object |-> n, pending |-> None, error |-> FALSE]

MarkRemoved == mapping' = [mapping EXCEPT !.status = "removed", !.pending = None, !.error = FALSE]

RecordFailure(retryable, current) ==
  mapping' = [mapping EXCEPT !.error = TRUE,
                             !.object = IF current = None THEN @ ELSE current,
                             !.status = IF retryable THEN @ ELSE "failed",
                             !.pending = IF retryable THEN @ ELSE None]

-----------------------------------------------------------------------------
(* The dialog.                                                              *)

\* patch: results go into whatever review is open now; a closed one ignores
\* them, having no artifact.
Patch(phase) == IF review.phase = "closed" THEN review ELSE [review EXCEPT !.phase = phase]
Free == review.phase \notin {"closed", "busy"}

OpenReview ==
  /\ review.phase = "closed"
  /\ review' = [phase |-> "editing", staged |-> None]
  /\ UNCHANGED <<row, flow, confirmed, host>>

CloseReview ==
  /\ review.phase # "closed"
  /\ review' = [phase |-> "closed", staged |-> None]
  /\ UNCHANGED <<row, flow, confirmed, host>>

\* finalizeReview: the daemon stages; its response may be lost.
FinalizeReview ==
  /\ review.phase \in {"editing", "finalized"}
  /\ StagePublication
  /\ \/ review' = [phase |-> "finalized", staged |-> Len(requests')]
     \/ review' = [review EXCEPT !.phase = "editing"]
  /\ UNCHANGED <<flow, confirmed, host>>

Starts(f, mode, n) ==
  /\ flow[f].pc = "idle"
  /\ flow' = [flow EXCEPT ![f] = [Idle EXCEPT !.pc = "load", !.mode = mode, !.id = n]]
  /\ confirmed' = confirmed \union {n}
  /\ review' = [review EXCEPT !.phase = "busy"]

ConfirmPublish(f) ==
  /\ review.phase = "finalized" /\ review.staged # None
  /\ Starts(f, "confirm", review.staged)
  /\ UNCHANGED <<row, host>>

\* retryPendingPublication and retryPendingRemoval ask the daemon what is staged.
RetryPublication(f) ==
  /\ Free /\ KindPending("publish")
  /\ Starts(f, "retry", mapping.pending)
  /\ UNCHANGED <<row, host>>

RetryRemoval(f) ==
  /\ Free /\ KindPending("remove")
  /\ Starts(f, "remove", mapping.pending)
  /\ UNCHANGED <<row, host>>

\* confirmRemoval takes the digest of a removal its copy of the row still
\* shows as staged, which may be an old one, or stages a new removal.
ConfirmRemoval(f) ==
  /\ Free
  /\ \/ \E n \in 1..Len(requests) : requests[n].kind = "remove" /\ Starts(f, "remove", n)
        /\ UNCHANGED row
     \/ StageRemoval /\ Starts(f, "remove", Len(requests'))
  /\ UNCHANGED host

\* A handler that gets nothing staged to work on: the daemon does not answer,
\* has no operation of this kind, or refuses to stage one.
NothingStaged ==
  /\ Free
  /\ review' = [review EXCEPT !.phase = "editing"]
  /\ UNCHANGED <<row, flow, confirmed, host>>

-----------------------------------------------------------------------------
(* Electron: publishStaged and withdrawStaged.                              *)

\* The handler is in its catch block, and has forgotten what it was handling.
Throws(f) == flow' = [flow EXCEPT ![f] = [Idle EXCEPT !.pc = "threw", !.mode = flow[f].mode]]

\* Mutant: whatever is staged now is sent.
VerifiedKind(f) == KindPending(IF flow[f].mode = "remove" THEN "remove" ELSE "publish")

\* loadStagedPublishBatch, loadStagedRemoval: fetch what is staged once more;
\* its kind and its digest must be those the dialog asked for.
Verified(f) ==
  /\ KindPending(IF flow[f].mode = "remove" THEN "remove" ELSE "publish")
  /\ mapping.pending = flow[f].id

LoadStaged(f) ==
  /\ flow[f].pc = "load"
  /\ \/ Verified(f) /\ flow' = [flow EXCEPT ![f].pc = "send", ![f].request = mapping.pending]
     \/ Throws(f)
  /\ UNCHANGED <<row, review, confirmed, host>>

\* ensureAccessToken, then the POST.
Send(f) ==
  /\ flow[f].pc = "send"
  /\ flow' = [flow EXCEPT ![f].pc = "sent"] \/ Throws(f)
  /\ UNCHANGED <<row, review, confirmed, host>>

\* The response is late, lost or malformed.
TransportFails(f) ==
  /\ flow[f].pc = "sent"
  /\ Throws(f)
  /\ wire' = wire \union {flow[f].request}
  /\ UNCHANGED <<row, review, confirmed, site, accepted, refused>>

-----------------------------------------------------------------------------
(* The hosted service (external).                                           *)

Revises(n) == requests[n].kind = "publish" /\ requests[n].page # None
Fits(n) == Revises(n) => site[requests[n].page].object = requests[n].parent

HostAccepts(n) ==
  \/ n \in accepted /\ UNCHANGED <<site, accepted, refused>>
  \/ /\ n \notin accepted \union refused
     /\ Fits(n)
     /\ accepted' = accepted \union {n}
     /\ site' = [site EXCEPT ![Target(n)] =
                   IF requests[n].kind = "remove" THEN [@ EXCEPT !.listed = FALSE]
                   ELSE [object |-> n, listed |-> TRUE]]
     /\ UNCHANGED refused

HostConflicts(n) == n \notin accepted \union refused /\ ~Fits(n) /\ UNCHANGED <<site, accepted, refused>>

HostRefuses(n) == n \notin accepted /\ refused' = refused \union {n} /\ UNCHANGED <<site, accepted>>

HostAnswers(f) ==
  LET n == flow[f].request
      Answer(a, current) == flow' = [flow EXCEPT ![f].pc = "answered", ![f].answer = a, ![f].current = current]
  IN /\ flow[f].pc = "sent"
     /\ \/ HostAccepts(n) /\ Answer("accepted", None)
        \/ HostRefuses(n) /\ Answer("refused", None)
        \/ HostConflicts(n) /\ \E current \in {None, site[Target(n)].object} : Answer("conflict", current)
        \/ Answer("unavailable", None) /\ UNCHANGED <<site, accepted, refused>>
     /\ UNCHANGED <<row, review, confirmed, wire>>

\* A request whose sender has given up reaches the host after all.
LateArrival ==
  /\ \E n \in wire : (HostAccepts(n) \/ HostRefuses(n)) /\ wire' = wire \ {n}
  /\ UNCHANGED <<row, dialog>>

-----------------------------------------------------------------------------
(* Results.                                                                 *)

Publishes(f) == flow[f].mode \in {"confirm", "retry"}
Answered(f, answers) == flow[f].pc = "answered" /\ flow[f].answer \in answers
Failures == {"conflict", "refused", "unavailable"}

\* patch of a result: a closed review ignores it.
Ends(f, phase) == flow' = [flow EXCEPT ![f] = Idle] /\ review' = Patch(phase)

\* A handler has the daemon record its result.  The daemon does, and its own
\* response may be lost; or it does not.
Recorded(f, phase) ==
  /\ \/ Ends(f, phase)
     \/ Throws(f) /\ UNCHANGED review
  /\ crossed' = (crossed \/ flow[f].request # Len(requests))
NotRecorded(f) == Throws(f) /\ UNCHANGED <<mapping, crossed, review>>

\* confirmPublish kept the review it began with; retryPendingPublication takes
\* the fingerprint and the logbook of the review open now, and the daemon
\* rejects a receipt that has none.
Published(f) ==
  /\ Answered(f, {"accepted"}) /\ Publishes(f)
  /\ \/ /\ flow[f].mode = "confirm" \/ review.phase # "closed"
        /\ RecordPublication(flow[f].request)
        /\ Recorded(f, "complete")
     \/ NotRecorded(f)
  /\ UNCHANGED <<requests, confirmed, host>>

\* Mutant: every failure the host answers is final.
FinalFailures(f) == {FALSE}

\* A conflict is final for confirmPublish; retryPendingPublication believes
\* the host's own flag.
Retryables(f) ==
  CASE flow[f].answer = "unavailable" -> {TRUE}
    [] flow[f].answer = "conflict" /\ flow[f].mode = "retry" -> BOOLEAN
    [] OTHER -> {FALSE}

PublishFailed(f) ==
  /\ Answered(f, Failures) /\ Publishes(f)
  /\ \/ /\ \E retryable \in Retryables(f) : RecordFailure(retryable, flow[f].current)
        /\ Recorded(f, IF flow[f].answer = "conflict" /\ flow[f].mode = "confirm" THEN "editing" ELSE "finalized")
     \/ NotRecorded(f)
  /\ UNCHANGED <<requests, confirmed, host>>

\* Mutant: any answer of the host counts as a removal.
WithdrawnAnyway(f) ==
  /\ flow[f].pc = "answered" /\ flow[f].mode = "remove"
  /\ \/ MarkRemoved /\ Recorded(f, "complete")
     \/ NotRecorded(f)
  /\ UNCHANGED <<requests, confirmed, host>>

Withdrawn(f) ==
  /\ Answered(f, {"accepted"}) /\ flow[f].mode = "remove"
  /\ \/ MarkRemoved /\ Recorded(f, "complete")
     \/ NotRecorded(f)
  /\ UNCHANGED <<requests, confirmed, host>>

RemovalFailed(f) ==
  /\ Answered(f, Failures) /\ flow[f].mode = "remove"
  /\ \/ RecordFailure(flow[f].answer = "unavailable", None) /\ Recorded(f, "editing")
     \/ NotRecorded(f)
  /\ UNCHANGED <<requests, confirmed, host>>

\* Mutant: an exception clears the operation.
ConfirmThrewForGood(f) ==
  /\ flow[f].pc = "threw" /\ flow[f].mode = "confirm"
  /\ RecordFailure(FALSE, None) \/ UNCHANGED mapping
  /\ Ends(f, "finalized")
  /\ UNCHANGED <<requests, crossed, confirmed, host>>

\* The catch blocks: confirmPublish records a retryable failure, and ignores
\* that this fails too; the others record nothing.
ConfirmThrew(f) ==
  /\ flow[f].pc = "threw" /\ flow[f].mode = "confirm"
  /\ RecordFailure(TRUE, None) \/ UNCHANGED mapping
  /\ Ends(f, "finalized")
  /\ UNCHANGED <<requests, crossed, confirmed, host>>

OtherThrew(f) ==
  /\ flow[f].pc = "threw" /\ flow[f].mode # "confirm"
  /\ Ends(f, "editing")
  /\ UNCHANGED <<row, confirmed, host>>

\* The desktop application quits; the daemon and the host keep what they have.
Quit ==
  /\ flow' = [f \in Flows |-> Idle]
  /\ review' = [phase |-> "closed", staged |-> None]
  /\ wire' = wire \union {flow[f].request : f \in {g \in Flows : flow[g].pc = "sent"}}
  /\ UNCHANGED <<row, confirmed, site, accepted, refused>>

-----------------------------------------------------------------------------

FlowStep(f) ==
  \/ LoadStaged(f) \/ Send(f) \/ TransportFails(f) \/ HostAnswers(f)
  \/ Published(f) \/ PublishFailed(f) \/ Withdrawn(f) \/ RemovalFailed(f)
  \/ ConfirmThrew(f) \/ OtherThrew(f)

Next ==
  \/ OpenReview \/ CloseReview \/ FinalizeReview \/ NothingStaged \/ LateArrival \/ Quit
  \/ \E f \in Flows :
       ConfirmPublish(f) \/ RetryPublication(f) \/ RetryRemoval(f) \/ ConfirmRemoval(f) \/ FlowStep(f)

Spec == Init /\ [][Next]_vars

-----------------------------------------------------------------------------
(* Properties.                                                              *)

\* What leaves the machine is a request the user confirmed: staging again
\* between the click and the transfer never sends the newer bytes instead
\* ("Digest checked at IPC time matches the reviewed request digest").
OnlyConfirmedLeaves ==
  wire \union accepted \union {flow[f].request : f \in {g \in Flows : flow[g].pc = "sent"}} \subseteq confirmed

\* What the host did for the operation staged last is recorded, or the
\* operation is still staged, so that a retry finds out: no lost answer, failed
\* recording, refusal or restart makes the daemon forget it.  Closing the review
\* while a handler runs lets a second one start; only a result that such an
\* earlier handler records over the operation (crossed) may hide it.
LatestIsTracked ==
  LET n == Len(requests) IN
  (n \in accepted /\ ~crossed) =>
    \/ mapping.pending = n
    \/ requests[n].kind = "publish" /\ mapping.object = n /\ mapping.page = Target(n)
    \/ requests[n].kind = "remove" /\ mapping.status = "removed"

\* A row marked removed names a page the host no longer lists, unless a
\* publication nobody waits for any more has put a newer object there, or the
\* row tells of an operation before the last one (crossed).
RemovedIsWithdrawn ==
  (mapping.status = "removed" /\ ~crossed) =>
    ~site[mapping.page].listed \/ site[mapping.page].object # mapping.object

OwnAnswer(f) == Answered(f, {"accepted", "conflict", "refused"}) /\ flow[f].request = mapping.pending

\* An operation whose attempt failed leaves the row when the host's answer to
\* it is recorded or when the user stages something else, whatever exceptions,
\* lost responses and restarts come between, unless the result of an earlier
\* operation is recorded over it.
FailedStaysStaged ==
  [][(mapping.pending # None /\ mapping.error /\ mapping'.pending # mapping.pending)
       => (requests' # requests \/ crossed' \/ \E f \in Flows : OwnAnswer(f))]_vars

\* masthead-pages-integration.md: "Retryable failures keep the staged pending
\* operation for a later confirmed retry."
RetryableFailureKeepsPending ==
  [][(mapping.pending # None /\ mapping.error /\ mapping'.pending # mapping.pending)
       => (requests' # requests \/ \E f \in Flows : OwnAnswer(f))]_vars
=============================================================================
