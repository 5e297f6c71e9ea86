----------------------------- MODULE LiveIngest -----------------------------
(***************************************************************************)
(* Live events against destructive mutations, daemon/server.ts: POST        *)
(* /ingest, the deferred queue, the immediate persistence chain, and the    *)
(* barrier that /data/delete, /data/retention/default, /retention and       *)
(* /clear put in front of their mutation.                                   *)
(*                                                                          *)
(* An ingest request remembers the mutation epoch of its arrival, reads its *)
(* body, waits for a barrier and is dropped as stale when the epoch moved.  *)
(* An accepted event goes to the deferred queue or, when the projection     *)
(* needs it at once, to a chain of setImmediate callbacks that writes it.   *)
(* The mutation is taken to delete everything.  The shutdown closes the     *)
(* queue once every request has been answered.  Repeated event ids, which   *)
(* ingestNormalizedEvent answers as duplicates, validation-only requests,   *)
(* Git refreshes and clients that hang up are left out.                     *)
(***************************************************************************)
EXTENDS LiveIngestQueue

CONSTANTS
  Event,       \* events posted to /ingest
  Immediate,   \* those eventLiveProcessingMode does not defer
  Mutation     \* destructive mutations

ASSUME IngestAssumption ==
  /\ Immediate \subseteq Event
  \* no barrier, and the owners of the queue's other jobs
  /\ {"none", "queue", "close"} \cap Mutation = {}

VARIABLES
  request,     \* state of the ingest request of an event
  seen,        \* the epoch it captured (requestDestructiveMutationEpoch)
  epoch,       \* destructiveMutationEpoch
  barrier,     \* destructiveDeferredLiveIngestBarrier
  mutation,    \* state of a destructive request
  previous,    \* its previousBarrier
  number,      \* the epoch it began
  immediate,   \* events on the immediate persistence chain
  stored       \* events in the database

ingestVars == <<request, seen, immediate>>
mutationVars == <<epoch, barrier, mutation, previous, number>>
vars == <<queueVars, ingestVars, mutationVars, stored>>

Init ==
  /\ QueueInit
  /\ request = [e \in Event |-> "none"]
  /\ seen = [e \in Event |-> 0]
  /\ epoch = 0
  /\ barrier = "none"
  /\ mutation = [m \in Mutation |-> "none"]
  /\ previous = [m \in Mutation |-> "none"]
  /\ number = [m \in Mutation |-> 0]
  /\ immediate = <<>>
  /\ stored = {}

-----------------------------------------------------------------------------
(* POST /ingest                                                             *)

Arrive(e) ==
  /\ ~closed
  /\ request[e] = "none"
  /\ request' = [request EXCEPT ![e] = "reading"]
  /\ seen' = [seen EXCEPT ![e] = epoch]
  /\ UNCHANGED <<queueVars, immediate, mutationVars, stored>>

Stale(e) ==
  /\ request' = [request EXCEPT ![e] = "stale"]
  /\ UNCHANGED <<queueVars, seen, immediate, mutationVars, stored>>

Accept(e) ==
  /\ request' = [request EXCEPT ![e] = "accepted"]
  /\ IF e \in Immediate
       THEN immediate' = Append(immediate, e) /\ UNCHANGED queueVars
       ELSE QEnqueue(e) /\ UNCHANGED immediate
  /\ UNCHANGED <<seen, mutationVars, stored>>

(* Mutant: the second look at the epoch, after the wait, left out.          *)
AnyEpoch(e) == TRUE

CurrentEpoch(e) == seen[e] = epoch

(* The body is read.                                                        *)
BodyRead(e) ==
  /\ request[e] = "reading"
  /\ IF ~CurrentEpoch(e) THEN Stale(e)
     ELSE IF barrier = "none" THEN Accept(e)
     ELSE /\ request' = [request EXCEPT ![e] = "waiting"]
          /\ UNCHANGED <<queueVars, seen, immediate, mutationVars, stored>>

(* waitForDeferredLiveIngestDestructiveBarrier returned.                    *)
BarrierGone(e) ==
  /\ request[e] = "waiting"
  /\ barrier = "none"
  /\ IF CurrentEpoch(e) THEN Accept(e) ELSE Stale(e)

(* One link of immediateLiveIngestPersistence; an error is a diagnostic.    *)
PersistImmediate(ok) ==
  /\ immediate # <<>>
  /\ immediate' = Tail(immediate)
  /\ IF ok THEN stored' = stored \cup {Head(immediate)} /\ UNCHANGED queueVars
     ELSE /\ failures < MaxFailures
          /\ failures' = failures + 1
          /\ UNCHANGED <<stored, pending, timer, chain, batch, written, closed>>
  /\ UNCHANGED <<request, seen, mutationVars>>

-----------------------------------------------------------------------------
(* The queue at work                                                        *)

Timer == QTimerFires /\ UNCHANGED <<ingestVars, mutationVars, stored>>

Start(commits) ==
  /\ QStart(commits)
  /\ stored' = IF commits THEN stored \cup Range(NextBatch) ELSE stored
  /\ UNCHANGED <<ingestVars, mutationVars>>

Settle == QSettleOk /\ UNCHANGED <<ingestVars, mutationVars, stored>>

(* A job of flushNow resumes the mutation that awaits it.                   *)
Resumed(outcome) ==
  mutation' = [m \in Mutation |->
                 IF mutation[m] = "flushing" /\ m = Head(chain).owner THEN outcome ELSE mutation[m]]

EndJob ==
  /\ QJobEnds
  /\ Resumed("flushed")
  /\ UNCHANGED <<ingestVars, epoch, barrier, previous, number, stored>>

FailJob ==
  /\ QSettleFails
  /\ Resumed("failed")
  /\ UNCHANGED <<ingestVars, epoch, barrier, previous, number, stored>>

-----------------------------------------------------------------------------
(* withDeferredLiveIngestBarrierForDestructiveMutation                      *)

Begin(m) ==
  /\ ~closed
  /\ mutation[m] = "none"
  /\ mutation' = [mutation EXCEPT ![m] = "queued"]
  /\ previous' = [previous EXCEPT ![m] = barrier]
  /\ epoch' = epoch + 1
  /\ number' = [number EXCEPT ![m] = epoch + 1]
  /\ barrier' = m
  /\ UNCHANGED <<queueVars, ingestVars, stored>>

(* Mutant: the flush does not wait for the mutation before it.              *)
NoPrevious(m) == TRUE

(* await previousBarrier                                                    *)
PreviousDone(m) == \A n \in Mutation : previous[m] = n => mutation[n] = "done"

Flush(m) ==
  /\ mutation[m] = "queued"
  /\ PreviousDone(m)
  /\ QFlushNow(m)
  /\ mutation' = [mutation EXCEPT ![m] = "flushing"]
  /\ UNCHANGED <<ingestVars, epoch, barrier, previous, number, stored>>

(* The catch branch: deletion takes precedence over the events.             *)
Discard(m) ==
  /\ mutation[m] = "failed"
  /\ QDiscard
  /\ mutation' = [mutation EXCEPT ![m] = "flushed"]
  /\ UNCHANGED <<ingestVars, epoch, barrier, previous, number, stored>>

(* mutation() up to its first await: the database is cleared.               *)
Mutate(m) ==
  /\ mutation[m] = "flushed"
  /\ mutation' = [mutation EXCEPT ![m] = "mutating"]
  /\ stored' = {}
  /\ UNCHANGED <<queueVars, ingestVars, epoch, barrier, previous, number>>

(* Mutant: the barrier before this one restored instead of lifted.          *)
BarrierRestored(m) == previous[m]

BarrierAfter(m) == IF barrier = m THEN "none" ELSE barrier

Release(m) ==
  /\ mutation[m] = "mutating"
  /\ mutation' = [mutation EXCEPT ![m] = "done"]
  /\ barrier' = BarrierAfter(m)
  /\ UNCHANGED <<queueVars, ingestVars, epoch, previous, number, stored>>

-----------------------------------------------------------------------------
(* close of the daemon: server.close returns when the last request has been *)
(* answered, then the immediate chain is awaited and the queue closed.      *)
Shutdown ==
  /\ \A e \in Event : request[e] \notin {"reading", "waiting"}
  /\ \A m \in Mutation : mutation[m] \in {"none", "done"}
  /\ immediate = <<>>
  /\ QClose
  /\ UNCHANGED <<ingestVars, mutationVars, stored>>

-----------------------------------------------------------------------------
QueueStep == (\E commits \in BOOLEAN : Start(commits)) \/ Settle \/ EndJob \/ FailJob

MutationStep(m) == Flush(m) \/ Discard(m) \/ Mutate(m) \/ Release(m)

Next ==
  \/ \E e \in Event : Arrive(e) \/ BodyRead(e) \/ BarrierGone(e)
  \/ \E ok \in BOOLEAN : PersistImmediate(ok)
  \/ Timer
  \/ QueueStep
  \/ \E m \in Mutation : Begin(m) \/ MutationStep(m)
  \/ Shutdown

Spec == Init /\ [][Next]_vars

(* Timers fire, callbacks and promise chains make progress and mutations    *)
(* return.  A request body need not ever arrive.                            *)
Fairness ==
  /\ WF_vars(Timer)
  /\ WF_vars(QueueStep)
  /\ WF_vars(\E ok \in BOOLEAN : PersistImmediate(ok))
  /\ \A e \in Event : WF_vars(BarrierGone(e))
  /\ \A m \in Mutation : WF_vars(MutationStep(m))

FairSpec == Spec /\ Fairness

-----------------------------------------------------------------------------
(* Properties                                                               *)

TypeOK ==
  /\ pending \in Seq(Event)
  /\ chain \in Seq([retry : BOOLEAN, owner : {"queue", "close"} \cup Mutation])
  /\ batch \in Seq(Event)
  /\ request \in [Event -> {"none", "reading", "waiting", "accepted", "stale"}]
  /\ seen \in [Event -> 0 .. epoch]
  /\ barrier \in {"none"} \cup Mutation
  /\ mutation \in [Mutation ->
       {"none", "queued", "flushing", "failed", "flushed", "mutating", "done"}]
  /\ immediate \in Seq(Immediate)
  /\ stored \subseteq Event

(* A request that arrived before a destructive mutation began leaves no     *)
(* deferred event behind it: not in the database, and not in the queue that *)
(* would write it.  Overlapping mutations, failing flushes and requests     *)
(* stalled in their body or at the barrier make no difference.  A batch in  *)
(* flight has its transaction behind it and may be older.                   *)
Cleared(m) == mutation[m] \in {"mutating", "done"}

DeferredStayDeleted ==
  \A m \in Mutation : Cleared(m) =>
    \A e \in (stored \cup Range(pending)) \ Immediate :
      seen[e] >= number[m]

(* Mutations run one at a time, in the order they began, and nothing is     *)
(* accepted between the begin of a mutation and its end.                    *)
MutationsExclude ==
  /\ \A m, n \in Mutation :
       (m # n /\ mutation[m] \notin {"none", "queued", "done"})
         => mutation[n] \in {"none", "queued", "done"}
  /\ \A m, n \in Mutation :
       (mutation[m] = "done" /\ number[n] \in 1 .. number[m]) => mutation[n] = "done"

NothingAcceptedMeanwhile ==
  [][\A e \in Event : (request[e] # "accepted" /\ request'[e] = "accepted") =>
       \A m \in Mutation : mutation[m] \in {"none", "done"}]_vars

(* Pending events always have a flush coming: a timer, a job of the chain,  *)
(* or the discard that follows a failed flushNow.  The one step that may    *)
(* leave them with none is the failure of the last flush of a shutdown.     *)
Stranded ==
  /\ pending # <<>> /\ ~timer /\ chain = <<>>
  /\ \A m \in Mutation : mutation[m] # "failed"

OnlyLastFlushStrands ==
  [][(Stranded' /\ ~Stranded) =>
       batch # <<>> /\ ~written /\ Head(chain).owner = "close"]_vars

(* An event leaves the queue only by being written or discarded: a batch    *)
(* that settles after a discard takes no later event with it.               *)
NothingDropped ==
  [][\A e \in Range(pending) \ Range(pending') :
       \/ written /\ e \in Range(batch)
       \/ \E m \in Mutation : mutation[m] = "failed" /\ mutation'[m] = "flushed"]_vars

(* Every event that was accepted leaves the queue: its flush succeeds once  *)
(* failures stop, a mutation discards it, or the daemon is down.            *)
AcceptedDrain ==
  \A e \in Event : (e \in Range(pending)) ~>
    (e \notin Range(pending) \/ (closed /\ chain = <<>>))

(* No ingest or destructive request waits forever, not even behind flushes  *)
(* that fail.                                                               *)
RequestsAnswered ==
  /\ \A e \in Event : (request[e] = "waiting") ~> (request[e] \in {"accepted", "stale"})
  /\ \A m \in Mutation : (mutation[m] = "queued") ~> (mutation[m] = "done")

(* Together: what comes in is settled, behind failing flushes, mutations    *)
(* and a shutdown.                                                          *)
IngestSettles == AcceptedDrain /\ RequestsAnswered

-----------------------------------------------------------------------------
(* ingestServer.test.ts: "deleted state is not repopulated".  Nothing waits *)
(* for the immediate chain before the mutation.                             *)
DeletedIsNotRepopulated ==
  \A m \in Mutation : Cleared(m) => \A e \in stored : seen[e] >= number[m]
=============================================================================
