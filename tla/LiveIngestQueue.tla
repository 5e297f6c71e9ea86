-------------------------- MODULE LiveIngestQueue --------------------------
(***************************************************************************)
(* The deferred live-ingest queue, daemon/liveIngestQueue.ts: events wait   *)
(* in memory and are flushed in batches, by a timer, by a full batch or by  *)
(* an explicit flushNow.                                                    *)
(*                                                                          *)
(* The promise chain "inFlight" is the sequence of flush jobs not finished: *)
(* its head is the running one.  onFlush (server.ts) writes the batch in    *)
(* one SQLite transaction in its synchronous part and then awaits Git       *)
(* snapshots, so a batch is written when it starts and removed from pending *)
(* when it settles, with any other callback in between.                     *)
(*                                                                          *)
(* This module is the queue alone.  LiveIngest adds its callers.            *)
(***************************************************************************)
EXTENDS Naturals, Sequences, Functions, Subsequence

CONSTANTS
  MaxBatchSize,   \* maxBatchSize, 100 in the daemon
  MaxFailures     \* bound: failing flushes

ASSUME QueueAssumption ==
  /\ MaxBatchSize \in Nat \ {0}
  /\ MaxFailures \in Nat

VARIABLES
  pending,     \* events not yet flushed, in order
  timer,       \* the flush timer is set
  chain,       \* the flush jobs, each with retryOnFailure and who awaits it
  batch,       \* the batch onFlush is working on, <<>> when none
  written,     \* that batch's transaction committed
  closed,
  failures

queueVars == <<pending, timer, chain, batch, written, closed, failures>>

Background == [retry |-> TRUE, owner |-> "queue"]

QueueInit ==
  /\ pending = <<>>
  /\ timer = FALSE
  /\ chain = <<>>
  /\ batch = <<>>
  /\ written = FALSE
  /\ closed = FALSE
  /\ failures = 0

-----------------------------------------------------------------------------
(* The queue                                                                *)

(* enqueue on an open queue: a full batch triggers a background flush, less *)
(* than that sets the timer unless it is set.                               *)
QEnqueue(e) ==
  /\ pending' = Append(pending, e)
  /\ IF Len(pending) + 1 >= MaxBatchSize
       THEN timer' = FALSE /\ chain' = Append(chain, Background)
       ELSE timer' = TRUE /\ UNCHANGED chain
  /\ UNCHANGED <<batch, written, closed, failures>>

(* setTimeout callback                                                      *)
QTimerFires ==
  /\ timer
  /\ timer' = FALSE
  /\ chain' = Append(chain, Background)
  /\ UNCHANGED <<pending, batch, written, closed, failures>>

(* flushNow, awaited by owner                                               *)
QFlushNow(owner) ==
  /\ timer' = FALSE
  /\ chain' = Append(chain, [retry |-> FALSE, owner |-> owner])
  /\ UNCHANGED <<pending, batch, written, closed, failures>>

QDiscard ==
  /\ pending' = <<>>
  /\ timer' = FALSE
  /\ UNCHANGED <<chain, batch, written, closed, failures>>

(* close: one last explicit flush; enqueue is ignored from now on.          *)
QClose ==
  /\ ~closed
  /\ closed' = TRUE
  /\ timer' = FALSE
  /\ chain' = Append(chain, [retry |-> FALSE, owner |-> "close"])
  /\ UNCHANGED <<pending, batch, written, failures>>

(* The job at the head of the chain is not awaiting an onFlush.              *)
Idle == chain # <<>> /\ batch = <<>>

(* flushPending: the loop ends when nothing is pending.                     *)
QJobEnds ==
  /\ Idle
  /\ pending = <<>>
  /\ chain' = Tail(chain)
  /\ UNCHANGED <<pending, timer, batch, written, closed, failures>>

(* flushBatch up to the await: the transaction of onFlush commits or rolls  *)
(* back.                                                                    *)
NextBatch ==
  SubSeq(pending, 1, IF Len(pending) < MaxBatchSize THEN Len(pending) ELSE MaxBatchSize)

QStart(commits) ==
  /\ Idle
  /\ pending # <<>>
  /\ batch' = NextBatch
  /\ written' = commits
  /\ IF commits THEN UNCHANGED failures
     ELSE failures < MaxFailures /\ failures' = failures + 1
  /\ UNCHANGED <<pending, timer, chain, closed>>

(* Mutant: the batch taken off the front of whatever is pending now.        *)
FrontDropped(p, b) == SubSeq(p, Len(b) + 1, Len(p))

(* removeFlushedEvents: by event id, whatever happened to pending meanwhile.*)
WithoutFlushed(p, b) == Subsequence(p, {i \in DOMAIN p : p[i] \notin Range(b)})

QSettleOk ==
  /\ batch # <<>>
  /\ written
  /\ pending' = WithoutFlushed(pending, batch)
  /\ batch' = <<>>
  /\ written' = FALSE
  /\ UNCHANGED <<timer, chain, closed, failures>>

(* Mutant: a failed background job does not set the timer.                  *)
SettleFailsForGood ==
  /\ batch # <<>>
  /\ ~written
  /\ chain' = Tail(chain)
  /\ batch' = <<>>
  /\ UNCHANGED <<pending, timer, written, closed, failures>>

(* The catch branch: a background job retries by setting the timer; the     *)
(* error ends the job.                                                      *)
QSettleFails ==
  /\ batch # <<>>
  /\ ~written
  /\ timer' = (timer \/ (Head(chain).retry /\ ~closed /\ pending # <<>>))
  /\ chain' = Tail(chain)
  /\ batch' = <<>>
  /\ UNCHANGED <<pending, written, closed, failures>>
=============================================================================
