------------------------- MODULE ImportCoordinator -------------------------
(***************************************************************************)
(* The import job queue of the daemon: rows of import_jobs, the in-memory  *)
(* queue that runs at most MaxActive of them (importCoordinator.ts), the   *)
(* HTTP requests that queue, cancel and retry a job, and what a restart    *)
(* does with the jobs a dead process left behind (server.ts).              *)
(*                                                                         *)
(* An entry of the queue is a run: the attempt-th time a job is enqueued.  *)
(* It stands for the cancellation token the code makes for that entry.     *)
(* What a worker does between its start and its end is ImportWorkUnits.    *)
(***************************************************************************)
EXTENDS Naturals, Sequences, FiniteSets, Functions

CONSTANTS
  Job,          \* import_job_id
  MaxActive,    \* MASTHEAD_IMPORT_CONCURRENCY after parseImportConcurrency
  MaxRetries,   \* bound: retries asked for
  MaxCrashes    \* bound: deaths of the process nothing in it asked for

ASSUME ImportedJobs == IsFiniteSet(Job)
ASSUME ImportConcurrency == MaxActive \in 0..8
ASSUME ImportBounds == MaxRetries \in Nat /\ MaxCrashes \in Nat

VARIABLES
  status,       \* import_jobs.status, "absent" before the row exists
  phase,        \* of the process: "down", "up", or "closing" after daemon.close()
  interrupted,  \* interruptedImportJobIds not yet handed to resumeInterruptedImports
  active,       \* activeImportJobs: the attempt whose token a job has, 0 for none
  attempt,      \* how often this process has enqueued a job
  pending,      \* pendingImportJobs
  cancelled,    \* the runs whose token says cancelled
  working,      \* the runs whose worker is awaited
  settled,      \* the runs that are over but still hold their slot
  running,      \* runningImportJobs
  drain,        \* importDrainScheduled
  retries,
  crashes

memory == <<active, attempt, pending, cancelled, working, settled, running, drain>>
vars == <<status, phase, interrupted, memory, retries, crashes>>

Run == [job : Job, attempt : Nat \ {0}]
Unfinished == {"queued", "running", "cancelling"}
Succeeded == {"succeeded", "succeeded_with_issues"}
Status == Unfinished \cup Succeeded \cup {"failed", "cancelled"}

TypeOK ==
  /\ status \in [Job -> Status \cup {"absent"}]
  /\ phase \in {"down", "up", "closing"}
  /\ interrupted \in SUBSET Job
  /\ active \in [Job -> Nat]
  /\ attempt \in [Job -> Nat]
  /\ pending \in Seq(Run)
  /\ cancelled \subseteq Run /\ working \subseteq Run /\ settled \subseteq Run
  /\ running \in Nat
  /\ drain \in BOOLEAN
  /\ retries \in 0..MaxRetries
  /\ crashes \in 0..MaxCrashes

Init ==
  /\ status = [j \in Job |-> "absent"]
  /\ phase = "up" /\ interrupted = {} /\ retries = 0 /\ crashes = 0
  /\ active = [j \in Job |-> 0] /\ attempt = [j \in Job |-> 0]
  /\ pending = <<>> /\ running = 0 /\ drain = FALSE
  /\ cancelled = {} /\ working = {} /\ settled = {}

Processing == phase # "down"
Serving == phase = "up"

----------------------------------------------------------------------------
(* The queue *)

NewRun(j) == [job |-> j, attempt |-> attempt[j] + 1]

(* Enqueues the jobs of a sequence, each once. *)
Enqueue(jobs) ==
  LET these == Range(jobs) IN
  /\ attempt' = [j \in Job |-> IF j \in these THEN attempt[j] + 1 ELSE attempt[j]]
  /\ active' = [j \in Job |-> IF j \in these THEN attempt[j] + 1 ELSE active[j]]
  /\ pending' = pending \o [i \in DOMAIN jobs |-> NewRun(jobs[i])]
  /\ drain' = (drain \/ jobs # <<>>)

(* The queue without the first entry of a job. *)
Without(queue, j) ==
  LET entries == {i \in DOMAIN queue : queue[i].job = j} IN
  IF entries = {} THEN queue
  ELSE LET first == CHOOSE i \in entries : \A k \in entries : i <= k
       IN  SubSeq(queue, 1, first - 1) \o SubSeq(queue, first + 1, Len(queue))

QueueJob(j) ==
  /\ Serving
  /\ status[j] = "absent"
  /\ status' = [status EXCEPT ![j] = "queued"]
  /\ Enqueue(<<j>>)
  /\ UNCHANGED <<phase, interrupted, cancelled, working, settled, running, retries, crashes>>

(* Mutant: a retry that does not ask whether the queue has the job already.  *)
RetryTwice(j) ==
  /\ Serving
  /\ status[j] \notin {"absent", "cancelling"}
  /\ retries < MaxRetries /\ retries' = retries + 1
  /\ status' = [status EXCEPT ![j] = "queued"]
  /\ Enqueue(<<j>>)
  /\ UNCHANGED <<phase, interrupted, cancelled, working, settled, running, crashes>>

(* A retry of a job the queue already has changes nothing, and one of a job *)
(* being cancelled is refused.                                              *)
RetryJob(j) ==
  /\ Serving
  /\ status[j] \notin {"absent", "cancelling"}
  /\ active[j] = 0
  /\ retries < MaxRetries /\ retries' = retries + 1
  /\ status' = [status EXCEPT ![j] = "queued"]
  /\ Enqueue(<<j>>)
  /\ UNCHANGED <<phase, interrupted, cancelled, working, settled, running, crashes>>

CancelJob(j) ==
  /\ Serving
  /\ status[j] # "absent"
  /\ cancelled' = IF active[j] = 0 THEN cancelled
                  ELSE cancelled \cup {[job |-> j, attempt |-> active[j]]}
  /\ \/ /\ status[j] = "queued"
        /\ status' = [status EXCEPT ![j] = "cancelled"]
        /\ pending' = Without(pending, j)
        /\ active' = [active EXCEPT ![j] = 0]
     \/ /\ status[j] = "running"
        /\ status' = [status EXCEPT ![j] = "cancelling"]
        /\ UNCHANGED <<pending, active>>
     \/ /\ status[j] \notin {"queued", "running"}
        /\ UNCHANGED <<status, pending, active>>
  /\ UNCHANGED <<phase, interrupted, attempt, working, settled, running, drain, retries, crashes>>

(* Mutant: <= for < in the loop's condition.                                 *)
FreeSlotsInclusive == IF running <= MaxActive THEN MaxActive + 1 - running ELSE 0

FreeSlots == IF running < MaxActive THEN MaxActive - running ELSE 0
Starts == IF FreeSlots < Len(pending) THEN FreeSlots ELSE Len(pending)
Starting == Range(SubSeq(pending, 1, Starts))
Refused(r) == r \in cancelled \/ status[r.job] \in {"cancelled", "cancelling"}

(* One microtask: every free slot takes an entry, and each entry runs to    *)
(* its first await, which is its worker's unless it was cancelled meanwhile.*)
Drain ==
  /\ Processing /\ drain
  /\ drain' = FALSE
  /\ LET refused == {r \in Starting : Refused(r)}
         jobs(runs) == {r.job : r \in runs}
     IN  /\ status' = [j \in Job |-> IF j \in jobs(refused) THEN "cancelled"
                                     ELSE IF j \in jobs(Starting) THEN "running"
                                     ELSE status[j]]
         /\ active' = [j \in Job |-> IF j \in jobs(refused) THEN 0 ELSE active[j]]
         /\ working' = working \cup (Starting \ refused)
         /\ settled' = settled \cup refused
  /\ running' = running + Starts
  /\ pending' = SubSeq(pending, Starts + 1, Len(pending))
  /\ UNCHANGED <<phase, interrupted, attempt, cancelled, retries, crashes>>

(* Mutant: no check after the worker.                                        *)
RecordedUnchecked(r, outcome) == outcome

(* What runQueuedImportJob records when its worker ends.  The last check    *)
(* before a result is written sees the token and the row.                   *)
WorkerOutcome == Succeeded \cup {"failed"}
Recorded(r, outcome) ==
  IF r \in cancelled \/ status[r.job] \in {"cancelled", "cancelling"} THEN "cancelled" ELSE outcome

Settle(r) ==
  /\ Processing
  /\ \E outcome \in WorkerOutcome :
       status' = [status EXCEPT ![r.job] = Recorded(r, outcome)]
  /\ active' = [active EXCEPT ![r.job] = 0]
  /\ working' = working \ {r}
  /\ settled' = settled \cup {r}
  /\ UNCHANGED <<phase, interrupted, attempt, pending, cancelled, running, drain, retries, crashes>>

(* Mutant: a slot given back without another drain.                          *)
ReleaseSilently(r) ==
  /\ Processing
  /\ settled' = settled \ {r}
  /\ running' = IF running > 0 THEN running - 1 ELSE 0
  /\ UNCHANGED <<status, phase, interrupted, active, attempt, pending, cancelled, working, drain, retries, crashes>>

(* The finally callback of drainImportQueue. *)
Release(r) ==
  /\ Processing
  /\ settled' = settled \ {r}
  /\ running' = IF running > 0 THEN running - 1 ELSE 0
  /\ drain' = TRUE
  /\ UNCHANGED <<status, phase, interrupted, active, attempt, pending, cancelled, working, retries, crashes>>

----------------------------------------------------------------------------
(* Death, restart and resumption *)

Die ==
  /\ phase' = "down"
  /\ interrupted' = {}
  /\ active' = [j \in Job |-> 0] /\ attempt' = [j \in Job |-> 0]
  /\ pending' = <<>> /\ running' = 0 /\ drain' = FALSE
  /\ cancelled' = {} /\ working' = {} /\ settled' = {}
  /\ UNCHANGED <<status, retries>>

Crash == Serving /\ crashes < MaxCrashes /\ crashes' = crashes + 1 /\ Die
Exit == phase = "closing" /\ Die /\ UNCHANGED crashes

(* Mutants: jobs that were running are requeued but not returned to the      *)
(* caller; jobs that were being cancelled are not selected.                  *)
StartReturningQueued ==
  /\ phase = "down"
  /\ phase' = "up"
  /\ interrupted' = {j \in Job : status[j] = "queued"}
  /\ status' = [j \in Job |-> CASE status[j] \in {"queued", "running"} -> "queued"
                                [] status[j] = "cancelling" -> "cancelled"
                                [] OTHER -> status[j]]
  /\ UNCHANGED <<memory, retries, crashes>>
StartIgnoringCancelling ==
  /\ phase = "down"
  /\ phase' = "up"
  /\ interrupted' = {j \in Job : status[j] \in {"queued", "running"}}
  /\ status' = [j \in Job |-> IF status[j] \in {"queued", "running"} THEN "queued" ELSE status[j]]
  /\ UNCHANGED <<memory, retries, crashes>>

(* recoverInterruptedImportJobs, before the server answers anything. *)
Start ==
  /\ phase = "down"
  /\ phase' = "up"
  /\ interrupted' = {j \in Job : status[j] \in {"queued", "running"}}
  /\ status' = [j \in Job |-> CASE status[j] \in {"queued", "running"} -> "queued"
                                [] status[j] = "cancelling" -> "cancelled"
                                [] OTHER -> status[j]]
  /\ UNCHANGED <<memory, retries, crashes>>

Orderings(S) == Bijection(1..Cardinality(S), S)

(* resumeInterruptedImports goes through the list after it has awaited the  *)
(* discovery of sources, while requests are already served.  A job whose    *)
(* source is gone fails; one that is being cancelled throws, and the        *)
(* rejection, which nobody handles, closes the daemon with the rest of the  *)
(* list unread.                                                             *)
ResumeInterrupted ==
  /\ Serving
  /\ interrupted # {}
  /\ \E gone \in SUBSET interrupted, reached \in SUBSET interrupted :
       LET stops == {j \in interrupted \ gone : status[j] = "cancelling"}
           resumed == {j \in reached \ gone : active[j] = 0}
       IN  /\ gone \subseteq reached
           /\ IF stops = {} THEN reached = interrupted ELSE reached \cap stops = {}
           /\ phase' = IF stops = {} THEN "up" ELSE "closing"
           /\ status' = [j \in Job |-> IF j \in gone THEN "failed"
                                       ELSE IF j \in resumed THEN "queued" ELSE status[j]]
           /\ \E order \in Orderings(resumed) : Enqueue(order)
  /\ interrupted' = {}
  /\ UNCHANGED <<cancelled, working, settled, running, retries, crashes>>

Next ==
  \/ \E j \in Job : QueueJob(j) \/ RetryJob(j) \/ CancelJob(j)
  \/ Drain
  \/ \E r \in working : Settle(r)
  \/ \E r \in settled : Release(r)
  \/ Crash \/ Exit \/ Start \/ ResumeInterrupted

Spec == Init /\ [][Next]_vars

(* Microtasks run and workers end; a closed process exits and is started    *)
(* again; discovery, and with it resumption, comes to an end.               *)
Fairness ==
  /\ WF_vars(Drain) /\ WF_vars(Exit) /\ WF_vars(Start) /\ WF_vars(ResumeInterrupted)
  /\ \A j \in Job : /\ WF_vars(\E r \in working : r.job = j /\ Settle(r))
                    /\ WF_vars(\E r \in settled : r.job = j /\ Release(r))
FairSpec == Spec /\ Fairness

----------------------------------------------------------------------------
(* Safety *)

LiveRuns == Range(pending) \cup working

(* A job has at most one entry in the queue or worker at work, whatever is  *)
(* retried, cancelled or resumed around it (resumeImportJob looks only at   *)
(* activeImportJobs): two would import the same files side by side.         *)
OneRunPerJob ==
  /\ \A r, s \in LiveRuns : r.job = s.job => r = s
  /\ \A i, k \in DOMAIN pending : pending[i] = pending[k] => i = k
  /\ Range(pending) \cap working = {}

(* activeImportJobs holds exactly the token of the job's queued or working  *)
(* run: a missing entry makes a cancellation invisible to the worker, and a *)
(* stale one turns every retry into a no-op.                                *)
TrackedExactly ==
  \A j \in Job :
    active[j] = (IF \E r \in LiveRuns : r.job = j
                 THEN (CHOOSE r \in LiveRuns : r.job = j).attempt ELSE 0)

(* runningImportJobs counts the slots in use and never exceeds the          *)
(* configured concurrency.                                                  *)
SlotsCounted ==
  /\ running = Cardinality(working) + Cardinality(settled)
  /\ running <= MaxActive

(* No wakeup is lost: a free slot and a waiting entry mean that a drain is  *)
(* scheduled.                                                               *)
NoIdleSlot == running < MaxActive /\ pending # <<>> => drain

(* Together: slots are neither lost, nor overbooked, nor left idle.         *)
SlotsUsed == SlotsCounted /\ NoIdleSlot

(* While the daemon serves, a row that says queued is in the queue or on    *)
(* the list of the interrupted, and one that says running or cancelling has *)
(* a worker: no row promises work that nobody will do.                      *)
NoJobForgotten ==
  Serving => \A j \in Job :
    /\ status[j] = "queued" => j \in interrupted \/ \E r \in Range(pending) : r.job = j
    /\ status[j] \in {"running", "cancelling"} => \E r \in working : r.job = j

(* A cancellation that was answered is not overtaken by the result of the   *)
(* worker it raced: the row goes from cancelling or cancelled to success    *)
(* only through the queue again.                                            *)
CancelledNeverSucceeds ==
  [][\A j \in Job : status[j] \in {"cancelling", "cancelled"} => status'[j] \notin Succeeded]_vars

----------------------------------------------------------------------------
(* Liveness *)

(* Every queued job gets its turn, also when the process dies or closes     *)
(* itself over an aborted resumption.                                       *)
QueuedJobsStart == \A j \in Job : status[j] = "queued" ~> status[j] # "queued"

(* Every cancellation comes to an end.                                      *)
CancellationEnds == \A j \in Job : status[j] = "cancelling" ~> status[j] \notin Unfinished
=============================================================================
