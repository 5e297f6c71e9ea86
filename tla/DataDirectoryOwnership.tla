---------------------- MODULE DataDirectoryOwnership ----------------------
(***************************************************************************)
(* Who may write a data directory: core/daemonOwnership.ts, its use by     *)
(* createMastheadDaemon and withExclusiveDatabaseMaintenance, and the      *)
(* cleanup that scripts/masthead-production.js does after it killed a      *)
(* maintenance child.                                                      *)
(*                                                                         *)
(* A writer holds three things: the SQLite lease of its database, the      *)
(* SQLite lease of the data directory (both freed by the operating system  *)
(* when it dies) and the sentinel file runtime/database.lock, which stays  *)
(* behind.  The sentinel is all that a daemon from before the leases       *)
(* reads.  Such a daemon is not in the repository: its actions are what    *)
(* docs/architecture/data-paths.md says of it, and there is one of it.     *)
(***************************************************************************)
EXTENDS Naturals

CONSTANTS Daemons,      \* process identifiers of daemons and maintenance children
          Old,          \* the process identifier of the daemon without leases
          Parent,       \* the lifecycle command that runs a maintenance child
          Databases,    \* database files inside the one data directory
          Configurations, \* a database, and whether the directory is named by its
                          \* canonical path: what a process can be started with
          MaxStarts,    \* bound: processes started, of every kind
          MaxAttempts,  \* creations of the sentinel one start tries (100 in the code)
          MaxTimeouts,  \* bound: maintenance children that exceed their time
          None

ASSUME OwnershipAssumption ==
  /\ Configurations \subseteq Databases \X BOOLEAN
  /\ Old \notin Daemons /\ Parent \notin Daemons \cup {Old}
  /\ None \notin Daemons \cup {Old, Parent}
  /\ MaxStarts \in Nat /\ MaxAttempts \in Nat /\ MaxTimeouts \in Nat

VARIABLES
  pc,          \* what each daemon process is doing
  db,          \* the database it was configured with
  exact,       \* its data directory was named by its canonical path
  run,         \* its number among the starts: the inode and token of its sentinel
  held,        \* the stale sentinel it has open
  attempts,    \* sentinel creations that ended in "try again"
  writerLease, \* <database>.lease.sqlite
  dirLease,    \* runtime/database.lease.sqlite
  lock,        \* runtime/database.lock
  moved,       \* the sentinel in quarantine whose identity is being verified
  old,         \* what the old daemon is doing
  oldRun,      \* its number among the starts
  parent,      \* the lifecycle command: its child, the evidence it captured
  starts,      \* processes started
  timeouts,    \* maintenance children that exceeded their time
  replaced,    \* history: sentinels of running processes the old daemon removed
  stranded     \* history: sentinels of running processes that one of the others
               \* took off the path and did not put back

process == <<pc, db, exact, run, held, attempts>>
leases == <<writerLease, dirLease>>
external == <<old, oldRun>>
history == <<replaced, stranded>>
counters == <<starts, timeouts, history>>
vars == <<process, leases, lock, moved, external, parent, counters>>

Acquiring == {"writerLease", "dirLease", "create", "write", "examine",
              "rename", "verify"}
Leaving == {"checkLock", "unlink", "freeDir", "freeWriter"}
\* "reused": an unrelated process got the process identifier.
Pcs == {"gone", "serving", "reused"} \cup Acquiring \cup Leaving

\* A sentinel: the process it names, its identity, its content and its links.
\* An empty one is not written yet; "old" lacks the protocol field.
Sentinel == [pid: Daemons \cup {Old}, id: Nat, form: {"empty", "v4", "old"},
             links: {1, 2}]

ASSUME NoneAssumption == None \notin Sentinel

TypeOK ==
  /\ pc \in [Daemons -> Pcs]
  /\ db \in [Daemons -> Databases \cup {None}]
  /\ exact \in [Daemons -> BOOLEAN]
  /\ run \in [Daemons -> Nat]
  /\ held \in [Daemons -> Sentinel \cup {None}]
  /\ attempts \in [Daemons -> Nat]
  /\ writerLease \in [Databases -> Daemons \cup {Parent, None}]
  /\ dirLease \in Daemons \cup {Parent, None}
  /\ lock \in Sentinel \cup {None}
  /\ moved \in Sentinel \cup {None}
  /\ old \in {"gone", "create", "replace", "serving"}
  /\ oldRun \in Nat
  /\ parent \in [pc: {"idle", "captured", "signalled", "leased", "rename",
                      "verify", "free"},
                 child: Daemons \cup {None}, start: Nat,
                 db: Databases \cup {None}, evidence: Sentinel \cup {None}]
  /\ starts \in Nat /\ timeouts \in Nat
  /\ replaced \in SUBSET Nat /\ stranded \in SUBSET Nat

IdleParent == [pc |-> "idle", child |-> None, start |-> 0, db |-> None,
               evidence |-> None]

Init ==
  /\ pc = [p \in Daemons |-> "gone"]
  /\ db = [p \in Daemons |-> None]
  /\ exact = [p \in Daemons |-> TRUE]
  /\ run = [p \in Daemons |-> 0]
  /\ held = [p \in Daemons |-> None]
  /\ attempts = [p \in Daemons |-> 0]
  /\ writerLease = [d \in Databases |-> None]
  /\ dirLease = None
  /\ lock = None
  /\ moved = None
  /\ old = "gone"
  /\ oldRun = 0
  /\ parent = IdleParent
  /\ starts = 0
  /\ timeouts = 0
  /\ replaced = {}
  /\ stranded = {}

-----------------------------------------------------------------------------
(* Helpers.                                                                *)

Running(p) == pc[p] \notin {"gone", "reused"}

\* processIsAlive: a signal 0 reaches whatever has the process identifier.
PidAlive(pid) ==
  IF pid = Old THEN old # "gone" ELSE pc[pid] # "gone"

\* clearProvenStaleCompatibilitySentinel: everything it checks before it
\* touches the path.  Only the current protocol's records parse.
ProvenStale(f) == f.form = "v4" /\ f.links = 1 /\ ~PidAlive(f.pid)

SameFile(f, g) == f.id = g.id

\* link() beside an existing sentinel does nothing; otherwise the file has
\* two names from now on, for the one in quarantine is never removed.
LinkedBack == IF lock = None THEN [moved EXCEPT !.links = 2] ELSE lock

Goto(p, next) == pc' = [pc EXCEPT ![p] = next]

\* The process that made this sentinel is still up.
Owned(f) == \/ \E p \in Daemons : Running(p) /\ run[p] = f.id
            \/ old # "gone" /\ oldRun = f.id

\* History: what was taken away from its path, when its process still runs.
WithLoss(lost, f) == IF f # None /\ Owned(f) THEN lost \cup {f.id} ELSE lost

-----------------------------------------------------------------------------
(* Starting: the two leases, then the sentinel.                            *)

Start(p) ==
  /\ pc[p] = "gone"
  /\ starts < MaxStarts
  /\ \E c \in Configurations :
        /\ db' = [db EXCEPT ![p] = c[1]]
        /\ exact' = [exact EXCEPT ![p] = c[2]]
  /\ starts' = starts + 1
  /\ run' = [run EXCEPT ![p] = starts + 1]
  /\ Goto(p, "writerLease")
  /\ UNCHANGED <<held, attempts, leases, lock, moved, external, parent,
                 timeouts, history>>

\* A process that is over keeps nothing but its name.
Forget(p) ==
  /\ db' = [db EXCEPT ![p] = None]
  /\ exact' = [exact EXCEPT ![p] = TRUE]
  /\ run' = [run EXCEPT ![p] = 0]
  /\ held' = [held EXCEPT ![p] = None]
  /\ attempts' = [attempts EXCEPT ![p] = 0]

\* Mutant: a busy lease is waited for (busy_timeout without end).
AcquireWriterLeaseBlocking(p) ==
  /\ pc[p] = "writerLease"
  /\ writerLease[db[p]] = None
  /\ writerLease' = [writerLease EXCEPT ![db[p]] = p]
  /\ Goto(p, "dirLease")
  /\ UNCHANGED <<db, exact, run, held, attempts, dirLease, lock, moved, external,
                 parent, counters>>

AcquireWriterLease(p) ==
  /\ pc[p] = "writerLease"
  /\ IF writerLease[db[p]] = None
       THEN /\ writerLease' = [writerLease EXCEPT ![db[p]] = p]
            /\ Goto(p, "dirLease")
            /\ UNCHANGED <<db, exact, run, held, attempts>>
       ELSE /\ Goto(p, "gone")
            /\ Forget(p)
            /\ UNCHANGED writerLease
  /\ UNCHANGED <<dirLease, lock, moved, external, parent, counters>>

AcquireDirLease(p) ==
  /\ pc[p] = "dirLease"
  /\ IF dirLease = None
       THEN dirLease' = p /\ Goto(p, "create")
       ELSE Goto(p, "freeWriter") /\ UNCHANGED dirLease
  /\ UNCHANGED <<db, exact, run, held, attempts, writerLease, lock, moved,
                 external, parent, counters>>

\* Mutant: the sentinel is opened with "w".
CreateSentinelOverwriting(p) ==
  /\ pc[p] = "create"
  /\ lock' = [pid |-> p, id |-> run[p], form |-> "empty", links |-> 1]
  /\ Goto(p, "write")
  /\ UNCHANGED <<db, exact, run, held, attempts, leases, moved, external,
                 parent, counters>>

\* open(lockPath, "wx"): the file is there, private and still empty.
CreateSentinel(p) ==
  /\ pc[p] = "create"
  /\ IF lock = None
       THEN /\ lock' = [pid |-> p, id |-> run[p], form |-> "empty", links |-> 1]
            /\ Goto(p, "write")
       ELSE /\ Goto(p, "examine")
            /\ UNCHANGED lock
  /\ UNCHANGED <<db, exact, run, held, attempts, leases, moved, external,
                 parent, counters>>

\* The content is written through the descriptor and synced, then the file
\* must still have its one name.
WriteSentinel(p) ==
  /\ pc[p] = "write"
  /\ IF lock # None /\ lock.id = run[p]
       THEN lock' = [lock EXCEPT !.form = "v4"] /\ Goto(p, "serving")
       ELSE Goto(p, "freeDir") /\ UNCHANGED lock
  /\ UNCHANGED <<db, exact, run, held, attempts, leases, moved, external,
                 parent, counters>>

\* The next round of the loop, or its end.
TryAgain(p) ==
  /\ attempts' = [attempts EXCEPT ![p] = @ + 1]
  /\ Goto(p, IF attempts[p] + 1 < MaxAttempts THEN "create" ELSE "freeDir")
  /\ held' = [held EXCEPT ![p] = None]

\* The sentinel that was in the way: gone meanwhile, stale beyond doubt and
\* held open, or not to be touched.
ExamineSentinel(p) ==
  /\ pc[p] = "examine"
  /\ \/ /\ lock = None
        /\ TryAgain(p)
     \/ /\ lock # None
        /\ exact[p] /\ ProvenStale(lock)
        /\ held' = [held EXCEPT ![p] = lock]
        /\ Goto(p, "rename")
        /\ UNCHANGED attempts
     \/ /\ lock # None
        /\ ~(exact[p] /\ ProvenStale(lock))
        /\ Goto(p, "freeDir")
        /\ UNCHANGED <<held, attempts>>
  /\ UNCHANGED <<db, exact, run, leases, lock, moved, external, parent, counters>>

\* rename(lockPath, quarantinePath) takes whatever is at the path by now.
QuarantineStale(p) ==
  /\ pc[p] = "rename"
  /\ IF lock = None
       THEN /\ TryAgain(p)
            /\ UNCHANGED <<lock, moved>>
       ELSE /\ moved' = lock
            /\ lock' = None
            /\ Goto(p, "verify")
            /\ UNCHANGED <<held, attempts>>
  /\ UNCHANGED <<db, exact, run, leases, external, parent, counters>>

\* Mutant: the moved file is not compared with the one that was examined.
VerifyQuarantinedUnchecked(p) ==
  /\ pc[p] = "verify"
  /\ TryAgain(p)
  /\ moved' = None
  /\ UNCHANGED <<db, exact, run, leases, lock, external, parent, counters>>

\* Another file than the one held, or a process identifier that came back to
\* life: put it back and give up.
VerifyQuarantined(p) ==
  /\ pc[p] = "verify"
  /\ IF SameFile(moved, held[p]) /\ ~PidAlive(held[p].pid)
       THEN /\ TryAgain(p)
            /\ UNCHANGED <<lock, stranded>>
       ELSE /\ lock' = LinkedBack
            /\ stranded' = IF lock = None THEN stranded ELSE WithLoss(stranded, moved)
            /\ Goto(p, "freeDir")
            /\ held' = [held EXCEPT ![p] = None]
            /\ UNCHANGED attempts
  /\ moved' = None
  /\ UNCHANGED <<db, exact, run, leases, external, parent, starts, timeouts, replaced>>

-----------------------------------------------------------------------------
(* Leaving: the database is closed, then everything is released in turn.   *)

Close(p) ==
  /\ pc[p] = "serving"
  /\ Goto(p, "checkLock")
  /\ UNCHANGED <<db, exact, run, held, attempts, leases, lock, moved, external,
                 parent, counters>>

\* releaseCompatibilitySentinel: the token and the identity are read ...
CheckOwnSentinel(p) ==
  /\ pc[p] = "checkLock"
  /\ Goto(p, IF lock # None /\ lock.id = run[p] THEN "unlink" ELSE "freeDir")
  /\ UNCHANGED <<db, exact, run, held, attempts, leases, lock, moved, external,
                 parent, counters>>

\* ... and the path is removed afterwards.
UnlinkSentinel(p) ==
  /\ pc[p] = "unlink"
  /\ lock' = None
  /\ stranded' = IF lock # None /\ lock.id = run[p] THEN stranded
                 ELSE WithLoss(stranded, lock)
  /\ Goto(p, "freeDir")
  /\ UNCHANGED <<db, exact, run, held, attempts, leases, moved, external,
                 parent, starts, timeouts, replaced>>

FreeDirLease(p) ==
  /\ pc[p] = "freeDir"
  /\ dirLease' = None
  /\ Goto(p, "freeWriter")
  /\ UNCHANGED <<db, exact, run, held, attempts, writerLease, lock, moved,
                 external, parent, counters>>

FreeWriterLease(p) ==
  /\ pc[p] = "freeWriter"
  /\ writerLease' = [writerLease EXCEPT ![db[p]] = None]
  /\ Goto(p, "gone")
  /\ Forget(p)
  /\ UNCHANGED <<dirLease, lock, moved, external, parent, counters>>

\* The operating system frees the leases of a process that died.
FreedBy(q) == /\ writerLease' = [d \in Databases |->
                    IF writerLease[d] = q THEN None ELSE writerLease[d]]
              /\ dirLease' = IF dirLease = q THEN None ELSE dirLease

\* Killed anywhere.  What it had in quarantine stays there for good.
Crash(p) ==
  /\ Running(p)
  /\ Goto(p, "gone")
  /\ Forget(p)
  /\ FreedBy(p)
  /\ IF pc[p] = "verify"
       THEN moved' = None /\ stranded' = WithLoss(stranded, moved)
       ELSE UNCHANGED <<moved, stranded>>
  /\ UNCHANGED <<lock, external, parent, starts, timeouts, replaced>>

ReusePid(p) ==
  /\ pc[p] = "gone"
  /\ lock # None /\ lock.pid = p
  /\ Goto(p, "reused")
  /\ UNCHANGED <<db, exact, run, held, attempts, leases, lock, moved, external,
                 parent, counters>>

FreePid(p) ==
  /\ pc[p] = "reused"
  /\ Goto(p, "gone")
  /\ UNCHANGED <<db, exact, run, held, attempts, leases, lock, moved, external,
                 parent, counters>>

-----------------------------------------------------------------------------
(* The lifecycle command whose maintenance child runs out of time.         *)

\* captureMaintenanceSentinel, while the child lives: no sentinel, or the
\* child's own.  (Otherwise nothing but the signal follows.)
CaptureEvidence(p) ==
  /\ parent.pc = "idle"
  /\ Running(p)
  /\ timeouts < MaxTimeouts
  /\ lock # None => lock.pid = p /\ lock.form = "v4" /\ lock.links = 1
  /\ parent' = [pc |-> "captured", child |-> p, start |-> run[p], db |-> db[p],
                evidence |-> lock]
  /\ timeouts' = timeouts + 1
  /\ UNCHANGED <<process, leases, lock, moved, external, starts, history>>

ChildRuns == Running(parent.child) /\ run[parent.child] = parent.start

\* The signal goes to the exact child only; it dies by Crash.
SignalChild ==
  /\ parent.pc = "captured"
  /\ parent' = IF ChildRuns THEN [parent EXCEPT !.pc = "signalled"] ELSE IdleParent
  /\ UNCHANGED <<process, leases, lock, moved, external, counters>>

\* The grace period ends before the child's exit is seen.
ExitUnproven ==
  /\ parent.pc = "signalled"
  /\ parent' = IdleParent
  /\ UNCHANGED <<process, leases, lock, moved, external, counters>>

\* Mutant: the lease of the data directory is not taken.
LeaseCleanupOfDatabase ==
  /\ parent.pc = "signalled"
  /\ ~ChildRuns
  /\ IF writerLease[parent.db] = None
       THEN /\ writerLease' = [writerLease EXCEPT ![parent.db] = Parent]
            /\ parent' = [parent EXCEPT !.pc = "leased"]
       ELSE parent' = IdleParent /\ UNCHANGED writerLease
  /\ UNCHANGED <<process, dirLease, lock, moved, external, counters>>

LeaseCleanup ==
  /\ parent.pc = "signalled"
  /\ ~ChildRuns
  /\ IF writerLease[parent.db] = None /\ dirLease = None
       THEN /\ writerLease' = [writerLease EXCEPT ![parent.db] = Parent]
            /\ dirLease' = Parent
            /\ parent' = [parent EXCEPT !.pc = "leased"]
       ELSE parent' = IdleParent /\ UNCHANGED leases
  /\ UNCHANGED <<process, lock, moved, external, counters>>

\* assertColdRuntimeOffline: no daemon answers.
Offline == old # "serving" /\ \A p \in Daemons : pc[p] # "serving"

CheckEvidence ==
  /\ parent.pc = "leased"
  /\ parent' = [parent EXCEPT !.pc =
       IF ~PidAlive(parent.child) /\ Offline /\ lock # None /\ lock = parent.evidence
       THEN "rename" ELSE "free"]
  /\ UNCHANGED <<process, leases, lock, moved, external, counters>>

QuarantineEvidence ==
  /\ parent.pc = "rename"
  /\ IF lock = None
       THEN /\ parent' = [parent EXCEPT !.pc = "free"]
            /\ UNCHANGED <<lock, moved>>
       ELSE /\ moved' = lock
            /\ lock' = None
            /\ parent' = [parent EXCEPT !.pc = "verify"]
  /\ UNCHANGED <<process, leases, external, counters>>

\* readMaintenanceSentinelSnapshot takes only the current protocol's records
\* with one name: it throws for anything else before it is compared.
Readable(f) == f.form = "v4" /\ f.links = 1

\* The child's sentinel stays in quarantine, and so does what cannot be read,
\* whoever runs on it; only another record of the protocol is put back.
VerifyEvidence ==
  /\ parent.pc = "verify"
  /\ IF moved = parent.evidence
       THEN UNCHANGED <<lock, stranded>>
       ELSE /\ lock' = IF Readable(moved) THEN LinkedBack ELSE lock
            /\ stranded' = IF Readable(moved) /\ lock = None THEN stranded
                           ELSE WithLoss(stranded, moved)
  /\ moved' = None
  /\ parent' = [parent EXCEPT !.pc = "free"]
  /\ UNCHANGED <<process, leases, external, starts, timeouts, replaced>>

FreeCleanup ==
  /\ parent.pc = "free"
  /\ FreedBy(Parent)
  /\ parent' = IdleParent
  /\ UNCHANGED <<process, lock, moved, external, counters>>

CrashParent ==
  /\ parent.pc # "idle"
  /\ FreedBy(Parent)
  /\ IF parent.pc = "verify"
       THEN moved' = None /\ stranded' = WithLoss(stranded, moved)
       ELSE UNCHANGED <<moved, stranded>>
  /\ parent' = IdleParent
  /\ UNCHANGED <<process, lock, external, starts, timeouts, replaced>>

-----------------------------------------------------------------------------
(* External: the daemon without leases, and the operator.                  *)

StartOld ==
  /\ old = "gone"
  /\ starts < MaxStarts
  /\ old' = "create"
  /\ oldRun' = starts + 1
  /\ starts' = starts + 1
  /\ UNCHANGED <<process, leases, lock, moved, parent, timeouts, history>>

\* It respects the sentinel of a live process and replaces a stale one.
CreateOld ==
  /\ old = "create"
  /\ \/ /\ lock = None
        /\ lock' = [pid |-> Old, id |-> oldRun, form |-> "old", links |-> 1]
        /\ old' = "serving"
     \/ /\ lock # None
        /\ old' = IF lock.form = "empty" \/ PidAlive(lock.pid)
                  THEN "gone" ELSE "replace"
        /\ UNCHANGED lock
  /\ UNCHANGED <<process, leases, moved, oldRun, parent, counters>>

\* "an uncooperative old daemon could replace the pathname concurrently"
ReplaceOld ==
  /\ old = "replace"
  /\ lock' = None
  /\ replaced' = WithLoss(replaced, lock)
  /\ old' = "create"
  /\ UNCHANGED <<process, leases, moved, oldRun, parent, starts, timeouts, stranded>>

StopOld ==
  /\ old = "serving"
  /\ lock' = IF lock # None /\ lock.id = oldRun THEN None ELSE lock
  /\ old' = "gone"
  /\ UNCHANGED <<process, leases, moved, oldRun, parent, counters>>

CrashOld ==
  /\ old # "gone"
  /\ old' = "gone"
  /\ UNCHANGED <<process, leases, lock, moved, oldRun, parent, counters>>

\* What every refusal asks for: with no daemon running, remove the file.
RemoveByOperator ==
  /\ lock # None
  /\ old = "gone" /\ parent.pc = "idle"
  /\ \A p \in Daemons : ~Running(p)
  /\ lock' = None
  /\ UNCHANGED <<process, leases, moved, external, parent, counters>>

-----------------------------------------------------------------------------
Step(p) ==
  \/ AcquireWriterLease(p) \/ AcquireDirLease(p)
  \/ CreateSentinel(p) \/ WriteSentinel(p) \/ ExamineSentinel(p)
  \/ QuarantineStale(p) \/ VerifyQuarantined(p)
  \/ CheckOwnSentinel(p) \/ UnlinkSentinel(p)
  \/ FreeDirLease(p) \/ FreeWriterLease(p)

ParentStep ==
  \/ SignalChild \/ ExitUnproven \/ LeaseCleanup \/ CheckEvidence
  \/ QuarantineEvidence \/ VerifyEvidence \/ FreeCleanup

OldStep == StartOld \/ CreateOld \/ ReplaceOld \/ StopOld \/ CrashOld

Next ==
  \/ \E p \in Daemons :
        Start(p) \/ Step(p) \/ Close(p) \/ Crash(p) \/ ReusePid(p) \/ FreePid(p)
        \/ CaptureEvidence(p)
  \/ ParentStep \/ CrashParent
  \/ OldStep \/ RemoveByOperator

Spec == Init /\ [][Next]_vars

\* A process the operating system does not kill goes on; nothing waits for a
\* lease or for the sentinel.
FairSpec == Spec /\ WF_vars(ParentStep) /\ \A p \in Daemons : WF_vars(Step(p))

-----------------------------------------------------------------------------
(* Properties.                                                             *)

Writers == {p \in Daemons : pc[p] = "serving"}

\* Exactly one writable daemon owns a data directory, even when two
\* configurations name different databases in it; and none does while the
\* lifecycle command cleans up after its child.
OneWriter ==
  \A p \in Writers : Writers = {p} /\ parent.pc \notin {"rename", "verify"}

AtPath(id) == lock # None /\ lock.id = id

InQuarantine(id) == moved # None /\ moved.id = id

\* The sentinel by which a writer is seen by the other kind.  A daemon with
\* leases that serves has its own, complete, at the path, unless the old daemon
\* replaced it after it had found an earlier one stale; no cleanup, release or
\* start of another daemon takes it away.  The old daemon that serves has its
\* own there or in the quarantine of a cleanup that is still comparing, unless
\* a cleanup died over it, the lifecycle command could not read it, or a daemon
\* that closes unlinked it in place of its own.
SentinelInPlace ==
  /\ \A p \in Writers : (AtPath(run[p]) /\ lock.form = "v4") \/ run[p] \in replaced
  /\ old = "serving" =>
       AtPath(oldRun) \/ InQuarantine(oldRun) \/ oldRun \in stranded

\* Old and new writers overlap only behind such a loss.
ApartUntilLoss ==
  \A p \in Writers : old = "serving" => run[p] \in replaced \/ oldRun \in stranded

\* A sentinel that a start takes by mistake goes back: what leaves the
\* quarantine for good is a dead process's, unless another sentinel came
\* meanwhile or the process that took it died.  The lifecycle command keeps a
\* running process's sentinel only when it is the old daemon's, which it
\* cannot read.
MistakesReturn ==
  [][moved # None /\ moved' = None =>
       \/ ~Owned(moved)
       \/ lock' # None
       \/ \E p \in Daemons : pc[p] = "verify" /\ pc'[p] = "gone"
       \/ parent.pc = "verify" /\ (parent'.pc = "idle" \/ moved.pid = Old)]_vars

\* A start neither hangs nor loops: it serves or it is over.
StartsEnd == \A p \in Daemons :
  pc[p] \in Acquiring \cup Leaving ~> pc[p] \in {"serving", "gone"}
=============================================================================
