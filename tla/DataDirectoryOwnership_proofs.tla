-------------------- MODULE DataDirectoryOwnership_proofs --------------------
(***************************************************************************)
(* For any number of daemons, databases, starts, crashes, reused process    *)
(* identifiers and timed-out children: one writer at a time, its sentinel   *)
(* in place unless the old daemon replaced it, and no running process's     *)
(* sentinel lost to a start that sees it took the wrong file.               *)
(*                                                                          *)
(* The leases alone give OneWriter.  The others rest on what a sentinel     *)
(* says of its maker.  Starts are numbered, so a sentinel with the number   *)
(* of a process that runs also has its process identifier, and one whose    *)
(* maker is gone stays so whoever reuses the identifier: NumbersInv and     *)
(* FilesInv.  A daemon has its sentinel at the path, or in a quarantine,    *)
(* only while it holds the lease (OwnersInv), so whoever else has the lease *)
(* cannot take it; NewInPlace and OldInPlace then follow the path itself.   *)
(***************************************************************************)
EXTENDS DataDirectoryOwnership, TLAPS

Holding == {"create", "write", "examine", "rename", "verify", "serving",
            "checkLock", "unlink", "freeDir"}

(* Whoever touches the sentinel has the lease of the data directory.        *)
LeaseInv ==
  /\ \A p \in Daemons : pc[p] \in Holding => dirLease = p
  /\ parent.pc \in {"leased", "rename", "verify", "free"} => dirLease = Parent

(* A cleanup that compares files has both of them, and only such a cleanup  *)
(* has one in quarantine.                                                   *)
QuarantineInv ==
  /\ \A p \in Daemons : pc[p] = "verify" => moved # None
  /\ parent.pc = "verify" => moved # None
  /\ moved # None => parent.pc = "verify" \/ \E p \in Daemons : pc[p] = "verify"
  /\ \A p \in Daemons : pc[p] \in {"rename", "verify"} => held[p] # None
  /\ parent.pc # "idle" => parent.child \in Daemons

(* No two processes that run have the same number.                          *)
NumbersInv ==
  /\ \A p \in Daemons : Running(p) => run[p] <= starts
  /\ \A p, q \in Daemons : Running(p) /\ Running(q) /\ run[p] = run[q] => p = q
  /\ oldRun <= starts
  /\ \A p \in Daemons : Running(p) /\ old # "gone" => run[p] # oldRun

(* While the maker of a sentinel runs, the sentinel names its identifier.   *)
Named(f) ==
  /\ f.id <= starts
  /\ \A p \in Daemons : Running(p) /\ run[p] = f.id => f.pid = p
  /\ old # "gone" /\ oldRun = f.id => f.pid = Old

(* That holds of every sentinel anybody has; and the evidence the lifecycle *)
(* command acts on is of a child that is over.                              *)
FilesInv ==
  /\ lock # None => Named(lock)
  /\ moved # None => Named(moved)
  /\ \A p \in Daemons : held[p] # None => Named(held[p])
  /\ parent.evidence # None => parent.evidence.id <= starts /\ parent.evidence.pid = parent.child
  /\ parent.pc \in {"rename", "verify"} => parent.evidence # None /\ ~Owned(parent.evidence)

(* The two halves of SentinelInPlace.                                       *)
NewInPlace ==
  \A p \in Writers : (AtPath(run[p]) /\ lock.form = "v4") \/ run[p] \in replaced

OldInPlace ==
  old = "serving" =>
    AtPath(oldRun) \/ InQuarantine(oldRun) \/ oldRun \in stranded

(* The sentinel of a daemon that runs is where someone could take it only   *)
(* while the daemon has the lease of the directory.                         *)
HasOwner(f, p) == f # None /\ Running(p) /\ run[p] = f.id

OwnersInv ==
  \A p \in Daemons :
    HasOwner(lock, p) \/ HasOwner(moved, p)
      => pc[p] \in {"write", "serving", "checkLock", "unlink"}

OwnershipInv == TypeOK /\ LeaseInv /\ QuarantineInv /\ NumbersInv /\ FilesInv /\ OwnersInv
                       /\ NewInPlace /\ OldInPlace

-----------------------------------------------------------------------------
(* Sentinels *)

(* What the actions make of sentinels are sentinels.                        *)
LEMMA Sentinels ==
  /\ \A p \in Daemons \cup {Old}, n \in Nat, form \in {"empty", "old"} :
       [pid |-> p, id |-> n, form |-> form, links |-> 1] \in Sentinel
  /\ \A s \in Sentinel : [s EXCEPT !.form = "v4"] \in Sentinel /\ [s EXCEPT !.links = 2] \in Sentinel
  /\ None \notin Sentinel
BY NoneAssumption DEF Sentinel

(* A process that runs after a step ran before it, or is the one just       *)
(* started, whose number is new.                                            *)
RunsKept ==
  /\ starts' \in Nat /\ starts <= starts'
  /\ \A p \in Daemons : Running(p)' => (Running(p) /\ run'[p] = run[p]) \/ run'[p] = starts + 1
  /\ old' # "gone" => (old # "gone" /\ oldRun' = oldRun) \/ oldRun' = starts + 1

(* What is known of a sentinel stays true.                                  *)
LEMMA SentinelKept ==
  ASSUME TypeOK, RunsKept, NEW f \in Sentinel, f.id <= starts
  PROVE  /\ f.id <= starts'
         /\ Named(f) => Named(f)'
         /\ ~Owned(f) => ~Owned(f)'
<1>1. f.id \in Nat /\ starts \in Nat /\ starts' \in Nat /\ starts <= starts'
  BY DEF TypeOK, Sentinel, RunsKept
<1>2. f.id <= starts'
  BY <1>1 DEF RunsKept, TypeOK
<1>3. \A p \in Daemons : Running(p)' /\ run'[p] = f.id => Running(p) /\ run[p] = f.id
  BY <1>1 DEF RunsKept
<1>4. old' # "gone" /\ oldRun' = f.id => old # "gone" /\ oldRun = f.id
  BY <1>1 DEF RunsKept
<1> QED
  BY <1>2, <1>3, <1>4 DEF Named, Owned

(* The form and the links of a sentinel do not matter to whom it names.     *)
LEMMA SentinelCopy ==
  ASSUME NEW f \in Sentinel, NEW form \in {"empty", "v4", "old"}, NEW links \in {1, 2}
  PROVE  /\ Named(f) => Named([f EXCEPT !.form = form])
         /\ Named(f) => Named([f EXCEPT !.links = links])
<1>1. [f EXCEPT !.form = form].id = f.id /\ [f EXCEPT !.form = form].pid = f.pid
  BY DEF Sentinel
<1>2. [f EXCEPT !.links = links].id = f.id /\ [f EXCEPT !.links = links].pid = f.pid
  BY DEF Sentinel
<1> QED
  BY <1>1, <1>2 DEF Named

(* What was lost stays recorded, and a running process's sentinel is.       *)
LEMMA Losses ==
  ASSUME NEW lost, NEW f
  PROVE  /\ lost \subseteq WithLoss(lost, f)
         /\ f # None /\ Owned(f) => f.id \in WithLoss(lost, f)
BY DEF WithLoss

-----------------------------------------------------------------------------
(* Each part of the invariant is kept by each step *)

(* Types, given that what a cleanup compares is there.                      *)
LEMMA TypeStep == TypeOK /\ QuarantineInv /\ [Next]_vars => TypeOK'
<1> SUFFICES ASSUME TypeOK, QuarantineInv, [Next]_vars PROVE TypeOK'
  OBVIOUS
<1>lost. \A lost \in SUBSET Nat, f \in Sentinel \cup {None} : WithLoss(lost, f) \in SUBSET Nat
  BY DEF WithLoss, Sentinel
<1> USE <1>lost, OwnershipAssumption, Sentinels DEF Pcs, Acquiring, Leaving, TypeOK, QuarantineInv, process, leases, external, counters, history, Goto
<1>1. ASSUME NEW p \in Daemons, Start(p) PROVE TypeOK'
  BY <1>1 DEF Start
<1>2. ASSUME NEW p \in Daemons, AcquireWriterLease(p) PROVE TypeOK'
  <2>1. writerLease' \in [Databases -> Daemons \cup {Parent, None}]
    BY <1>2 DEF AcquireWriterLease
  <2>2. Forget(p) =>
          /\ db' \in [Daemons -> Databases \cup {None}] /\ exact' \in [Daemons -> BOOLEAN]
          /\ run' \in [Daemons -> Nat] /\ held' \in [Daemons -> Sentinel \cup {None}]
          /\ attempts' \in [Daemons -> Nat]
    BY DEF Forget
  <2>3. Forget(p) \/ UNCHANGED <<db, exact, run, held, attempts>>
    BY <1>2 DEF AcquireWriterLease
  <2>4. pc' \in [Daemons -> Pcs]
    BY <1>2 DEF AcquireWriterLease
  <2>5. /\ db' \in [Daemons -> Databases \cup {None}] /\ exact' \in [Daemons -> BOOLEAN]
        /\ run' \in [Daemons -> Nat] /\ held' \in [Daemons -> Sentinel \cup {None}]
        /\ attempts' \in [Daemons -> Nat]
    BY <2>2, <2>3
  <2> QED
    BY <1>2, <2>1, <2>4, <2>5 DEF AcquireWriterLease
<1>3. ASSUME NEW p \in Daemons, AcquireDirLease(p) PROVE TypeOK'
  BY <1>3 DEF AcquireDirLease
<1>4. ASSUME NEW p \in Daemons, CreateSentinel(p) PROVE TypeOK'
  <2>1. [pid |-> p, id |-> run[p], form |-> "empty", links |-> 1] \in Sentinel
    BY DEF Sentinel
  <2>2. lock' \in Sentinel \cup {None} /\ pc' \in [Daemons -> Pcs]
    BY <1>4, <2>1 DEF CreateSentinel
  <2> QED
    BY <1>4, <2>2 DEF CreateSentinel
<1>5. ASSUME NEW p \in Daemons, WriteSentinel(p) PROVE TypeOK'
  <2>1. lock # None => [lock EXCEPT !.form = "v4"] \in Sentinel
    OBVIOUS
  <2>2. lock' \in Sentinel \cup {None} /\ pc' \in [Daemons -> Pcs]
    BY <1>5, <2>1 DEF WriteSentinel
  <2> QED
    BY <1>5, <2>2 DEF WriteSentinel
<1>6. ASSUME NEW p \in Daemons, ExamineSentinel(p) PROVE TypeOK'
  BY <1>6 DEF ExamineSentinel, TryAgain
<1>7. ASSUME NEW p \in Daemons, QuarantineStale(p) PROVE TypeOK'
  <2>1. lock' \in Sentinel \cup {None} /\ moved' \in Sentinel \cup {None}
    BY <1>7 DEF QuarantineStale
  <2>2. /\ pc' \in [Daemons -> Pcs] /\ held' \in [Daemons -> Sentinel \cup {None}]
        /\ attempts' \in [Daemons -> Nat]
    BY <1>7 DEF QuarantineStale, TryAgain
  <2> QED
    BY <1>7, <2>1, <2>2 DEF QuarantineStale
<1>8. ASSUME NEW p \in Daemons, VerifyQuarantined(p) PROVE TypeOK'
  <2>1. moved \in Sentinel
    BY <1>8 DEF VerifyQuarantined
  <2>2. LinkedBack \in Sentinel
    BY <2>1 DEF LinkedBack
  <2>3. lock' \in Sentinel \cup {None} /\ moved' = None
    BY <1>8, <2>2 DEF VerifyQuarantined
  <2>4. /\ pc' \in [Daemons -> Pcs] /\ held' \in [Daemons -> Sentinel \cup {None}]
        /\ attempts' \in [Daemons -> Nat]
    BY <1>8 DEF VerifyQuarantined, TryAgain
  <2> QED
    BY <1>8, <2>3, <2>4 DEF VerifyQuarantined
<1>9. ASSUME NEW p \in Daemons, CheckOwnSentinel(p) PROVE TypeOK'
  BY <1>9 DEF CheckOwnSentinel
<1>10. ASSUME NEW p \in Daemons, UnlinkSentinel(p) PROVE TypeOK'
  BY <1>10 DEF UnlinkSentinel
<1>11. ASSUME NEW p \in Daemons, FreeDirLease(p) PROVE TypeOK'
  BY <1>11 DEF FreeDirLease
<1>12. ASSUME NEW p \in Daemons, FreeWriterLease(p) PROVE TypeOK'
  <2>1. writerLease' \in [Databases -> Daemons \cup {Parent, None}]
    BY <1>12 DEF FreeWriterLease
  <2>2. /\ db' \in [Daemons -> Databases \cup {None}] /\ exact' \in [Daemons -> BOOLEAN]
        /\ run' \in [Daemons -> Nat] /\ held' \in [Daemons -> Sentinel \cup {None}]
        /\ attempts' \in [Daemons -> Nat]
    BY <1>12 DEF FreeWriterLease, Forget
  <2>3. pc' \in [Daemons -> Pcs]
    BY <1>12 DEF FreeWriterLease
  <2> QED
    BY <1>12, <2>1, <2>2, <2>3 DEF FreeWriterLease
<1>13. ASSUME NEW p \in Daemons, Close(p) PROVE TypeOK'
  BY <1>13 DEF Close
<1>14. ASSUME NEW p \in Daemons, Crash(p) PROVE TypeOK'
  BY <1>14 DEF Crash, Forget, FreedBy
<1>15. ASSUME NEW p \in Daemons, ReusePid(p) PROVE TypeOK'
  BY <1>15 DEF ReusePid
<1>16. ASSUME NEW p \in Daemons, FreePid(p) PROVE TypeOK'
  BY <1>16 DEF FreePid
<1>17. ASSUME NEW p \in Daemons, CaptureEvidence(p) PROVE TypeOK'
  BY <1>17 DEF CaptureEvidence
<1>18. CASE SignalChild
  BY <1>18 DEF SignalChild, IdleParent
<1>19. CASE ExitUnproven
  BY <1>19 DEF ExitUnproven, IdleParent
<1>20. CASE LeaseCleanup
  BY <1>20 DEF LeaseCleanup, IdleParent
<1>21. CASE CheckEvidence
  BY <1>21 DEF CheckEvidence
<1>22. CASE QuarantineEvidence
  <2>1. /\ lock' \in Sentinel \cup {None} /\ moved' \in Sentinel \cup {None}
    BY <1>22 DEF QuarantineEvidence
  <2>2. parent' \in [pc: {"idle", "captured", "signalled", "leased", "rename", "verify", "free"},
                     child: Daemons \cup {None}, start: Nat,
                     db: Databases \cup {None}, evidence: Sentinel \cup {None}]
    BY <1>22 DEF QuarantineEvidence
  <2> QED
    BY <1>22, <2>1, <2>2 DEF QuarantineEvidence
<1>23. CASE VerifyEvidence
  <2>1. moved \in Sentinel
    BY <1>23 DEF VerifyEvidence
  <2>2. LinkedBack \in Sentinel
    BY <2>1 DEF LinkedBack
  <2> QED
    BY <1>23, <2>2 DEF VerifyEvidence
<1>24. CASE FreeCleanup
  BY <1>24 DEF FreeCleanup, FreedBy, IdleParent
<1>25. CASE StartOld
  BY <1>25 DEF StartOld
<1>26. CASE CreateOld
  <2>1. [pid |-> Old, id |-> oldRun, form |-> "old", links |-> 1] \in Sentinel
    BY DEF Sentinel
  <2>2. lock' \in Sentinel \cup {None} /\ old' \in {"gone", "create", "replace", "serving"}
    BY <1>26, <2>1 DEF CreateOld
  <2> QED
    BY <1>26, <2>2 DEF CreateOld
<1>27. CASE ReplaceOld
  BY <1>27 DEF ReplaceOld
<1>28. CASE StopOld
  BY <1>28 DEF StopOld
<1>29. CASE CrashOld
  BY <1>29 DEF CrashOld
<1>30. CASE CrashParent
  BY <1>30 DEF CrashParent, FreedBy, IdleParent
<1>31. CASE RemoveByOperator
  BY <1>31 DEF RemoveByOperator
<1>32. CASE UNCHANGED vars
  BY <1>32 DEF vars
<1> QED
  BY <1>1, <1>2, <1>3, <1>4, <1>5, <1>6, <1>7, <1>8, <1>9, <1>10, <1>11, <1>12, <1>13, <1>14, <1>15, <1>16, <1>17, <1>18, <1>19, <1>20, <1>21, <1>22, <1>23, <1>24, <1>25, <1>26, <1>27, <1>28, <1>29, <1>30, <1>31, <1>32
     DEF Next, Step, ParentStep, OldStep

(* The lease is taken, handed to nobody else, and freed by its holder, or   *)
(* by the operating system when the holder dies.                            *)
LEMMA LeaseStep == TypeOK /\ LeaseInv /\ [Next]_vars => LeaseInv'
<1> SUFFICES ASSUME TypeOK, LeaseInv, [Next]_vars PROVE LeaseInv'
  OBVIOUS
<1> USE OwnershipAssumption DEF TypeOK, LeaseInv, Holding, process, leases, external, counters, history, Goto
<1>1. ASSUME NEW p \in Daemons, Start(p) PROVE LeaseInv'
  BY <1>1 DEF Start
<1>2. ASSUME NEW p \in Daemons, AcquireWriterLease(p) PROVE LeaseInv'
  BY <1>2 DEF AcquireWriterLease, Forget
<1>3. ASSUME NEW p \in Daemons, AcquireDirLease(p) PROVE LeaseInv'
  BY <1>3 DEF AcquireDirLease
<1>4. ASSUME NEW p \in Daemons, CreateSentinel(p) PROVE LeaseInv'
  BY <1>4 DEF CreateSentinel
<1>5. ASSUME NEW p \in Daemons, WriteSentinel(p) PROVE LeaseInv'
  BY <1>5 DEF WriteSentinel
<1>6. ASSUME NEW p \in Daemons, ExamineSentinel(p) PROVE LeaseInv'
  BY <1>6 DEF ExamineSentinel, TryAgain
<1>7. ASSUME NEW p \in Daemons, QuarantineStale(p) PROVE LeaseInv'
  BY <1>7 DEF QuarantineStale, TryAgain
<1>8. ASSUME NEW p \in Daemons, VerifyQuarantined(p) PROVE LeaseInv'
  BY <1>8 DEF VerifyQuarantined, TryAgain, LinkedBack
<1>9. ASSUME NEW p \in Daemons, CheckOwnSentinel(p) PROVE LeaseInv'
  BY <1>9 DEF CheckOwnSentinel
<1>10. ASSUME NEW p \in Daemons, UnlinkSentinel(p) PROVE LeaseInv'
  BY <1>10 DEF UnlinkSentinel
<1>11. ASSUME NEW p \in Daemons, FreeDirLease(p) PROVE LeaseInv'
  BY <1>11 DEF FreeDirLease
<1>12. ASSUME NEW p \in Daemons, FreeWriterLease(p) PROVE LeaseInv'
  BY <1>12 DEF FreeWriterLease, Forget
<1>13. ASSUME NEW p \in Daemons, Close(p) PROVE LeaseInv'
  BY <1>13 DEF Close
<1>14. ASSUME NEW p \in Daemons, Crash(p) PROVE LeaseInv'
  BY <1>14 DEF Crash, Forget, FreedBy
<1>15. ASSUME NEW p \in Daemons, ReusePid(p) PROVE LeaseInv'
  BY <1>15 DEF ReusePid
<1>16. ASSUME NEW p \in Daemons, FreePid(p) PROVE LeaseInv'
  BY <1>16 DEF FreePid
<1>17. ASSUME NEW p \in Daemons, CaptureEvidence(p) PROVE LeaseInv'
  BY <1>17 DEF CaptureEvidence
<1>18. CASE SignalChild
  BY <1>18 DEF SignalChild, IdleParent
<1>19. CASE ExitUnproven
  BY <1>19 DEF ExitUnproven, IdleParent
<1>20. CASE LeaseCleanup
  BY <1>20 DEF LeaseCleanup, IdleParent
<1>21. CASE CheckEvidence
  BY <1>21 DEF CheckEvidence
<1>22. CASE QuarantineEvidence
  BY <1>22 DEF QuarantineEvidence
<1>23. CASE VerifyEvidence
  BY <1>23 DEF VerifyEvidence, LinkedBack
<1>24. CASE FreeCleanup
  BY <1>24 DEF FreeCleanup, FreedBy, IdleParent
<1>25. CASE StartOld
  BY <1>25 DEF StartOld
<1>26. CASE CreateOld
  BY <1>26 DEF CreateOld
<1>27. CASE ReplaceOld
  BY <1>27 DEF ReplaceOld
<1>28. CASE StopOld
  BY <1>28 DEF StopOld
<1>29. CASE CrashOld
  BY <1>29 DEF CrashOld
<1>30. CASE CrashParent
  BY <1>30 DEF CrashParent, FreedBy, IdleParent
<1>31. CASE RemoveByOperator
  BY <1>31 DEF RemoveByOperator
<1>32. CASE UNCHANGED vars
  BY <1>32 DEF vars
<1> QED
  BY <1>1, <1>2, <1>3, <1>4, <1>5, <1>6, <1>7, <1>8, <1>9, <1>10, <1>11, <1>12, <1>13, <1>14, <1>15, <1>16, <1>17, <1>18, <1>19, <1>20, <1>21, <1>22, <1>23, <1>24, <1>25, <1>26, <1>27, <1>28, <1>29, <1>30, <1>31, <1>32
     DEF Next, Step, ParentStep, OldStep

(* Only one process can be comparing, for only one has the lease.           *)
LEMMA QuarantineStep == TypeOK /\ LeaseInv /\ QuarantineInv /\ [Next]_vars => QuarantineInv'
<1> SUFFICES ASSUME TypeOK, LeaseInv, QuarantineInv, [Next]_vars PROVE QuarantineInv'
  OBVIOUS
<1> USE OwnershipAssumption DEF TypeOK, LeaseInv, Holding, QuarantineInv, process, leases, external, counters, history, Goto
<1>1. ASSUME NEW p \in Daemons, Start(p) PROVE QuarantineInv'
  BY <1>1 DEF Start
<1>2. ASSUME NEW p \in Daemons, AcquireWriterLease(p) PROVE QuarantineInv'
  BY <1>2 DEF AcquireWriterLease, Forget
<1>3. ASSUME NEW p \in Daemons, AcquireDirLease(p) PROVE QuarantineInv'
  BY <1>3 DEF AcquireDirLease
<1>4. ASSUME NEW p \in Daemons, CreateSentinel(p) PROVE QuarantineInv'
  BY <1>4 DEF CreateSentinel
<1>5. ASSUME NEW p \in Daemons, WriteSentinel(p) PROVE QuarantineInv'
  BY <1>5 DEF WriteSentinel
<1>6. ASSUME NEW p \in Daemons, ExamineSentinel(p) PROVE QuarantineInv'
  BY <1>6 DEF ExamineSentinel, TryAgain
<1>7. ASSUME NEW p \in Daemons, QuarantineStale(p) PROVE QuarantineInv'
  BY <1>7 DEF QuarantineStale, TryAgain
<1>8. ASSUME NEW p \in Daemons, VerifyQuarantined(p) PROVE QuarantineInv'
  BY <1>8 DEF VerifyQuarantined, TryAgain, LinkedBack
<1>9. ASSUME NEW p \in Daemons, CheckOwnSentinel(p) PROVE QuarantineInv'
  BY <1>9 DEF CheckOwnSentinel
<1>10. ASSUME NEW p \in Daemons, UnlinkSentinel(p) PROVE QuarantineInv'
  BY <1>10 DEF UnlinkSentinel
<1>11. ASSUME NEW p \in Daemons, FreeDirLease(p) PROVE QuarantineInv'
  BY <1>11 DEF FreeDirLease
<1>12. ASSUME NEW p \in Daemons, FreeWriterLease(p) PROVE QuarantineInv'
  BY <1>12 DEF FreeWriterLease, Forget
<1>13. ASSUME NEW p \in Daemons, Close(p) PROVE QuarantineInv'
  BY <1>13 DEF Close
<1>14. ASSUME NEW p \in Daemons, Crash(p) PROVE QuarantineInv'
  BY <1>14 DEF Crash, Forget, FreedBy
<1>15. ASSUME NEW p \in Daemons, ReusePid(p) PROVE QuarantineInv'
  BY <1>15 DEF ReusePid
<1>16. ASSUME NEW p \in Daemons, FreePid(p) PROVE QuarantineInv'
  BY <1>16 DEF FreePid
<1>17. ASSUME NEW p \in Daemons, CaptureEvidence(p) PROVE QuarantineInv'
  BY <1>17 DEF CaptureEvidence
<1>18. CASE SignalChild
  BY <1>18 DEF SignalChild, IdleParent
<1>19. CASE ExitUnproven
  BY <1>19 DEF ExitUnproven, IdleParent
<1>20. CASE LeaseCleanup
  BY <1>20 DEF LeaseCleanup, IdleParent
<1>21. CASE CheckEvidence
  BY <1>21 DEF CheckEvidence
<1>22. CASE QuarantineEvidence
  BY <1>22 DEF QuarantineEvidence
<1>23. CASE VerifyEvidence
  BY <1>23 DEF VerifyEvidence, LinkedBack
<1>24. CASE FreeCleanup
  BY <1>24 DEF FreeCleanup, FreedBy, IdleParent
<1>25. CASE StartOld
  BY <1>25 DEF StartOld
<1>26. CASE CreateOld
  BY <1>26 DEF CreateOld
<1>27. CASE ReplaceOld
  BY <1>27 DEF ReplaceOld
<1>28. CASE StopOld
  BY <1>28 DEF StopOld
<1>29. CASE CrashOld
  BY <1>29 DEF CrashOld
<1>30. CASE CrashParent
  BY <1>30 DEF CrashParent, FreedBy, IdleParent
<1>31. CASE RemoveByOperator
  BY <1>31 DEF RemoveByOperator
<1>32. CASE UNCHANGED vars
  BY <1>32 DEF vars
<1> QED
  BY <1>1, <1>2, <1>3, <1>4, <1>5, <1>6, <1>7, <1>8, <1>9, <1>10, <1>11, <1>12, <1>13, <1>14, <1>15, <1>16, <1>17, <1>18, <1>19, <1>20, <1>21, <1>22, <1>23, <1>24, <1>25, <1>26, <1>27, <1>28, <1>29, <1>30, <1>31, <1>32
     DEF Next, Step, ParentStep, OldStep

(* Numbers are given once.                                                  *)
LEMMA NumbersStep == TypeOK /\ NumbersInv /\ [Next]_vars => NumbersInv'
<1> SUFFICES ASSUME TypeOK, NumbersInv, [Next]_vars PROVE NumbersInv'
  OBVIOUS
<1> USE OwnershipAssumption DEF TypeOK, NumbersInv, Running, Acquiring, Leaving, process, leases, external, counters, history, Goto
<1>1. ASSUME NEW p \in Daemons, Start(p) PROVE NumbersInv'
  BY <1>1 DEF Start
<1>2. ASSUME NEW p \in Daemons, AcquireWriterLease(p) PROVE NumbersInv'
  BY <1>2 DEF AcquireWriterLease, Forget
<1>3. ASSUME NEW p \in Daemons, AcquireDirLease(p) PROVE NumbersInv'
  BY <1>3 DEF AcquireDirLease
<1>4. ASSUME NEW p \in Daemons, CreateSentinel(p) PROVE NumbersInv'
  BY <1>4 DEF CreateSentinel
<1>5. ASSUME NEW p \in Daemons, WriteSentinel(p) PROVE NumbersInv'
  BY <1>5 DEF WriteSentinel
<1>6. ASSUME NEW p \in Daemons, ExamineSentinel(p) PROVE NumbersInv'
  BY <1>6 DEF ExamineSentinel, TryAgain
<1>7. ASSUME NEW p \in Daemons, QuarantineStale(p) PROVE NumbersInv'
  BY <1>7 DEF QuarantineStale, TryAgain
<1>8. ASSUME NEW p \in Daemons, VerifyQuarantined(p) PROVE NumbersInv'
  BY <1>8 DEF VerifyQuarantined, TryAgain, LinkedBack
<1>9. ASSUME NEW p \in Daemons, CheckOwnSentinel(p) PROVE NumbersInv'
  BY <1>9 DEF CheckOwnSentinel
<1>10. ASSUME NEW p \in Daemons, UnlinkSentinel(p) PROVE NumbersInv'
  BY <1>10 DEF UnlinkSentinel
<1>11. ASSUME NEW p \in Daemons, FreeDirLease(p) PROVE NumbersInv'
  BY <1>11 DEF FreeDirLease
<1>12. ASSUME NEW p \in Daemons, FreeWriterLease(p) PROVE NumbersInv'
  BY <1>12 DEF FreeWriterLease, Forget
<1>13. ASSUME NEW p \in Daemons, Close(p) PROVE NumbersInv'
  BY <1>13 DEF Close
<1>14. ASSUME NEW p \in Daemons, Crash(p) PROVE NumbersInv'
  BY <1>14 DEF Crash, Forget, FreedBy
<1>15. ASSUME NEW p \in Daemons, ReusePid(p) PROVE NumbersInv'
  BY <1>15 DEF ReusePid
<1>16. ASSUME NEW p \in Daemons, FreePid(p) PROVE NumbersInv'
  BY <1>16 DEF FreePid
<1>17. ASSUME NEW p \in Daemons, CaptureEvidence(p) PROVE NumbersInv'
  BY <1>17 DEF CaptureEvidence
<1>18. CASE SignalChild
  BY <1>18 DEF SignalChild, IdleParent
<1>19. CASE ExitUnproven
  BY <1>19 DEF ExitUnproven, IdleParent
<1>20. CASE LeaseCleanup
  BY <1>20 DEF LeaseCleanup, IdleParent
<1>21. CASE CheckEvidence
  BY <1>21 DEF CheckEvidence
<1>22. CASE QuarantineEvidence
  BY <1>22 DEF QuarantineEvidence
<1>23. CASE VerifyEvidence
  BY <1>23 DEF VerifyEvidence, LinkedBack
<1>24. CASE FreeCleanup
  BY <1>24 DEF FreeCleanup, FreedBy, IdleParent
<1>25. CASE StartOld
  BY <1>25 DEF StartOld
<1>26. CASE CreateOld
  BY <1>26 DEF CreateOld
<1>27. CASE ReplaceOld
  BY <1>27 DEF ReplaceOld
<1>28. CASE StopOld
  BY <1>28 DEF StopOld
<1>29. CASE CrashOld
  BY <1>29 DEF CrashOld
<1>30. CASE CrashParent
  BY <1>30 DEF CrashParent, FreedBy, IdleParent
<1>31. CASE RemoveByOperator
  BY <1>31 DEF RemoveByOperator
<1>32. CASE UNCHANGED vars
  BY <1>32 DEF vars
<1> QED
  BY <1>1, <1>2, <1>3, <1>4, <1>5, <1>6, <1>7, <1>8, <1>9, <1>10, <1>11, <1>12, <1>13, <1>14, <1>15, <1>16, <1>17, <1>18, <1>19, <1>20, <1>21, <1>22, <1>23, <1>24, <1>25, <1>26, <1>27, <1>28, <1>29, <1>30, <1>31, <1>32
     DEF Next, Step, ParentStep, OldStep

(* Nothing that ran is renumbered.                                          *)
LEMMA RunsStep == TypeOK /\ [Next]_vars => RunsKept
<1> SUFFICES ASSUME TypeOK, [Next]_vars PROVE RunsKept
  OBVIOUS
<1> USE OwnershipAssumption DEF TypeOK, RunsKept, Running, Acquiring, Leaving, process, leases, external, counters, history, Goto
<1>1. ASSUME NEW p \in Daemons, Start(p) PROVE RunsKept
  BY <1>1 DEF Start
<1>2. ASSUME NEW p \in Daemons, AcquireWriterLease(p) PROVE RunsKept
  BY <1>2 DEF AcquireWriterLease, Forget
<1>3. ASSUME NEW p \in Daemons, AcquireDirLease(p) PROVE RunsKept
  BY <1>3 DEF AcquireDirLease
<1>4. ASSUME NEW p \in Daemons, CreateSentinel(p) PROVE RunsKept
  BY <1>4 DEF CreateSentinel
<1>5. ASSUME NEW p \in Daemons, WriteSentinel(p) PROVE RunsKept
  BY <1>5 DEF WriteSentinel
<1>6. ASSUME NEW p \in Daemons, ExamineSentinel(p) PROVE RunsKept
  BY <1>6 DEF ExamineSentinel, TryAgain
<1>7. ASSUME NEW p \in Daemons, QuarantineStale(p) PROVE RunsKept
  BY <1>7 DEF QuarantineStale, TryAgain
<1>8. ASSUME NEW p \in Daemons, VerifyQuarantined(p) PROVE RunsKept
  BY <1>8 DEF VerifyQuarantined, TryAgain, LinkedBack
<1>9. ASSUME NEW p \in Daemons, CheckOwnSentinel(p) PROVE RunsKept
  BY <1>9 DEF CheckOwnSentinel
<1>10. ASSUME NEW p \in Daemons, UnlinkSentinel(p) PROVE RunsKept
  BY <1>10 DEF UnlinkSentinel
<1>11. ASSUME NEW p \in Daemons, FreeDirLease(p) PROVE RunsKept
  BY <1>11 DEF FreeDirLease
<1>12. ASSUME NEW p \in Daemons, FreeWriterLease(p) PROVE RunsKept
  BY <1>12 DEF FreeWriterLease, Forget
<1>13. ASSUME NEW p \in Daemons, Close(p) PROVE RunsKept
  BY <1>13 DEF Close
<1>14. ASSUME NEW p \in Daemons, Crash(p) PROVE RunsKept
  BY <1>14 DEF Crash, Forget, FreedBy
<1>15. ASSUME NEW p \in Daemons, ReusePid(p) PROVE RunsKept
  BY <1>15 DEF ReusePid
<1>16. ASSUME NEW p \in Daemons, FreePid(p) PROVE RunsKept
  BY <1>16 DEF FreePid
<1>17. ASSUME NEW p \in Daemons, CaptureEvidence(p) PROVE RunsKept
  BY <1>17 DEF CaptureEvidence
<1>18. CASE SignalChild
  BY <1>18 DEF SignalChild, IdleParent
<1>19. CASE ExitUnproven
  BY <1>19 DEF ExitUnproven, IdleParent
<1>20. CASE LeaseCleanup
  BY <1>20 DEF LeaseCleanup, IdleParent
<1>21. CASE CheckEvidence
  BY <1>21 DEF CheckEvidence
<1>22. CASE QuarantineEvidence
  BY <1>22 DEF QuarantineEvidence
<1>23. CASE VerifyEvidence
  BY <1>23 DEF VerifyEvidence, LinkedBack
<1>24. CASE FreeCleanup
  BY <1>24 DEF FreeCleanup, FreedBy, IdleParent
<1>25. CASE StartOld
  BY <1>25 DEF StartOld
<1>26. CASE CreateOld
  BY <1>26 DEF CreateOld
<1>27. CASE ReplaceOld
  BY <1>27 DEF ReplaceOld
<1>28. CASE StopOld
  BY <1>28 DEF StopOld
<1>29. CASE CrashOld
  BY <1>29 DEF CrashOld
<1>30. CASE CrashParent
  BY <1>30 DEF CrashParent, FreedBy, IdleParent
<1>31. CASE RemoveByOperator
  BY <1>31 DEF RemoveByOperator
<1>32. CASE UNCHANGED vars
  BY <1>32 DEF vars
<1> QED
  BY <1>1, <1>2, <1>3, <1>4, <1>5, <1>6, <1>7, <1>8, <1>9, <1>10, <1>11, <1>12, <1>13, <1>14, <1>15, <1>16, <1>17, <1>18, <1>19, <1>20, <1>21, <1>22, <1>23, <1>24, <1>25, <1>26, <1>27, <1>28, <1>29, <1>30, <1>31, <1>32
     DEF Next, Step, ParentStep, OldStep

(* Nobody makes, moves, restores or removes a sentinel.                     *)
LEMMA FilesKept ==
  ASSUME TypeOK, NumbersInv, FilesInv,
         \A f \in Sentinel : f.id <= starts => (Named(f) => Named(f)') /\ (~Owned(f) => ~Owned(f)'),
         UNCHANGED <<lock, moved, parent, starts>>,
         \A q \in Daemons : held'[q] # None => held'[q] = held[q]
  PROVE  FilesInv'
<1>1. /\ lock # None => Named(lock)
      /\ moved # None => Named(moved)
      /\ \A q \in Daemons : held[q] # None => Named(held[q])
      /\ lock \in Sentinel \cup {None} /\ moved \in Sentinel \cup {None}
      /\ \A q \in Daemons : held[q] \in Sentinel \cup {None}
  BY DEF TypeOK, FilesInv
<1>2. /\ parent.evidence \in Sentinel \cup {None}
      /\ parent.evidence # None => parent.evidence.id <= starts /\ parent.evidence.pid = parent.child
      /\ parent.pc \in {"rename", "verify"} => parent.evidence # None /\ ~Owned(parent.evidence)
  BY DEF TypeOK, FilesInv
<1>3. \A f \in Sentinel : Named(f) => Named(f)'
  BY DEF Named
<1>4. lock # None => Named(lock)'
  BY <1>1, <1>3 DEF Named
<1>5. moved # None => Named(moved)'
  BY <1>1, <1>3 DEF Named
<1>6. ASSUME NEW q \in Daemons, held'[q] # None PROVE Named(held[q])'
  BY <1>1, <1>3, <1>6 DEF Named
<1>7. parent.pc \in {"rename", "verify"} => ~Owned(parent.evidence)'
  BY <1>2 DEF Owned
<1> QED
  BY <1>2, <1>4, <1>5, <1>6, <1>7 DEF FilesInv

(* Whoever makes, moves, restores or removes a sentinel.                    *)
LEMMA FilesStep == TypeOK /\ QuarantineInv /\ NumbersInv /\ FilesInv /\ [Next]_vars => FilesInv'
<1> SUFFICES ASSUME TypeOK, QuarantineInv, NumbersInv, FilesInv, [Next]_vars PROVE FilesInv'
  OBVIOUS
<1> USE OwnershipAssumption, Sentinels DEF TypeOK, QuarantineInv, NumbersInv, FilesInv, Named, Owned, Running, Acquiring, Leaving, process, leases, external, counters, history, Goto
<1>kept. \A f \in Sentinel : f.id <= starts =>
           /\ f.id <= starts'
           /\ Named(f) => Named(f)'
           /\ ~Owned(f) => ~Owned(f)'
  BY RunsStep, SentinelKept
<1>copy. \A f \in Sentinel : Named(f) => Named([f EXCEPT !.form = "v4"]) /\ Named([f EXCEPT !.links = 2])
  BY SentinelCopy
<1>all. TypeOK'
  BY TypeStep
<1> USE <1>kept, <1>copy, <1>all
<1>1. ASSUME NEW p \in Daemons, Start(p) PROVE FilesInv'
  BY <1>1 DEF Start
<1>2. ASSUME NEW p \in Daemons, AcquireWriterLease(p) PROVE FilesInv'
  <2>1. UNCHANGED <<lock, moved, parent, starts>>
    BY <1>2 DEF AcquireWriterLease
  <2>2. \A q \in Daemons : held'[q] # None => held'[q] = held[q]
    BY <1>2 DEF AcquireWriterLease, Forget
  <2>3. \A f \in Sentinel : f.id <= starts => (Named(f) => Named(f)') /\ (~Owned(f) => ~Owned(f)')
    BY <1>kept
  <2> QED
    BY <2>1, <2>2, <2>3, FilesKept
<1>3. ASSUME NEW p \in Daemons, AcquireDirLease(p) PROVE FilesInv'
  BY <1>3 DEF AcquireDirLease
<1>4. ASSUME NEW p \in Daemons, CreateSentinel(p) PROVE FilesInv'
  BY <1>4 DEF CreateSentinel
<1>5. ASSUME NEW p \in Daemons, WriteSentinel(p) PROVE FilesInv'
  <2>1. lock' # None => lock # None /\ lock'.id = lock.id /\ lock'.pid = lock.pid
    BY <1>5 DEF WriteSentinel, Sentinel
  <2>2. lock' # None => Named(lock)'
    BY <1>5, <2>1 DEF WriteSentinel
  <2> QED
    BY <1>5, <2>2 DEF WriteSentinel
<1>6. ASSUME NEW p \in Daemons, ExamineSentinel(p) PROVE FilesInv'
  BY <1>6 DEF ExamineSentinel, TryAgain
<1>7. ASSUME NEW p \in Daemons, QuarantineStale(p) PROVE FilesInv'
  <2>1. (moved' = moved \/ moved' = lock) /\ (lock' = lock \/ lock' = None)
    BY <1>7 DEF QuarantineStale
  <2>2. \A q \in Daemons : held'[q] # None => held'[q] = held[q]
    BY <1>7 DEF QuarantineStale, TryAgain
  <2>3. UNCHANGED <<parent, starts, run, old, oldRun>>
    BY <1>7 DEF QuarantineStale
  <2>4. \A q \in Daemons : Running(q)' => Running(q)
    BY <1>7 DEF QuarantineStale, TryAgain
  <2>5. (moved' # None => Named(moved)') /\ (lock' # None => Named(lock)')
    BY <2>1, <2>3, <2>4
  <2>6. \A q \in Daemons : held'[q] # None => Named(held[q])'
    BY <2>2, <2>3, <2>4
  <2> QED
    BY <2>3, <2>4, <2>5, <2>6
<1>8. ASSUME NEW p \in Daemons, VerifyQuarantined(p) PROVE FilesInv'
  <2>1. moved \in Sentinel /\ Named(moved)
    BY <1>8 DEF VerifyQuarantined
  <2>2. LinkedBack \in Sentinel /\ Named(LinkedBack)
    <3> HIDE DEF Named
    <3> QED
      BY <2>1 DEF LinkedBack
  <2>3. lock' # None => lock' \in Sentinel /\ Named(lock)'
    <3>1. lock' = lock \/ lock' = LinkedBack
      BY <1>8 DEF VerifyQuarantined
    <3>2. UNCHANGED <<run, old, oldRun, starts>> /\ pc' \in [Daemons -> Pcs] /\ pc'[p] \in Acquiring \cup Leaving
          /\ pc[p] = "verify" /\ \A q \in Daemons \ {p} : pc'[q] = pc[q]
      BY <1>8 DEF VerifyQuarantined, TryAgain
    <3> QED
      BY <2>2, <3>1, <3>2
  <2>4. \A q \in Daemons : held'[q] # None => held'[q] = held[q]
    BY <1>8 DEF VerifyQuarantined, TryAgain
  <2> QED
    BY <1>8, <2>3, <2>4 DEF VerifyQuarantined
<1>9. ASSUME NEW p \in Daemons, CheckOwnSentinel(p) PROVE FilesInv'
  BY <1>9 DEF CheckOwnSentinel
<1>10. ASSUME NEW p \in Daemons, UnlinkSentinel(p) PROVE FilesInv'
  BY <1>10 DEF UnlinkSentinel
<1>11. ASSUME NEW p \in Daemons, FreeDirLease(p) PROVE FilesInv'
  BY <1>11 DEF FreeDirLease
<1>12. ASSUME NEW p \in Daemons, FreeWriterLease(p) PROVE FilesInv'
  BY <1>12 DEF FreeWriterLease, Forget
<1>13. ASSUME NEW p \in Daemons, Close(p) PROVE FilesInv'
  BY <1>13 DEF Close
<1>14. ASSUME NEW p \in Daemons, Crash(p) PROVE FilesInv'
  BY <1>14 DEF Crash, Forget, FreedBy
<1>15. ASSUME NEW p \in Daemons, ReusePid(p) PROVE FilesInv'
  BY <1>15 DEF ReusePid
<1>16. ASSUME NEW p \in Daemons, FreePid(p) PROVE FilesInv'
  BY <1>16 DEF FreePid
<1>17. ASSUME NEW p \in Daemons, CaptureEvidence(p) PROVE FilesInv'
  BY <1>17 DEF CaptureEvidence
<1>18. CASE SignalChild
  BY <1>18 DEF SignalChild, IdleParent
<1>19. CASE ExitUnproven
  BY <1>19 DEF ExitUnproven, IdleParent
<1>20. CASE LeaseCleanup
  BY <1>20 DEF LeaseCleanup, IdleParent
<1>21. CASE CheckEvidence
  <2>1. parent'.pc = "rename" => parent.evidence # None /\ ~Owned(parent.evidence)
    <3>1. parent'.pc = "rename" => ~PidAlive(parent.child) /\ lock # None /\ lock = parent.evidence
      BY <1>21 DEF CheckEvidence
    <3> QED
      BY <1>21, <3>1 DEF PidAlive, CheckEvidence
  <2>2. parent'.pc \in {"rename", "free"} /\ parent'.evidence = parent.evidence /\ parent'.child = parent.child
    BY <1>21 DEF CheckEvidence
  <2> QED
    BY <1>21, <2>1, <2>2 DEF CheckEvidence
<1>22. CASE QuarantineEvidence
  BY <1>22 DEF QuarantineEvidence
<1>23. CASE VerifyEvidence
  <2>1. moved \in Sentinel /\ Named(moved)
    BY <1>23 DEF VerifyEvidence
  <2>2. LinkedBack \in Sentinel /\ Named(LinkedBack)
    <3> HIDE DEF Named
    <3> QED
      BY <2>1 DEF LinkedBack
  <2>3. lock' # None => lock' \in Sentinel /\ Named(lock)'
    <3>1. lock' = lock \/ lock' = LinkedBack
      BY <1>23 DEF VerifyEvidence
    <3>2. UNCHANGED <<pc, run, old, oldRun, starts>>
      BY <1>23 DEF VerifyEvidence
    <3> QED
      BY <2>2, <3>1, <3>2
  <2>4. moved' = None /\ held' = held /\ parent'.pc = "free"
        /\ parent'.evidence = parent.evidence /\ parent'.child = parent.child
    BY <1>23 DEF VerifyEvidence
  <2> QED
    BY <2>3, <2>4
<1>24. CASE FreeCleanup
  BY <1>24 DEF FreeCleanup, FreedBy, IdleParent
<1>25. CASE StartOld
  BY <1>25 DEF StartOld
<1>26. CASE CreateOld
  BY <1>26 DEF CreateOld
<1>27. CASE ReplaceOld
  BY <1>27 DEF ReplaceOld
<1>28. CASE StopOld
  BY <1>28 DEF StopOld
<1>29. CASE CrashOld
  BY <1>29 DEF CrashOld
<1>30. CASE CrashParent
  BY <1>30 DEF CrashParent, FreedBy, IdleParent
<1>31. CASE RemoveByOperator
  BY <1>31 DEF RemoveByOperator
<1>32. CASE UNCHANGED vars
  BY <1>32 DEF vars
<1> QED
  BY <1>1, <1>2, <1>3, <1>4, <1>5, <1>6, <1>7, <1>8, <1>9, <1>10, <1>11, <1>12, <1>13, <1>14, <1>15, <1>16, <1>17, <1>18, <1>19, <1>20, <1>21, <1>22, <1>23, <1>24, <1>25, <1>26, <1>27, <1>28, <1>29, <1>30, <1>31, <1>32
     DEF Next, Step, ParentStep, OldStep

(* A sentinel comes with its daemon and is off the path before the daemon   *)
(* frees the lease.                                                         *)
LEMMA OwnersStep == TypeOK /\ LeaseInv /\ QuarantineInv /\ NumbersInv /\ FilesInv /\ OwnersInv /\ [Next]_vars => OwnersInv'
<1> SUFFICES ASSUME TypeOK, LeaseInv, QuarantineInv, NumbersInv, FilesInv, OwnersInv, [Next]_vars PROVE OwnersInv'
  OBVIOUS
<1> USE OwnershipAssumption, Sentinels DEF TypeOK, LeaseInv, Holding, QuarantineInv, OwnersInv, HasOwner, Running, Acquiring, Leaving, process, leases, external, counters, history, Goto
<1>1. ASSUME NEW p \in Daemons, Start(p) PROVE OwnersInv'
  <2>1. /\ lock # None => lock.id \in Nat /\ lock.id <= starts
        /\ moved # None => moved.id \in Nat /\ moved.id <= starts
    BY DEF FilesInv, Named, Sentinel
  <2>2. UNCHANGED <<lock, moved>> /\ run'[p] = starts + 1 /\ pc[p] = "gone"
        /\ \A q \in Daemons \ {p} : pc'[q] = pc[q] /\ run'[q] = run[q]
    BY <1>1 DEF Start
  <2> QED
    BY <2>1, <2>2
<1>2. ASSUME NEW p \in Daemons, AcquireWriterLease(p) PROVE OwnersInv'
  BY <1>2 DEF AcquireWriterLease, Forget
<1>3. ASSUME NEW p \in Daemons, AcquireDirLease(p) PROVE OwnersInv'
  BY <1>3 DEF AcquireDirLease
<1>4. ASSUME NEW p \in Daemons, CreateSentinel(p) PROVE OwnersInv'
  <2>1. \A q \in Daemons \ {p} : Running(q) => run[q] # run[p]
    BY <1>4 DEF CreateSentinel, NumbersInv
  <2>2. UNCHANGED <<moved, run>> /\ pc[p] = "create" /\ pc'[p] \in {"write", "examine"}
        /\ (\A q \in Daemons \ {p} : pc'[q] = pc[q])
    BY <1>4 DEF CreateSentinel
  <2>3. (lock' = lock /\ pc'[p] = "examine") \/ (lock'.id = run[p] /\ pc'[p] = "write")
    BY <1>4 DEF CreateSentinel
  <2> QED
    BY <2>1, <2>2, <2>3
<1>5. ASSUME NEW p \in Daemons, WriteSentinel(p) PROVE OwnersInv'
  <2>1. lock # None => [lock EXCEPT !.form = "v4"].id = lock.id
    BY DEF Sentinel
  <2>2. lock' # None => lock # None /\ lock'.id = lock.id
    BY <1>5, <2>1 DEF WriteSentinel
  <2>3. UNCHANGED <<moved, run>> /\ pc[p] = "write" /\ pc'[p] \in {"serving", "freeDir"}
        /\ (pc'[p] = "freeDir" => lock = None \/ lock.id # run[p])
        /\ (\A q \in Daemons \ {p} : pc'[q] = pc[q])
    BY <1>5 DEF WriteSentinel
  <2>4. moved = None
    BY <2>3
  <2> QED
    BY <2>2, <2>3, <2>4
<1>6. ASSUME NEW p \in Daemons, ExamineSentinel(p) PROVE OwnersInv'
  BY <1>6 DEF ExamineSentinel, TryAgain
<1>7. ASSUME NEW p \in Daemons, QuarantineStale(p) PROVE OwnersInv'
  BY <1>7 DEF QuarantineStale, TryAgain
<1>8. ASSUME NEW p \in Daemons, VerifyQuarantined(p) PROVE OwnersInv'
  <2>1. moved # None => [moved EXCEPT !.links = 2].id = moved.id
    BY DEF Sentinel
  <2>2. moved # None /\ moved' = None
    BY <1>8 DEF VerifyQuarantined
  <2>3. lock' # None => (lock # None /\ lock' = lock) \/ lock'.id = moved.id
    BY <1>8, <2>1, <2>2 DEF VerifyQuarantined, LinkedBack
  <2>4. run' = run /\ pc[p] = "verify" /\ pc'[p] \in {"create", "freeDir"}
        /\ \A q \in Daemons \ {p} : pc'[q] = pc[q]
    BY <1>8 DEF VerifyQuarantined, TryAgain
  <2> QED
    BY <2>2, <2>3, <2>4
<1>9. ASSUME NEW p \in Daemons, CheckOwnSentinel(p) PROVE OwnersInv'
  BY <1>9 DEF CheckOwnSentinel
<1>10. ASSUME NEW p \in Daemons, UnlinkSentinel(p) PROVE OwnersInv'
  BY <1>10 DEF UnlinkSentinel
<1>11. ASSUME NEW p \in Daemons, FreeDirLease(p) PROVE OwnersInv'
  BY <1>11 DEF FreeDirLease
<1>12. ASSUME NEW p \in Daemons, FreeWriterLease(p) PROVE OwnersInv'
  BY <1>12 DEF FreeWriterLease, Forget
<1>13. ASSUME NEW p \in Daemons, Close(p) PROVE OwnersInv'
  BY <1>13 DEF Close
<1>14. ASSUME NEW p \in Daemons, Crash(p) PROVE OwnersInv'
  BY <1>14 DEF Crash, Forget, FreedBy
<1>15. ASSUME NEW p \in Daemons, ReusePid(p) PROVE OwnersInv'
  BY <1>15 DEF ReusePid
<1>16. ASSUME NEW p \in Daemons, FreePid(p) PROVE OwnersInv'
  BY <1>16 DEF FreePid
<1>17. ASSUME NEW p \in Daemons, CaptureEvidence(p) PROVE OwnersInv'
  BY <1>17 DEF CaptureEvidence
<1>18. CASE SignalChild
  BY <1>18 DEF SignalChild, IdleParent
<1>19. CASE ExitUnproven
  BY <1>19 DEF ExitUnproven, IdleParent
<1>20. CASE LeaseCleanup
  BY <1>20 DEF LeaseCleanup, IdleParent
<1>21. CASE CheckEvidence
  BY <1>21 DEF CheckEvidence
<1>22. CASE QuarantineEvidence
  BY <1>22 DEF QuarantineEvidence
<1>23. CASE VerifyEvidence
  <2>1. moved # None => [moved EXCEPT !.links = 2].id = moved.id
    BY DEF Sentinel
  <2>2. moved # None /\ moved' = None /\ UNCHANGED <<run, pc>>
    BY <1>23 DEF VerifyEvidence
  <2>3. lock' # None => (lock # None /\ lock' = lock) \/ lock'.id = moved.id
    BY <1>23, <2>1, <2>2 DEF VerifyEvidence, LinkedBack
  <2> QED
    BY <2>2, <2>3
<1>24. CASE FreeCleanup
  BY <1>24 DEF FreeCleanup, FreedBy, IdleParent
<1>25. CASE StartOld
  BY <1>25 DEF StartOld
<1>26. CASE CreateOld
  <2>1. UNCHANGED <<run, pc, moved>> /\ (lock' = lock \/ lock'.id = oldRun) /\ old # "gone"
    BY <1>26 DEF CreateOld
  <2>2. \A q \in Daemons : Running(q) => run[q] # oldRun
    BY <2>1 DEF NumbersInv
  <2> QED
    BY <2>1, <2>2
<1>27. CASE ReplaceOld
  BY <1>27 DEF ReplaceOld
<1>28. CASE StopOld
  BY <1>28 DEF StopOld
<1>29. CASE CrashOld
  BY <1>29 DEF CrashOld
<1>30. CASE CrashParent
  BY <1>30 DEF CrashParent, FreedBy, IdleParent
<1>31. CASE RemoveByOperator
  BY <1>31 DEF RemoveByOperator
<1>32. CASE UNCHANGED vars
  BY <1>32 DEF vars
<1> QED
  BY <1>1, <1>2, <1>3, <1>4, <1>5, <1>6, <1>7, <1>8, <1>9, <1>10, <1>11, <1>12, <1>13, <1>14, <1>15, <1>16, <1>17, <1>18, <1>19, <1>20, <1>21, <1>22, <1>23, <1>24, <1>25, <1>26, <1>27, <1>28, <1>29, <1>30, <1>31, <1>32
     DEF Next, Step, ParentStep, OldStep

(* The sentinel of a daemon with leases: whoever else takes a file off the   *)
(* path has the lease of the directory, except for the old daemon.          *)
LEMMA NewInPlaceStep == TypeOK /\ LeaseInv /\ NumbersInv /\ NewInPlace /\ [Next]_vars => NewInPlace'
<1> SUFFICES ASSUME TypeOK, LeaseInv, NumbersInv, NewInPlace, [Next]_vars PROVE NewInPlace'
  OBVIOUS
<1> USE OwnershipAssumption DEF TypeOK, LeaseInv, Holding, NumbersInv, NewInPlace, Writers, AtPath, Running, Acquiring, Leaving, process, leases, external, counters, history, Goto
<1>1. ASSUME NEW p \in Daemons, Start(p) PROVE NewInPlace'
  BY <1>1 DEF Start
<1>2. ASSUME NEW p \in Daemons, AcquireWriterLease(p) PROVE NewInPlace'
  BY <1>2 DEF AcquireWriterLease, Forget
<1>3. ASSUME NEW p \in Daemons, AcquireDirLease(p) PROVE NewInPlace'
  BY <1>3 DEF AcquireDirLease
<1>4. ASSUME NEW p \in Daemons, CreateSentinel(p) PROVE NewInPlace'
  BY <1>4 DEF CreateSentinel
<1>5. ASSUME NEW p \in Daemons, WriteSentinel(p) PROVE NewInPlace'
  <2>1. \A q \in Writers : q # p
    BY <1>5 DEF WriteSentinel
  <2>2. \A q \in Daemons : pc[q] \notin Holding \/ q = p
    BY <1>5 DEF WriteSentinel
  <2>3. lock # None /\ lock.id = run[p] => [lock EXCEPT !.form = "v4"] \in Sentinel
    BY Sentinels
  <2>4. pc'[p] = "serving" => lock' \in Sentinel /\ lock'.id = run'[p] /\ lock'.form = "v4"
    BY <1>5, <2>3 DEF WriteSentinel, Sentinel
  <2>5. \A q \in Writers' : q = p
    BY <1>5, <2>2 DEF WriteSentinel
  <2> QED
    BY <2>4, <2>5, Sentinels
<1>6. ASSUME NEW p \in Daemons, ExamineSentinel(p) PROVE NewInPlace'
  BY <1>6 DEF ExamineSentinel, TryAgain
<1>7. ASSUME NEW p \in Daemons, QuarantineStale(p) PROVE NewInPlace'
  BY <1>7 DEF QuarantineStale, TryAgain
<1>8. ASSUME NEW p \in Daemons, VerifyQuarantined(p) PROVE NewInPlace'
  BY <1>8 DEF VerifyQuarantined, TryAgain, LinkedBack
<1>9. ASSUME NEW p \in Daemons, CheckOwnSentinel(p) PROVE NewInPlace'
  BY <1>9 DEF CheckOwnSentinel
<1>10. ASSUME NEW p \in Daemons, UnlinkSentinel(p) PROVE NewInPlace'
  BY <1>10 DEF UnlinkSentinel
<1>11. ASSUME NEW p \in Daemons, FreeDirLease(p) PROVE NewInPlace'
  BY <1>11 DEF FreeDirLease
<1>12. ASSUME NEW p \in Daemons, FreeWriterLease(p) PROVE NewInPlace'
  BY <1>12 DEF FreeWriterLease, Forget
<1>13. ASSUME NEW p \in Daemons, Close(p) PROVE NewInPlace'
  BY <1>13 DEF Close
<1>14. ASSUME NEW p \in Daemons, Crash(p) PROVE NewInPlace'
  BY <1>14 DEF Crash, Forget, FreedBy
<1>15. ASSUME NEW p \in Daemons, ReusePid(p) PROVE NewInPlace'
  BY <1>15 DEF ReusePid
<1>16. ASSUME NEW p \in Daemons, FreePid(p) PROVE NewInPlace'
  BY <1>16 DEF FreePid
<1>17. ASSUME NEW p \in Daemons, CaptureEvidence(p) PROVE NewInPlace'
  BY <1>17 DEF CaptureEvidence
<1>18. CASE SignalChild
  BY <1>18 DEF SignalChild, IdleParent
<1>19. CASE ExitUnproven
  BY <1>19 DEF ExitUnproven, IdleParent
<1>20. CASE LeaseCleanup
  BY <1>20 DEF LeaseCleanup, IdleParent
<1>21. CASE CheckEvidence
  BY <1>21 DEF CheckEvidence
<1>22. CASE QuarantineEvidence
  BY <1>22 DEF QuarantineEvidence
<1>23. CASE VerifyEvidence
  BY <1>23 DEF VerifyEvidence, LinkedBack
<1>24. CASE FreeCleanup
  BY <1>24 DEF FreeCleanup, FreedBy, IdleParent
<1>25. CASE StartOld
  BY <1>25 DEF StartOld
<1>26. CASE CreateOld
  BY <1>26 DEF CreateOld
<1>27. CASE ReplaceOld
  <2>1. \A q \in Writers : lock # None /\ lock.id = run[q] => run[q] \in replaced'
    BY <1>27, Losses DEF ReplaceOld, Owned
  <2>2. replaced \subseteq replaced'
    BY <1>27, Losses DEF ReplaceOld
  <2> QED
    BY <1>27, <2>1, <2>2 DEF ReplaceOld
<1>28. CASE StopOld
  BY <1>28 DEF StopOld
<1>29. CASE CrashOld
  BY <1>29 DEF CrashOld
<1>30. CASE CrashParent
  BY <1>30 DEF CrashParent, FreedBy, IdleParent
<1>31. CASE RemoveByOperator
  BY <1>31 DEF RemoveByOperator
<1>32. CASE UNCHANGED vars
  BY <1>32 DEF vars
<1> QED
  BY <1>1, <1>2, <1>3, <1>4, <1>5, <1>6, <1>7, <1>8, <1>9, <1>10, <1>11, <1>12, <1>13, <1>14, <1>15, <1>16, <1>17, <1>18, <1>19, <1>20, <1>21, <1>22, <1>23, <1>24, <1>25, <1>26, <1>27, <1>28, <1>29, <1>30, <1>31, <1>32
     DEF Next, Step, ParentStep, OldStep

(* A sentinel that is written out or linked back is still the same one.     *)
LEMMA SameSentinel ==
  ASSUME NEW f \in Sentinel
  PROVE  /\ [f EXCEPT !.form = "v4"] # None /\ [f EXCEPT !.form = "v4"].id = f.id
         /\ [f EXCEPT !.links = 2] # None /\ [f EXCEPT !.links = 2].id = f.id
<1>1. [f EXCEPT !.form = "v4"] # None /\ [f EXCEPT !.links = 2] # None
  BY Sentinels
<1>2. [f EXCEPT !.form = "v4"].id = f.id /\ [f EXCEPT !.links = 2].id = f.id
  BY DEF Sentinel
<1> QED
  BY <1>1, <1>2

LEMMA WrittenInPlace ==
  ASSUME lock \in Sentinel \cup {None}, NEW p \in Daemons, WriteSentinel(p), lock # None
  PROVE  lock' # None /\ lock'.id = lock.id
<1>1. lock \in Sentinel
  OBVIOUS
<1>2. lock' = lock \/ lock' = [lock EXCEPT !.form = "v4"]
  BY DEF WriteSentinel
<1> QED
  BY <1>1, <1>2, SameSentinel

LEMMA BackInPlace ==
  ASSUME moved \in Sentinel, lock = None
  PROVE  LinkedBack # None /\ LinkedBack.id = moved.id
  BY SameSentinel DEF LinkedBack

(* The sentinel of the old daemon: a cleanup that took it sees that its      *)
(* process is up, and what does not go back is recorded.                    *)
LEMMA OldInPlaceStep == TypeOK /\ QuarantineInv /\ LeaseInv /\ NumbersInv /\ FilesInv /\ OldInPlace /\ [Next]_vars => OldInPlace'
<1> SUFFICES ASSUME TypeOK, QuarantineInv, LeaseInv, NumbersInv, FilesInv, OldInPlace, [Next]_vars PROVE OldInPlace'
  OBVIOUS
<1> USE OwnershipAssumption DEF TypeOK, QuarantineInv, LeaseInv, Holding, OldInPlace, AtPath, InQuarantine, Acquiring, Leaving, process, leases, external, counters, history, Goto
<1>1. ASSUME NEW p \in Daemons, Start(p) PROVE OldInPlace'
  BY <1>1 DEF Start
<1>2. ASSUME NEW p \in Daemons, AcquireWriterLease(p) PROVE OldInPlace'
  BY <1>2 DEF AcquireWriterLease, Forget
<1>3. ASSUME NEW p \in Daemons, AcquireDirLease(p) PROVE OldInPlace'
  BY <1>3 DEF AcquireDirLease
<1>4. ASSUME NEW p \in Daemons, CreateSentinel(p) PROVE OldInPlace'
  BY <1>4 DEF CreateSentinel
<1>5. ASSUME NEW p \in Daemons, WriteSentinel(p) PROVE OldInPlace'
  <2>1. lock # None => lock' # None /\ lock'.id = lock.id
    BY <1>5, WrittenInPlace
  <2> QED
    BY <1>5, <2>1 DEF WriteSentinel
<1>6. ASSUME NEW p \in Daemons, ExamineSentinel(p) PROVE OldInPlace'
  BY <1>6 DEF ExamineSentinel, TryAgain
<1>7. ASSUME NEW p \in Daemons, QuarantineStale(p) PROVE OldInPlace'
  BY <1>7 DEF QuarantineStale, TryAgain
<1>8. ASSUME NEW p \in Daemons, VerifyQuarantined(p) PROVE OldInPlace'
  <2>1. moved # None /\ held[p] # None /\ moved \in Sentinel
    BY <1>8 DEF VerifyQuarantined
  <2>2. lock = None => LinkedBack # None /\ LinkedBack.id = moved.id
    BY <2>1, BackInPlace
  <2>3. ASSUME old = "serving", moved.id = oldRun
        PROVE  Owned(moved) /\ ~(SameFile(moved, held[p]) /\ ~PidAlive(held[p].pid))
    BY <2>1, <2>3 DEF Owned, SameFile, PidAlive, FilesInv, Named
  <2>4. stranded \subseteq stranded'
    BY <1>8, Losses DEF VerifyQuarantined
  <2>5. lock # None => lock' = lock
    BY <1>8 DEF VerifyQuarantined, LinkedBack
  <2>6. ASSUME old = "serving", moved.id = oldRun, lock # None
        PROVE  oldRun \in stranded'
    BY <1>8, <2>1, <2>3, <2>6, Losses DEF VerifyQuarantined
  <2>7. ASSUME old = "serving", moved.id = oldRun, lock = None
        PROVE  lock' # None /\ lock'.id = oldRun
    BY <1>8, <2>2, <2>3, <2>7 DEF VerifyQuarantined
  <2>8. UNCHANGED <<old, oldRun>>
    BY <1>8 DEF VerifyQuarantined
  <2> QED
    BY <2>4, <2>5, <2>6, <2>7, <2>8
<1>9. ASSUME NEW p \in Daemons, CheckOwnSentinel(p) PROVE OldInPlace'
  BY <1>9 DEF CheckOwnSentinel
<1>10. ASSUME NEW p \in Daemons, UnlinkSentinel(p) PROVE OldInPlace'
  <2>1. stranded \subseteq stranded'
    BY <1>10, Losses DEF UnlinkSentinel
  <2>2. ASSUME old = "serving", lock # None, lock.id = oldRun PROVE oldRun \in stranded'
    <3>1. Owned(lock) /\ lock.id # run[p]
      BY <1>10, <2>2 DEF Owned, NumbersInv, Running, UnlinkSentinel
    <3> QED
      BY <1>10, <2>2, <3>1, Losses DEF UnlinkSentinel
  <2> QED
    BY <1>10, <2>1, <2>2 DEF UnlinkSentinel
<1>11. ASSUME NEW p \in Daemons, FreeDirLease(p) PROVE OldInPlace'
  BY <1>11 DEF FreeDirLease
<1>12. ASSUME NEW p \in Daemons, FreeWriterLease(p) PROVE OldInPlace'
  BY <1>12 DEF FreeWriterLease, Forget
<1>13. ASSUME NEW p \in Daemons, Close(p) PROVE OldInPlace'
  BY <1>13 DEF Close
<1>14. ASSUME NEW p \in Daemons, Crash(p) PROVE OldInPlace'
  <2>1. stranded \subseteq stranded'
    BY <1>14, Losses DEF Crash
  <2>2. ASSUME old = "serving", moved # None, moved.id = oldRun, pc[p] = "verify" PROVE oldRun \in stranded'
    BY <1>14, <2>2, Losses DEF Owned, Crash
  <2>3. pc[p] # "verify" => moved' = moved
    BY <1>14 DEF Crash
  <2>4. UNCHANGED <<lock, old, oldRun>>
    BY <1>14 DEF Crash
  <2> QED
    BY <2>1, <2>2, <2>3, <2>4
<1>15. ASSUME NEW p \in Daemons, ReusePid(p) PROVE OldInPlace'
  BY <1>15 DEF ReusePid
<1>16. ASSUME NEW p \in Daemons, FreePid(p) PROVE OldInPlace'
  BY <1>16 DEF FreePid
<1>17. ASSUME NEW p \in Daemons, CaptureEvidence(p) PROVE OldInPlace'
  BY <1>17 DEF CaptureEvidence
<1>18. CASE SignalChild
  BY <1>18 DEF SignalChild, IdleParent
<1>19. CASE ExitUnproven
  BY <1>19 DEF ExitUnproven, IdleParent
<1>20. CASE LeaseCleanup
  BY <1>20 DEF LeaseCleanup, IdleParent
<1>21. CASE CheckEvidence
  BY <1>21 DEF CheckEvidence
<1>22. CASE QuarantineEvidence
  BY <1>22 DEF QuarantineEvidence
<1>23. CASE VerifyEvidence
  <2>1. moved # None /\ moved \in Sentinel
    BY <1>23 DEF VerifyEvidence
  <2>2. lock = None => LinkedBack # None /\ LinkedBack.id = moved.id
    BY <2>1, BackInPlace
  <2>3. ASSUME old = "serving", moved.id = oldRun
        PROVE  Owned(moved) /\ moved # parent.evidence
    BY <1>23, <2>1, <2>3 DEF Owned, FilesInv, VerifyEvidence
  <2>4. stranded \subseteq stranded'
    BY <1>23, Losses DEF VerifyEvidence
  <2>5. lock # None => lock' = lock
    BY <1>23 DEF VerifyEvidence, LinkedBack
  <2>6. ASSUME old = "serving", moved.id = oldRun, ~(Readable(moved) /\ lock = None)
        PROVE  oldRun \in stranded'
    BY <1>23, <2>1, <2>3, <2>6, Losses DEF VerifyEvidence
  <2>7. ASSUME old = "serving", moved.id = oldRun, Readable(moved), lock = None
        PROVE  lock' # None /\ lock'.id = oldRun
    BY <1>23, <2>2, <2>3, <2>7, Sentinels DEF VerifyEvidence, LinkedBack
  <2>8. UNCHANGED <<old, oldRun>>
    BY <1>23 DEF VerifyEvidence
  <2> QED
    BY <2>4, <2>5, <2>6, <2>7, <2>8
<1>24. CASE FreeCleanup
  BY <1>24 DEF FreeCleanup, FreedBy, IdleParent
<1>25. CASE StartOld
  BY <1>25 DEF StartOld
<1>26. CASE CreateOld
  <2>1. lock = None /\ old' = "serving" => lock' \in Sentinel /\ lock'.id = oldRun
    BY <1>26, Sentinels DEF CreateOld, Sentinel
  <2>2. lock # None => old' # "serving"
    BY <1>26 DEF CreateOld
  <2> QED
    BY <1>26, <2>1, <2>2, Sentinels DEF CreateOld
<1>27. CASE ReplaceOld
  BY <1>27 DEF ReplaceOld
<1>28. CASE StopOld
  BY <1>28 DEF StopOld
<1>29. CASE CrashOld
  BY <1>29 DEF CrashOld
<1>30. CASE CrashParent
  <2>1. stranded \subseteq stranded'
    BY <1>30, Losses DEF CrashParent
  <2>2. ASSUME old = "serving", moved # None, moved.id = oldRun, parent.pc = "verify" PROVE oldRun \in stranded'
    BY <1>30, <2>2, Losses DEF Owned, CrashParent
  <2>3. parent.pc # "verify" => moved' = moved
    BY <1>30 DEF CrashParent
  <2>4. UNCHANGED <<lock, old, oldRun>>
    BY <1>30 DEF CrashParent
  <2> QED
    BY <2>1, <2>2, <2>3, <2>4
<1>31. CASE RemoveByOperator
  BY <1>31 DEF RemoveByOperator
<1>32. CASE UNCHANGED vars
  BY <1>32 DEF vars
<1> QED
  BY <1>1, <1>2, <1>3, <1>4, <1>5, <1>6, <1>7, <1>8, <1>9, <1>10, <1>11, <1>12, <1>13, <1>14, <1>15, <1>16, <1>17, <1>18, <1>19, <1>20, <1>21, <1>22, <1>23, <1>24, <1>25, <1>26, <1>27, <1>28, <1>29, <1>30, <1>31, <1>32
     DEF Next, Step, ParentStep, OldStep

-----------------------------------------------------------------------------
(* Theorems *)

LEMMA InitOwnership == Init => OwnershipInv
<1> SUFFICES ASSUME Init PROVE OwnershipInv
  OBVIOUS
<1> USE OwnershipAssumption DEF Init
<1>1. TypeOK
  BY DEF TypeOK, Pcs, IdleParent
<1>2. LeaseInv /\ QuarantineInv
  BY DEF LeaseInv, QuarantineInv, Holding, IdleParent
<1>3. NumbersInv
  BY DEF NumbersInv, Running
<1>4. FilesInv /\ OwnersInv
  BY DEF FilesInv, OwnersInv, HasOwner, IdleParent
<1>5. NewInPlace /\ OldInPlace
  BY DEF NewInPlace, OldInPlace, Writers
<1> QED
  BY <1>1, <1>2, <1>3, <1>4, <1>5 DEF OwnershipInv

LEMMA OwnershipInvHolds == Spec => []OwnershipInv
<1>1. OwnershipInv /\ [Next]_vars => OwnershipInv'
  BY TypeStep, LeaseStep, QuarantineStep, NumbersStep, FilesStep, OwnersStep, NewInPlaceStep, OldInPlaceStep DEF OwnershipInv
<1> QED
  BY <1>1, InitOwnership, PTL DEF Spec

(* Processes, leases, files and the lifecycle command stay within their     *)
(* types.                                                                   *)
THEOREM OwnershipTypesHold == Spec => []TypeOK
<1>1. OwnershipInv => TypeOK
  BY DEF OwnershipInv
<1> QED
  BY <1>1, OwnershipInvHolds, PTL

(* One writable daemon owns a data directory, whatever databases and names  *)
(* of it the configurations use, and none does while the sentinel of a      *)
(* killed child is taken away (acquireLegacyDataDirectoryGuard).            *)
THEOREM OneWriterHolds == Spec => []OneWriter
<1>1. OwnershipInv => OneWriter
  BY OwnershipAssumption DEF OwnershipInv, LeaseInv, Holding, OneWriter, Writers
<1> QED
  BY <1>1, OwnershipInvHolds, PTL

(* The sentinel of a serving daemon stays at the path unless the old daemon *)
(* replaces it, and that of the old daemon stays there or under comparison  *)
(* unless it was stranded (acquireCompatibilitySentinel,                    *)
(* clearProvenStaleCompatibilitySentinel, releaseCompatibilitySentinel,     *)
(* quarantineAndPreserveExactMaintenanceSentinel).                          *)
THEOREM SentinelInPlaceHolds == Spec => []SentinelInPlace
<1>1. OwnershipInv => SentinelInPlace
  BY DEF OwnershipInv, NewInPlace, OldInPlace, SentinelInPlace
<1> QED
  BY <1>1, OwnershipInvHolds, PTL

(* An old and a new writer serve at the same time only after one of their   *)
(* sentinels was lost in one of these ways: what                            *)
(* docs/architecture/data-paths.md excludes happens through nothing else.   *)
THEOREM ApartUntilLossHolds == Spec => []ApartUntilLoss
<1>1. OwnershipInv => ApartUntilLoss
  <2> SUFFICES ASSUME OwnershipInv, NEW p \in Writers, old = "serving",
                      run[p] \notin replaced, oldRun \notin stranded
               PROVE  FALSE
    BY DEF ApartUntilLoss
  <2>1. lock # None /\ lock.id = run[p] /\ run[p] # oldRun
    BY DEF OwnershipInv, NewInPlace, NumbersInv, Writers, AtPath, Running
  <2>2. moved # None
    BY <2>1 DEF OwnershipInv, OldInPlace, AtPath, InQuarantine
  <2> QED
    BY <2>2, OwnershipAssumption DEF OwnershipInv, QuarantineInv, LeaseInv, Holding, Writers
<1> QED
  BY <1>1, OwnershipInvHolds, PTL

Returned ==
  moved # None /\ moved' = None =>
    \/ ~Owned(moved)
    \/ lock' # None
    \/ \E p \in Daemons : pc[p] = "verify" /\ pc'[p] = "gone"
    \/ parent.pc = "verify" /\ (parent'.pc = "idle" \/ moved.pid = Old)

(* What is put back is a file.                                              *)
LEMMA LinkedBackIsThere == TypeOK /\ moved # None => LinkedBack # None
<1> SUFFICES ASSUME TypeOK, moved # None PROVE LinkedBack # None
  OBVIOUS
<1>1. [moved EXCEPT !.links = 2] \in Sentinel
  BY Sentinels DEF TypeOK
<1> QED
  BY <1>1, Sentinels DEF LinkedBack

(* A quarantine that lost its file ended by a verification or a death.      *)
LEMMA ReturnedStep == OwnershipInv /\ [Next]_vars => Returned
<1> SUFFICES ASSUME OwnershipInv, [Next]_vars, moved # None, moved' = None PROVE Returned
  BY DEF Returned
<1> USE OwnershipAssumption DEF OwnershipInv
<1>1. ASSUME NEW p \in Daemons, VerifyQuarantined(p) PROVE Returned
  <2>1. CASE SameFile(moved, held[p]) /\ ~PidAlive(held[p].pid)
    <3>1. Named(held[p]) /\ moved.id = held[p].id
      BY <1>1, <2>1 DEF VerifyQuarantined, SameFile, FilesInv, QuarantineInv
    <3> QED
      BY <2>1, <3>1 DEF Named, Owned, PidAlive, Running, Returned
  <2>2. CASE ~(SameFile(moved, held[p]) /\ ~PidAlive(held[p].pid))
    BY <1>1, <2>2, LinkedBackIsThere DEF VerifyQuarantined, Returned
  <2> QED
    BY <2>1, <2>2
<1>2. CASE VerifyEvidence
  <2>1. moved # parent.evidence /\ Readable(moved) => lock' # None
    BY <1>2, LinkedBackIsThere DEF VerifyEvidence
  <2>2. moved = parent.evidence => ~Owned(moved)
    BY <1>2 DEF VerifyEvidence, FilesInv
  <2>3. \A p \in Daemons : ~HasOwner(moved, p)
    BY <1>2 DEF VerifyEvidence, OwnersInv, LeaseInv, Holding
  <2>4. Owned(moved) => moved.pid = Old
    BY <2>3 DEF Owned, HasOwner, FilesInv, Named
  <2> QED
    BY <1>2, <2>1, <2>2, <2>4 DEF VerifyEvidence, Returned
<1>3. ASSUME NEW p \in Daemons, Crash(p) PROVE Returned
  BY <1>3 DEF Crash, Goto, Returned, TypeOK
<1>4. CASE CrashParent
  BY <1>4 DEF CrashParent, IdleParent, Returned
<1>5. ASSUME NEW p \in Daemons, QuarantineStale(p) PROVE Returned
  BY <1>5 DEF QuarantineStale
<1>6. CASE QuarantineEvidence
  BY <1>6 DEF QuarantineEvidence
<1>7. ASSUME NEW p \in Daemons,
             \/ Start(p) \/ Close(p) \/ ReusePid(p) \/ FreePid(p) \/ CaptureEvidence(p)
             \/ AcquireWriterLease(p) \/ AcquireDirLease(p) \/ CreateSentinel(p) \/ WriteSentinel(p)
             \/ ExamineSentinel(p) \/ CheckOwnSentinel(p) \/ UnlinkSentinel(p)
             \/ FreeDirLease(p) \/ FreeWriterLease(p)
      PROVE  FALSE
  BY <1>7 DEF Start, Close, ReusePid, FreePid, CaptureEvidence, AcquireWriterLease, AcquireDirLease,
              CreateSentinel, WriteSentinel, ExamineSentinel, CheckOwnSentinel, UnlinkSentinel,
              FreeDirLease, FreeWriterLease
<1>8. CASE SignalChild \/ ExitUnproven \/ LeaseCleanup \/ CheckEvidence \/ FreeCleanup \/ OldStep
           \/ RemoveByOperator
  BY <1>8 DEF SignalChild, ExitUnproven, LeaseCleanup, CheckEvidence, FreeCleanup, OldStep, StartOld,
              CreateOld, ReplaceOld, StopOld, CrashOld, RemoveByOperator
<1>9. CASE UNCHANGED vars
  BY <1>9 DEF vars
<1> QED
  BY <1>1, <1>2, <1>3, <1>4, <1>5, <1>6, <1>7, <1>8, <1>9 DEF Next, Step, ParentStep

(* What leaves the quarantine for good is of a process that is over, unless *)
(* a newer sentinel is at the path or whoever took it died                  *)
(* (restoreQuarantinedReplacement).                                         *)
THEOREM MistakesReturnHolds == Spec => MistakesReturn
<1>1. OwnershipInv /\ [Next]_vars => [Returned]_vars
  BY ReturnedStep
<1> QED
  BY <1>1, OwnershipInvHolds, PTL DEF Spec, MistakesReturn, Returned
=============================================================================
