------------------------- MODULE LiveIngest_proofs -------------------------
(***************************************************************************)
(* For any number of ingest requests, destructive mutations and failing     *)
(* flushes and any batch size: mutations run one at a time in the order     *)
(* they began, nothing is accepted between the begin of a mutation and its  *)
(* end, what was deferred before a mutation is gone after it, and nothing   *)
(* else leaves the queue unwritten.                                         *)
(*                                                                          *)
(* The barrier variable remembers only the latest mutation, and each        *)
(* mutation waits only for the one it displaced.  MutationInv makes the     *)
(* chain explicit: every mutation before a running one is done.             *)
(***************************************************************************)
EXTENDS LiveIngest, Sequences, FiniteSetTheorems, TLAPS

-----------------------------------------------------------------------------
(* What a queue filtered by position holds.                                 *)

(* Every position chosen is the k-th one for exactly one k.                 *)
LEMMA KthPositions ==
  ASSUME NEW K \in SUBSET Nat, IsFiniteSet(K)
  PROVE  /\ Cardinality(K) \in Nat
         /\ \A k \in 1 .. Cardinality(K) :
              KthPosition(K, k) \in K /\ PositionsUpTo(K, KthPosition(K, k)) = k
         /\ \A i \in K : \E k \in 1 .. Cardinality(K) : KthPosition(K, k) = i
<1> DEFINE f == [i \in K |-> PositionsUpTo(K, i)]
           UpTo(i) == {j \in K : j <= i}
<1>1. Cardinality(K) \in Nat /\ \A i \in K : i \in Nat
  BY FS_CardinalityType
<1>2. ASSUME NEW i \in K
      PROVE  /\ IsFiniteSet(UpTo(i)) /\ Cardinality(UpTo(i)) \in Nat
             /\ Cardinality(UpTo(i)) <= Cardinality(K) /\ UpTo(i) # {}
  BY <1>1, FS_Subset, FS_CardinalityType
<1>3. ASSUME NEW i \in K PROVE PositionsUpTo(K, i) \in 1 .. Cardinality(K)
  BY <1>1, <1>2, FS_EmptySet DEF PositionsUpTo
<1>4. ASSUME NEW i \in K, NEW j \in K, i < j PROVE PositionsUpTo(K, i) # PositionsUpTo(K, j)
  <2>1. (\A p \in K : p <= i => p <= j) /\ j <= j /\ ~(j <= i)
    BY <1>1, <1>4
  <2>2. UpTo(i) \subseteq UpTo(j) /\ j \in UpTo(j) /\ j \notin UpTo(i)
    BY <2>1
  <2> QED
    BY <1>2, <2>2, FS_Subset DEF PositionsUpTo
<1>5. ASSUME NEW i \in K, NEW j \in K, PositionsUpTo(K, i) = PositionsUpTo(K, j) PROVE i = j
  BY <1>1, <1>4, <1>5
<1>6. f \in Surjection(K, 1 .. Cardinality(K))
  <2>1. f \in Injection(K, 1 .. Cardinality(K))
    BY <1>3, <1>5 DEF Injection, IsInjective
  <2>2. IsFiniteSet(1 .. Cardinality(K)) /\ Cardinality(1 .. Cardinality(K)) = Cardinality(K)
    BY <1>1, FS_Interval
  <2> QED
    BY <2>1, <2>2, FS_Injection
<1>7. ASSUME NEW k \in 1 .. Cardinality(K)
      PROVE  KthPosition(K, k) \in K /\ PositionsUpTo(K, KthPosition(K, k)) = k
  BY <1>6 DEF Surjection, KthPosition
<1>8. ASSUME NEW i \in K PROVE \E k \in 1 .. Cardinality(K) : KthPosition(K, k) = i
  BY <1>3, <1>5, <1>7
<1> QED
  BY <1>1, <1>7, <1>8

(* The elements of a subsequence are those at the positions chosen.         *)
LEMMA SubsequenceElements ==
  ASSUME NEW S, NEW s \in Seq(S), NEW K \in SUBSET (DOMAIN s)
  PROVE  /\ Subsequence(s, K) \in Seq(S)
         /\ Range(Subsequence(s, K)) = {s[i] : i \in K}
<1>1. K \in SUBSET Nat /\ IsFiniteSet(K)
  BY FS_Interval, FS_Subset
<1>2. /\ Cardinality(K) \in Nat
      /\ \A k \in 1 .. Cardinality(K) :
           KthPosition(K, k) \in K /\ PositionsUpTo(K, KthPosition(K, k)) = k
      /\ \A i \in K : \E k \in 1 .. Cardinality(K) : KthPosition(K, k) = i
  BY <1>1, KthPositions
<1>3. Subsequence(s, K) \in [1 .. Cardinality(K) -> S]
  BY <1>2 DEF Subsequence
<1>4. Range(Subsequence(s, K)) = {s[i] : i \in K}
  BY <1>2 DEF Subsequence, Range
<1> QED
  BY <1>2, <1>3, <1>4 DEF Subsequence

-----------------------------------------------------------------------------

Begun(m) == mutation[m] # "none"
Running(m) == mutation[m] \notin {"none", "queued", "done"}

(* The types the argument needs.                                            *)
MutationTypes ==
  /\ epoch \in Nat
  /\ number \in [Mutation -> Nat]
  /\ barrier \in {"none"} \cup Mutation
  /\ previous \in [Mutation -> {"none"} \cup Mutation]
  /\ mutation \in [Mutation ->
       {"none", "queued", "flushing", "failed", "flushed", "mutating", "done"}]

(* Epochs number the mutations in the order they began.                     *)
Numbered ==
  /\ \A m \in Mutation : number[m] <= epoch
  /\ \A m \in Mutation : Begun(m) <=> number[m] # 0
  /\ \A m, n \in Mutation : (Begun(m) /\ number[m] = number[n]) => m = n

(* The barrier is up exactly while a mutation is not done, and then belongs *)
(* to the latest one.                                                       *)
BarrierIsLatest ==
  /\ barrier = "none" => \A m \in Mutation : mutation[m] \in {"none", "done"}
  /\ \A m \in Mutation : barrier = m =>
       mutation[m] \notin {"none", "done"} /\ number[m] = epoch

(* A mutation waits for its direct predecessor, or found nobody waiting.    *)
PreviousIsPredecessor ==
  \A m \in Mutation : Begun(m) =>
    /\ previous[m] = "none" =>
         \A n \in Mutation : number[n] < number[m] => mutation[n] \in {"none", "done"}
    /\ \A n \in Mutation : previous[m] = n => number[m] = number[n] + 1 /\ Begun(n)

(* Past its wait, a mutation has all earlier ones behind it.                *)
EarlierDone ==
  \A m, n \in Mutation :
    (mutation[m] \notin {"none", "queued"} /\ number[n] < number[m])
      => mutation[n] \in {"none", "done"}

MutationInv ==
  MutationTypes /\ Numbered /\ BarrierIsLatest /\ PreviousIsPredecessor /\ EarlierDone

-----------------------------------------------------------------------------
(* Nothing has begun at first.                                              *)
LEMMA InitMutationInv == Init => MutationInv
  BY IngestAssumption
  DEF Init, MutationInv, MutationTypes, Numbered, BarrierIsLatest, PreviousIsPredecessor,
      EarlierDone, Begun

(* Steps that leave the variables of the barrier alone.                     *)
LEMMA UnchangedMutationInv ==
  ASSUME MutationInv, UNCHANGED mutationVars PROVE MutationInv'
  BY DEF mutationVars, MutationInv, MutationTypes, Numbered, BarrierIsLatest,
         PreviousIsPredecessor, EarlierDone, Begun

(* A running mutation moves on to another running state.                    *)
LEMMA MoveKeepsMutationInv ==
  ASSUME MutationInv, UNCHANGED <<epoch, barrier, previous, number>>,
         mutation' \in [Mutation ->
           {"none", "queued", "flushing", "failed", "flushed", "mutating", "done"}],
         \A m \in Mutation : mutation'[m] # mutation[m] =>
           Running(m) /\ mutation'[m] \notin {"none", "queued", "done"}
  PROVE  MutationInv'
<1>1. \A m \in Mutation : (mutation'[m] \in {"none", "done"}) <=> (mutation[m] \in {"none", "done"})
  BY DEF Running
<1>2. \A m \in Mutation : mutation'[m] = "none" <=> mutation[m] = "none"
  BY DEF Running
<1>3. \A m \in Mutation : mutation'[m] = "queued" <=> mutation[m] = "queued"
  BY DEF Running
<1> QED
  BY <1>1, <1>2, <1>3
  DEF MutationInv, MutationTypes, Numbered, BarrierIsLatest, PreviousIsPredecessor,
      EarlierDone, Begun

(* Begin displaces the latest mutation and takes the next number.           *)
LEMMA BeginKeepsMutationInv ==
  ASSUME MutationInv, NEW m \in Mutation, Begin(m) PROVE MutationInv'
<1> USE DEF Begun
<1>1. MutationTypes'
  BY DEF Begin, MutationInv, MutationTypes
<1>2. /\ mutation[m] = "none" /\ mutation' = [mutation EXCEPT ![m] = "queued"]
      /\ previous' = [previous EXCEPT ![m] = barrier]
      /\ epoch' = epoch + 1 /\ number' = [number EXCEPT ![m] = epoch + 1]
      /\ barrier' = m
  BY DEF Begin
<1>3. Numbered'
  BY <1>2 DEF MutationInv, MutationTypes, Numbered
<1>4. BarrierIsLatest'
  BY <1>2, IngestAssumption DEF MutationInv, MutationTypes, BarrierIsLatest
<1>5. PreviousIsPredecessor'
  BY <1>2, IngestAssumption
  DEF MutationInv, MutationTypes, BarrierIsLatest, PreviousIsPredecessor, Numbered
<1>6. EarlierDone'
  BY <1>2 DEF MutationInv, MutationTypes, EarlierDone, Numbered
<1> QED
  BY <1>1, <1>3, <1>4, <1>5, <1>6 DEF MutationInv

(* The wait for the displaced mutation is a wait for all earlier ones.      *)
LEMMA FlushKeepsMutationInv ==
  ASSUME MutationInv, NEW m \in Mutation, Flush(m) PROVE MutationInv'
<1> USE DEF Begun
<1>1. /\ mutation[m] = "queued" /\ mutation' = [mutation EXCEPT ![m] = "flushing"]
      /\ UNCHANGED <<epoch, barrier, previous, number>>
      /\ PreviousDone(m)
  BY DEF Flush
<1>2. MutationTypes' /\ Numbered' /\ BarrierIsLatest'
  BY <1>1 DEF MutationInv, MutationTypes, Numbered, BarrierIsLatest
<1>3. \A n \in Mutation : number[n] < number[m] => mutation[n] \in {"none", "done"}
  <2>1. CASE previous[m] = "none"
    BY <1>1, <2>1 DEF MutationInv, PreviousIsPredecessor
  <2>2. CASE previous[m] # "none"
    <3>1. PICK p \in Mutation : previous[m] = p
      BY <2>2 DEF MutationInv, MutationTypes
    <3>2. mutation[p] = "done" /\ number[m] = number[p] + 1
      BY <1>1, <3>1 DEF PreviousDone, MutationInv, PreviousIsPredecessor
    <3> SUFFICES ASSUME NEW n \in Mutation, number[n] < number[m]
                 PROVE  mutation[n] \in {"none", "done"}
      OBVIOUS
    <3>3. number[n] < number[p] \/ number[n] = number[p]
      BY <3>2 DEF MutationInv, MutationTypes
    <3> QED
      BY <3>2, <3>3 DEF MutationInv, EarlierDone, Numbered
  <2> QED
    BY <2>1, <2>2
<1>4. PreviousIsPredecessor'
  BY <1>1 DEF MutationInv, MutationTypes, PreviousIsPredecessor
<1>5. EarlierDone'
  BY <1>1, <1>3 DEF MutationInv, MutationTypes, EarlierDone
<1> QED
  BY <1>2, <1>4, <1>5 DEF MutationInv

(* The last mutation takes the barrier with it.                             *)
LEMMA ReleaseKeepsMutationInv ==
  ASSUME MutationInv, NEW m \in Mutation, Release(m) PROVE MutationInv'
<1> USE DEF Begun
<1>1. /\ mutation[m] = "mutating" /\ mutation' = [mutation EXCEPT ![m] = "done"]
      /\ barrier' = IF barrier = m THEN "none" ELSE barrier
      /\ UNCHANGED <<epoch, previous, number>>
  BY DEF Release, BarrierAfter
<1>2. MutationTypes' /\ Numbered' /\ PreviousIsPredecessor' /\ EarlierDone'
  BY <1>1
  DEF MutationInv, MutationTypes, Numbered, PreviousIsPredecessor, EarlierDone
<1>3. BarrierIsLatest'
  <2>1. CASE barrier = m
    <3>1. \A n \in Mutation : number[n] < number[m] \/ n = m
      BY <1>1, <2>1 DEF MutationInv, MutationTypes, Numbered, BarrierIsLatest
    <3>2. \A n \in Mutation : mutation'[n] \in {"none", "done"}
      BY <1>1, <3>1 DEF MutationInv, MutationTypes, EarlierDone
    <3> QED
      BY <1>1, <2>1, <3>2, IngestAssumption DEF BarrierIsLatest
  <2>2. CASE barrier # m
    BY <1>1, <2>2, IngestAssumption DEF MutationInv, MutationTypes, BarrierIsLatest
  <2> QED
    BY <2>1, <2>2
<1> QED
  BY <1>2, <1>3 DEF MutationInv

(* The steps of requests and of the queue touch no mutation, except that a  *)
(* job of flushNow resumes its own.                                         *)
LEMMA QueueKeepsMutationInv ==
  ASSUME MutationInv, QueueStep PROVE MutationInv'
<1>1. ASSUME NEW commits \in BOOLEAN, Start(commits) PROVE MutationInv'
  BY <1>1, UnchangedMutationInv DEF Start
<1>2. CASE Settle
  BY <1>2, UnchangedMutationInv DEF Settle
<1>3. ASSUME NEW outcome \in {"flushed", "failed"}, Resumed(outcome),
             UNCHANGED <<epoch, barrier, previous, number>>
      PROVE  MutationInv'
  <2>1. \A m \in Mutation : mutation'[m] # mutation[m] =>
          Running(m) /\ mutation'[m] = outcome
    BY <1>3 DEF Resumed, Running
  <2>2. mutation' \in [Mutation ->
          {"none", "queued", "flushing", "failed", "flushed", "mutating", "done"}]
    BY <1>3 DEF Resumed, MutationInv, MutationTypes
  <2> QED
    BY <1>3, <2>1, <2>2, MoveKeepsMutationInv
<1>4. CASE EndJob
  BY <1>3, <1>4 DEF EndJob
<1>5. CASE FailJob
  BY <1>3, <1>5 DEF FailJob
<1> QED
  BY <1>1, <1>2, <1>4, <1>5 DEF QueueStep

(* A mutation that discards the queue or clears the database stays running. *)
LEMMA MutationStepKeepsMutationInv ==
  ASSUME MutationInv, NEW m \in Mutation, MutationStep(m) PROVE MutationInv'
<1>1. CASE Flush(m)
  BY <1>1, FlushKeepsMutationInv
<1>2. CASE Discard(m)
  BY <1>2, MoveKeepsMutationInv DEF Discard, Running, MutationInv, MutationTypes
<1>3. CASE Mutate(m)
  BY <1>3, MoveKeepsMutationInv DEF Mutate, Running, MutationInv, MutationTypes
<1>4. CASE Release(m)
  BY <1>4, ReleaseKeepsMutationInv
<1> QED
  BY <1>1, <1>2, <1>3, <1>4 DEF MutationStep

(* Accepting, dropping or reading a request touches no mutation.            *)
LEMMA RequestKeepsMutationInv ==
  ASSUME MutationInv, NEW e \in Event, Arrive(e) \/ BodyRead(e) \/ BarrierGone(e)
  PROVE  MutationInv'
  BY UnchangedMutationInv DEF Arrive, BodyRead, BarrierGone, Accept, Stale

(* Every step of the daemon keeps the invariant of the barrier.             *)
THEOREM BarrierInvariant == Spec => []MutationInv
<1>1. MutationInv /\ [Next]_vars => MutationInv'
  <2> SUFFICES ASSUME MutationInv, [Next]_vars PROVE MutationInv'
    OBVIOUS
  <2>1. ASSUME NEW e \in Event, Arrive(e) \/ BodyRead(e) \/ BarrierGone(e)
        PROVE  MutationInv'
    BY <2>1, RequestKeepsMutationInv
  <2>2. ASSUME NEW ok \in BOOLEAN, PersistImmediate(ok) PROVE MutationInv'
    BY <2>2, UnchangedMutationInv DEF PersistImmediate
  <2>3. CASE Timer
    BY <2>3, UnchangedMutationInv DEF Timer
  <2>4. CASE QueueStep
    BY <2>4, QueueKeepsMutationInv
  <2>5. ASSUME NEW m \in Mutation, Begin(m) \/ MutationStep(m) PROVE MutationInv'
    BY <2>5, BeginKeepsMutationInv, MutationStepKeepsMutationInv
  <2>6. CASE Shutdown
    BY <2>6, UnchangedMutationInv DEF Shutdown
  <2>7. CASE UNCHANGED vars
    BY <2>7, UnchangedMutationInv DEF vars
  <2> QED
    BY <2>1, <2>2, <2>3, <2>4, <2>5, <2>6, <2>7 DEF Next
<1> QED
  BY <1>1, InitMutationInv, PTL DEF Spec

(* Destructive mutations run one at a time, in the order they began.        *)
THEOREM MutationsRunAlone == Spec => []MutationsExclude
<1>1. MutationInv => MutationsExclude
  <2> SUFFICES ASSUME MutationInv PROVE MutationsExclude
    OBVIOUS
  <2>1. ASSUME NEW m \in Mutation, NEW n \in Mutation, m # n, Running(m)
        PROVE  mutation[n] \in {"none", "queued", "done"}
    <3>1. number[m] < number[n] \/ number[n] < number[m]
      BY <2>1 DEF Running, Begun, MutationInv, MutationTypes, Numbered
    <3>2. CASE number[n] < number[m]
      BY <2>1, <3>2 DEF Running, MutationInv, EarlierDone
    <3>3. CASE number[m] < number[n]
      BY <2>1, <3>3 DEF Running, MutationInv, MutationTypes, EarlierDone
    <3> QED
      BY <3>1, <3>2, <3>3
  <2>2. ASSUME NEW m \in Mutation, NEW n \in Mutation,
               mutation[m] = "done", number[n] \in 1 .. number[m]
        PROVE  mutation[n] = "done"
    <3>1. number[n] < number[m] \/ m = n
      BY <2>2 DEF Begun, MutationInv, MutationTypes, Numbered
    <3> QED
      BY <2>2, <3>1 DEF Begun, MutationInv, MutationTypes, Numbered, EarlierDone
  <2> QED
    BY <2>1, <2>2 DEF Running, MutationsExclude
<1> QED
  BY <1>1, BarrierInvariant, PTL

RequestTypes == request \in [Event -> {"none", "reading", "waiting", "accepted", "stale"}]

(* Steps other than those of requests leave the requests alone.             *)
LEMMA OnlyRequestsChangeRequests ==
  ASSUME \/ \E ok \in BOOLEAN : PersistImmediate(ok)
         \/ Timer
         \/ QueueStep
         \/ \E m \in Mutation : Begin(m) \/ MutationStep(m)
         \/ Shutdown
  PROVE  request' = request
<1>1. ASSUME NEW ok \in BOOLEAN, PersistImmediate(ok) PROVE request' = request
  BY <1>1 DEF PersistImmediate
<1>2. ASSUME Timer \/ QueueStep PROVE request' = request
  BY <1>2 DEF Timer, QueueStep, Start, Settle, EndJob, FailJob, ingestVars
<1>3. ASSUME NEW m \in Mutation, Begin(m) \/ MutationStep(m) PROVE request' = request
  BY <1>3 DEF Begin, MutationStep, Flush, Discard, Mutate, Release, ingestVars
<1>4. ASSUME Shutdown PROVE request' = request
  BY <1>4 DEF Shutdown, ingestVars
<1> QED
  BY <1>1, <1>2, <1>3, <1>4

(* An ingest request goes through the states of its handler only.           *)
LEMMA RequestsTyped == Spec => []RequestTypes
<1>1. Init => RequestTypes
  BY DEF Init, RequestTypes
<1>2. RequestTypes /\ [Next]_vars => RequestTypes'
  <2> SUFFICES ASSUME RequestTypes, [Next]_vars PROVE RequestTypes'
    OBVIOUS
  <2>1. ASSUME NEW e \in Event, Arrive(e) \/ BodyRead(e) \/ BarrierGone(e)
        PROVE  RequestTypes'
    BY <2>1 DEF Arrive, BodyRead, BarrierGone, Accept, Stale, RequestTypes
  <2>2. CASE request' = request
    BY <2>2 DEF RequestTypes
  <2> QED
    BY <2>1, <2>2, OnlyRequestsChangeRequests DEF Next, vars, ingestVars
<1> QED
  BY <1>1, <1>2, PTL DEF Spec

(* No event is accepted while any destructive mutation waits or runs.       *)
THEOREM NothingAcceptedDuringMutations == Spec => NothingAcceptedMeanwhile
<1> DEFINE Acceptance ==
      \A e \in Event : (request[e] # "accepted" /\ request'[e] = "accepted") =>
        \A m \in Mutation : mutation[m] \in {"none", "done"}
<1>1. MutationInv /\ RequestTypes /\ [Next]_vars => [Acceptance]_vars
  <2> SUFFICES ASSUME MutationInv, RequestTypes, Next PROVE Acceptance
    OBVIOUS
  <2>1. ASSUME barrier = "none" PROVE Acceptance
    BY <2>1 DEF MutationInv, BarrierIsLatest
  <2>2. ASSUME NEW e \in Event, BodyRead(e) \/ BarrierGone(e), barrier # "none"
        PROVE  Acceptance
    BY <2>2 DEF BodyRead, BarrierGone, Stale, RequestTypes
  <2>3. ASSUME NEW e \in Event, Arrive(e) PROVE Acceptance
    BY <2>3 DEF Arrive, RequestTypes
  <2>4. ASSUME request' = request PROVE Acceptance
    BY <2>4
  <2> HIDE DEF Acceptance
  <2> QED
    BY <2>1, <2>2, <2>3, <2>4, OnlyRequestsChangeRequests DEF Next
<1> QED
  BY <1>1, BarrierInvariant, RequestsTyped, PTL DEF Spec, NothingAcceptedMeanwhile

-----------------------------------------------------------------------------
(* The argument for the deferred events needs the epochs only: a flush that *)
(* ends, or the discard, leaves an empty queue behind, and whatever is      *)
(* accepted afterwards carries the epoch of the mutation or a later one.    *)

(* A mutation that is through with the queue.                               *)
QueueDrained(m) == mutation[m] \in {"flushed", "mutating", "done"}

EventTypes ==
  /\ pending \in Seq(Event)
  /\ batch \in Seq(Event)
  /\ immediate \in Seq(Immediate)
  /\ seen \in [Event -> Nat]
  /\ stored \subseteq Event

NothingOldPending ==
  \A m \in Mutation : QueueDrained(m) =>
    \A i \in DOMAIN pending : seen[pending[i]] >= number[m]

NothingOldStored ==
  \A m \in Mutation : Cleared(m) =>
    \A e \in stored \ Immediate : seen[e] >= number[m]

DeferredInv == MutationInv /\ EventTypes /\ NothingOldPending /\ NothingOldStored

(* Nothing is pending, stored or begun at first.                            *)
LEMMA InitDeferredInv == Init => DeferredInv
  BY InitMutationInv
  DEF Init, QueueInit, DeferredInv, EventTypes, NothingOldPending, NothingOldStored,
      QueueDrained, Cleared

(* An arriving request captures the current epoch; an accepted one still    *)
(* has it.                                                                  *)
LEMMA RequestKeepsDeferredInv ==
  ASSUME DeferredInv, NEW e \in Event, Arrive(e) \/ BodyRead(e) \/ BarrierGone(e)
  PROVE  DeferredInv'
<1>1. MutationInv'
  BY RequestKeepsMutationInv DEF DeferredInv
<1>2. epoch \in Nat /\ \A m \in Mutation : number[m] <= epoch /\ number[m] \in Nat
  BY DEF DeferredInv, MutationInv, MutationTypes, Numbered
<1>3. CASE Arrive(e)
  <2>1. /\ seen' = [seen EXCEPT ![e] = epoch]
        /\ UNCHANGED <<pending, batch, immediate, stored, mutation, number>>
    BY <1>3 DEF Arrive, queueVars, mutationVars
  <2>2. EventTypes'
    BY <1>2, <2>1 DEF DeferredInv, EventTypes
  <2>3. \A m \in Mutation, f \in Event : seen[f] >= number[m] => seen'[f] >= number[m]
    BY <1>2, <2>1 DEF DeferredInv, EventTypes
  <2>4. \A i \in DOMAIN pending : pending[i] \in Event
    BY DEF DeferredInv, EventTypes
  <2>5. NothingOldPending'
    BY <2>1, <2>3, <2>4 DEF DeferredInv, NothingOldPending, QueueDrained
  <2>6. NothingOldStored'
    BY <2>1, <2>3 DEF DeferredInv, EventTypes, NothingOldStored, Cleared
  <2> QED
    BY <1>1, <2>2, <2>5, <2>6 DEF DeferredInv
<1>4. CASE Accept(e) /\ CurrentEpoch(e)
  <2>1. /\ seen[e] = epoch
        /\ UNCHANGED <<batch, stored, seen, mutation, number>>
    BY <1>4 DEF Accept, CurrentEpoch, QEnqueue, queueVars, mutationVars
  <2>2. CASE e \in Immediate
    <3>1. immediate' = Append(immediate, e) /\ pending' = pending
      BY <1>4, <2>2 DEF Accept, queueVars
    <3> QED
      BY <1>1, <2>1, <2>2, <3>1 DEF DeferredInv, EventTypes, NothingOldPending,
         NothingOldStored, QueueDrained, Cleared
  <2>3. CASE e \notin Immediate
    <3>1. pending' = Append(pending, e) /\ immediate' = immediate
      BY <1>4, <2>3 DEF Accept, QEnqueue
    <3>2. NothingOldPending'
      BY <1>2, <2>1, <3>1
      DEF DeferredInv, EventTypes, NothingOldPending, QueueDrained
    <3> QED
      BY <1>1, <2>1, <3>1, <3>2 DEF DeferredInv, EventTypes, NothingOldStored, Cleared
  <2> QED
    BY <2>2, <2>3
<1>5. CASE UNCHANGED <<pending, batch, immediate, stored, seen, mutation, number>>
  BY <1>1, <1>5 DEF DeferredInv, EventTypes, NothingOldPending, NothingOldStored,
     QueueDrained, Cleared
<1> QED
  BY <1>3, <1>4, <1>5 DEF BodyRead, BarrierGone, Stale, queueVars, mutationVars

(* The queue writes and drops what is pending, and nothing else.            *)
LEMMA QueueKeepsDeferredInv ==
  ASSUME DeferredInv, QueueStep PROVE DeferredInv'
<1>1. MutationInv'
  BY QueueKeepsMutationInv DEF DeferredInv
<1>2. ASSUME NEW commits \in BOOLEAN, Start(commits) PROVE DeferredInv'
  <2>1. /\ batch' = NextBatch
        /\ stored' \in {stored, stored \cup Range(NextBatch)}
        /\ UNCHANGED <<pending, immediate, seen, mutation, number>>
    BY <1>2 DEF Start, QStart, ingestVars, mutationVars
  <2>2. /\ NextBatch \in Seq(Event)
        /\ \A i \in DOMAIN NextBatch : i \in DOMAIN pending /\ NextBatch[i] = pending[i]
    BY QueueAssumption DEF DeferredInv, EventTypes, NextBatch
  <2>3. \A e \in Range(NextBatch) : e \in Event /\ \E i \in DOMAIN pending : e = pending[i]
    BY <2>2 DEF Range, DeferredInv, EventTypes
  <2>4. EventTypes'
    BY <2>1, <2>2, <2>3 DEF DeferredInv, EventTypes
  <2>5. NothingOldPending'
    BY <2>1 DEF DeferredInv, NothingOldPending, QueueDrained
  <2>6. NothingOldStored'
    BY <2>1, <2>3 DEF DeferredInv, NothingOldPending, NothingOldStored, QueueDrained, Cleared
  <2> QED
    BY <1>1, <2>4, <2>5, <2>6 DEF DeferredInv
<1>3. CASE Settle
  <2> DEFINE K == {i \in DOMAIN pending : pending[i] \notin Range(batch)}
  <2>1. /\ pending' = Subsequence(pending, K)
        /\ batch' = <<>>
        /\ UNCHANGED <<immediate, stored, seen, mutation, number>>
    BY <1>3 DEF Settle, QSettleOk, WithoutFlushed, ingestVars, mutationVars
  <2>2. pending' \in Seq(Event) /\ Range(pending') = {pending[i] : i \in K}
    BY <2>1, SubsequenceElements DEF DeferredInv, EventTypes
  <2>3. \A k \in DOMAIN pending' : \E i \in DOMAIN pending : pending'[k] = pending[i]
    BY <2>2 DEF Range
  <2> HIDE DEF K
  <2> QED
    BY <1>1, <2>1, <2>2, <2>3 DEF DeferredInv, EventTypes, NothingOldPending,
       NothingOldStored, QueueDrained, Cleared
<1>4. CASE EndJob
  <2>1. /\ pending = <<>>
        /\ \A m \in Mutation : Cleared(m)' => Cleared(m)
        /\ UNCHANGED <<pending, batch, immediate, stored, seen, number>>
    BY <1>4 DEF EndJob, QJobEnds, Resumed, Cleared, ingestVars
  <2> QED
    BY <1>1, <2>1 DEF DeferredInv, EventTypes, NothingOldPending, NothingOldStored
<1>5. CASE FailJob
  <2>1. /\ \A m \in Mutation : Cleared(m)' => Cleared(m)
        /\ \A m \in Mutation : QueueDrained(m)' => QueueDrained(m)
        /\ batch' = <<>>
        /\ UNCHANGED <<pending, immediate, stored, seen, number>>
    BY <1>5 DEF FailJob, QSettleFails, Resumed, Cleared, QueueDrained, ingestVars
  <2> QED
    BY <1>1, <2>1 DEF DeferredInv, EventTypes, NothingOldPending, NothingOldStored
<1> QED
  BY <1>2, <1>3, <1>4, <1>5 DEF QueueStep

(* A mutation is through with the queue only when the queue is empty, and   *)
(* clears the database after that.                                          *)
LEMMA MutationKeepsDeferredInv ==
  ASSUME DeferredInv, NEW m \in Mutation, Begin(m) \/ MutationStep(m) PROVE DeferredInv'
<1>0. MutationInv' /\ MutationTypes
  BY BeginKeepsMutationInv, MutationStepKeepsMutationInv DEF DeferredInv, MutationInv
<1>1. CASE Begin(m) \/ Flush(m)
  <2>1. /\ \A n \in Mutation : Cleared(n)' => Cleared(n) /\ number'[n] = number[n]
        /\ \A n \in Mutation : QueueDrained(n)' => QueueDrained(n) /\ number'[n] = number[n]
        /\ UNCHANGED <<pending, batch, immediate, stored, seen>>
    BY <1>0, <1>1 DEF Begin, Flush, QFlushNow, Cleared, QueueDrained, ingestVars, queueVars,
       MutationTypes
  <2> QED
    BY <1>0, <2>1 DEF DeferredInv, EventTypes, NothingOldPending, NothingOldStored
<1>2. CASE Discard(m)
  <2>1. /\ pending' = <<>>
        /\ \A n \in Mutation : Cleared(n)' => Cleared(n)
        /\ UNCHANGED <<batch, immediate, stored, seen, number>>
    BY <1>0, <1>2 DEF Discard, QDiscard, Cleared, ingestVars, MutationTypes
  <2> QED
    BY <1>0, <2>1 DEF DeferredInv, EventTypes, NothingOldPending, NothingOldStored
<1>3. CASE Mutate(m)
  <2>1. /\ stored' = {}
        /\ \A n \in Mutation : QueueDrained(n)' => QueueDrained(n)
        /\ UNCHANGED <<pending, batch, immediate, seen, number>>
    BY <1>0, <1>3 DEF Mutate, QueueDrained, ingestVars, queueVars, MutationTypes
  <2> QED
    BY <1>0, <2>1 DEF DeferredInv, EventTypes, NothingOldPending, NothingOldStored
<1>4. CASE Release(m)
  <2>1. /\ \A n \in Mutation : Cleared(n)' => Cleared(n)
        /\ \A n \in Mutation : QueueDrained(n)' => QueueDrained(n)
        /\ UNCHANGED <<pending, batch, immediate, stored, seen, number>>
    BY <1>0, <1>4 DEF Release, QueueDrained, Cleared, ingestVars, queueVars, MutationTypes
  <2> QED
    BY <1>0, <2>1 DEF DeferredInv, EventTypes, NothingOldPending, NothingOldStored
<1> QED
  BY <1>1, <1>2, <1>3, <1>4 DEF MutationStep

(* Every step of the daemon keeps old deferred events out.                  *)
THEOREM DeferredInvariant == Spec => []DeferredInv
<1>1. DeferredInv /\ [Next]_vars => DeferredInv'
  <2> SUFFICES ASSUME DeferredInv, [Next]_vars PROVE DeferredInv'
    OBVIOUS
  <2>1. ASSUME NEW e \in Event, Arrive(e) \/ BodyRead(e) \/ BarrierGone(e)
        PROVE  DeferredInv'
    BY <2>1, RequestKeepsDeferredInv
  <2>2. ASSUME NEW ok \in BOOLEAN, PersistImmediate(ok) PROVE DeferredInv'
    <3>1. MutationInv'
      BY <2>2, UnchangedMutationInv DEF PersistImmediate, DeferredInv
    <3>2. /\ immediate # <<>> /\ immediate' = Tail(immediate)
          /\ stored' \in {stored, stored \cup {Head(immediate)}}
          /\ UNCHANGED <<pending, batch, seen, mutation, number>>
      BY <2>2 DEF PersistImmediate, queueVars, mutationVars
    <3>3. Head(immediate) \in Immediate /\ Tail(immediate) \in Seq(Immediate)
      BY <3>2 DEF DeferredInv, EventTypes
    <3> QED
      BY <3>1, <3>2, <3>3, IngestAssumption DEF DeferredInv, EventTypes, NothingOldPending,
         NothingOldStored, QueueDrained, Cleared
  <2>3. CASE Timer
    <3>1. MutationInv'
      BY <2>3, UnchangedMutationInv DEF Timer, DeferredInv
    <3> QED
      BY <2>3, <3>1 DEF Timer, QTimerFires, ingestVars, mutationVars, DeferredInv, EventTypes,
         NothingOldPending, NothingOldStored, QueueDrained, Cleared
  <2>4. CASE QueueStep
    BY <2>4, QueueKeepsDeferredInv
  <2>5. ASSUME NEW m \in Mutation, Begin(m) \/ MutationStep(m) PROVE DeferredInv'
    BY <2>5, MutationKeepsDeferredInv
  <2>6. CASE Shutdown
    <3>1. MutationInv'
      BY <2>6, UnchangedMutationInv DEF Shutdown, DeferredInv
    <3> QED
      BY <2>6, <3>1 DEF Shutdown, QClose, ingestVars, mutationVars, DeferredInv, EventTypes,
         NothingOldPending, NothingOldStored, QueueDrained, Cleared
  <2>7. CASE UNCHANGED vars
    <3>1. MutationInv'
      BY <2>7, UnchangedMutationInv DEF vars, DeferredInv
    <3> QED
      BY <2>7, <3>1 DEF vars, queueVars, ingestVars, mutationVars, DeferredInv, EventTypes,
         NothingOldPending, NothingOldStored, QueueDrained, Cleared
  <2> QED
    BY <2>1, <2>2, <2>3, <2>4, <2>5, <2>6, <2>7 DEF Next
<1> QED
  BY <1>1, InitDeferredInv, PTL DEF Spec

(* No deferred event that arrived before a destructive mutation is in the   *)
(* database or the queue after it.                                          *)
THEOREM DeferredEventsStayDeleted == Spec => []DeferredStayDeleted
<1>1. DeferredInv => DeferredStayDeleted
  <2> SUFFICES ASSUME DeferredInv PROVE DeferredStayDeleted
    OBVIOUS
  <2>1. \A m \in Mutation : Cleared(m) => QueueDrained(m)
    BY DEF Cleared, QueueDrained
  <2>2. \A e \in Range(pending) : \E i \in DOMAIN pending : e = pending[i]
    BY DEF Range
  <2> QED
    BY <2>1, <2>2 DEF DeferredInv, NothingOldPending, NothingOldStored, DeferredStayDeleted
<1> QED
  BY <1>1, DeferredInvariant, PTL


-----------------------------------------------------------------------------
(* The steps of the queue: an event leaves it only written or discarded.    *)
LEMMA PendingLeaves ==
  ASSUME DeferredInv, [Next]_vars, NEW e \in Range(pending), e \notin Range(pending')
  PROVE  \/ written /\ e \in Range(batch)
         \/ \E m \in Mutation : mutation[m] = "failed" /\ mutation'[m] = "flushed"
<1>1. PICK i \in DOMAIN pending : e = pending[i]
  BY DEF Range
<1>2. pending' # pending
  OBVIOUS
<1>3. ASSUME NEW f \in Event, BodyRead(f) \/ BarrierGone(f)
      PROVE  FALSE
  <2>1. pending' = Append(pending, f)
    BY <1>2, <1>3 DEF BodyRead, BarrierGone, Accept, Stale, QEnqueue, queueVars
  <2>2. i \in DOMAIN pending' /\ pending'[i] = pending[i]
    BY <1>3, <2>1 DEF DeferredInv, EventTypes
  <2> QED
    BY <1>1, <2>2 DEF Range
<1>4. CASE Settle
  <2> DEFINE K == {j \in DOMAIN pending : pending[j] \notin Range(batch)}
  <2>1. pending' = Subsequence(pending, K) /\ written
    BY <1>4 DEF Settle, QSettleOk, WithoutFlushed
  <2>2. Range(pending') = {pending[j] : j \in K}
    BY <2>1, SubsequenceElements DEF DeferredInv, EventTypes
  <2> QED
    BY <1>1, <2>1, <2>2
<1>5. ASSUME NEW m \in Mutation, MutationStep(m)
      PROVE  mutation[m] = "failed" /\ mutation'[m] = "flushed"
  <2>1. Discard(m)
    BY <1>2, <1>5 DEF MutationStep, Flush, QFlushNow, Mutate, Release, queueVars
  <2> QED
    BY <2>1 DEF Discard, DeferredInv, MutationInv, MutationTypes
<1>6. CASE /\ \A f \in Event : ~(BodyRead(f) \/ BarrierGone(f))
           /\ ~Settle
           /\ \A m \in Mutation : ~MutationStep(m)
  <2>1. CASE UNCHANGED vars
    BY <1>2, <2>1 DEF vars, queueVars
  <2>2. CASE QueueStep
    BY <1>2, <1>6, <2>2 DEF QueueStep, Start, QStart, EndJob, QJobEnds, FailJob, QSettleFails
  <2>3. ASSUME NEW f \in Event, Arrive(f) PROVE FALSE
    BY <1>2, <2>3 DEF Arrive, queueVars
  <2>4. ASSUME NEW ok \in BOOLEAN, PersistImmediate(ok) PROVE FALSE
    BY <1>2, <2>4 DEF PersistImmediate, queueVars
  <2>5. ASSUME NEW m \in Mutation, Begin(m) PROVE FALSE
    BY <1>2, <2>5 DEF Begin, queueVars
  <2>6. CASE Timer \/ Shutdown
    BY <1>2, <2>6 DEF Timer, QTimerFires, Shutdown, QClose
  <2> QED
    BY <1>6, <2>1, <2>2, <2>3, <2>4, <2>5, <2>6 DEF Next
<1> QED
  BY <1>3, <1>4, <1>5, <1>6

(* An event leaves the queue only by being written or discarded: the batch  *)
(* that settles is taken out by event id (removeFlushedEvents), so that a   *)
(* discard and later events in between do not matter.                       *)
THEOREM NothingIsDropped == Spec => NothingDropped
<1> DEFINE A == \A e \in Range(pending) \ Range(pending') :
                  \/ written /\ e \in Range(batch)
                  \/ \E m \in Mutation : mutation[m] = "failed" /\ mutation'[m] = "flushed"
<1>1. DeferredInv /\ [Next]_vars => [A]_vars
  BY PendingLeaves
<1>2. NothingDropped <=> [][A]_vars
  BY DEF NothingDropped
<1> HIDE DEF A
<1> QED
  BY <1>1, <1>2, DeferredInvariant, PTL DEF Spec

-----------------------------------------------------------------------------
(* For the flushes to come: who awaits the jobs of the chain, and that      *)
(* nothing but the chain is left to happen once the queue is closed.        *)
Job == [retry : BOOLEAN, owner : {"queue", "close"} \cup Mutation]

JobsAwaited ==
  \A i \in DOMAIN chain :
    /\ chain[i].owner = "queue" => chain[i].retry
    /\ chain[i].owner \in Mutation => mutation[chain[i].owner] = "flushing"

JobsDistinct ==
  \A i, j \in DOMAIN chain :
    chain[i].owner = chain[j].owner /\ chain[i].owner \in Mutation => i = j

ChainInv ==
  /\ chain \in Seq(Job)
  /\ JobsAwaited
  /\ JobsDistinct
  /\ batch # <<>> => chain # <<>>

ClosedInv ==
  closed =>
    /\ ~timer
    /\ \A e \in Event : request[e] \notin {"reading", "waiting"}
    /\ \A m \in Mutation : mutation[m] \in {"none", "done"}
    /\ chain # <<>> => chain[Len(chain)].owner = "close"

FlushInv == DeferredInv /\ RequestTypes /\ ChainInv /\ ClosedInv

(* Another job at the end of the chain.                                     *)
LEMMA JobAppended ==
  ASSUME ChainInv, NEW job \in Job, chain' = Append(chain, job), UNCHANGED batch,
         job.owner = "queue" => job.retry,
         \A m \in Mutation : mutation[m] = "flushing" => mutation'[m] = "flushing",
         job.owner \in Mutation => mutation[job.owner] # "flushing" /\ mutation'[job.owner] = "flushing"
  PROVE  ChainInv' /\ chain' # <<>> /\ chain'[Len(chain')] = job
<1>1. /\ chain' \in Seq(Job) /\ chain' # <<>> /\ chain'[Len(chain')] = job
      /\ DOMAIN chain' = DOMAIN chain \cup {Len(chain) + 1} /\ Len(chain) + 1 \notin DOMAIN chain
      /\ chain'[Len(chain) + 1] = job
      /\ \A i \in DOMAIN chain : chain'[i] = chain[i]
  BY DEF ChainInv
<1>2. JobsAwaited'
  BY <1>1 DEF ChainInv, JobsAwaited
<1>3. JobsDistinct'
  BY <1>1 DEF ChainInv, JobsAwaited, JobsDistinct
<1> QED
  BY <1>1, <1>2, <1>3 DEF ChainInv

(* The running job ends, and resumes whoever awaits it.                     *)
LEMMA JobEnded ==
  ASSUME ChainInv, chain # <<>>, chain' = Tail(chain), batch' = <<>>,
         NEW outcome \in {"flushed", "failed"}, Resumed(outcome)
  PROVE  /\ ChainInv'
         /\ Head(chain) = chain[1] /\ chain[1] \in Job
         /\ chain' # <<>> => chain'[Len(chain')] = chain[Len(chain)]
         /\ chain' = <<>> => Len(chain) = 1
         /\ \A m \in Mutation : mutation'[m] = IF m = chain[1].owner THEN outcome ELSE mutation[m]
<1>1. /\ chain' \in Seq(Job) /\ Head(chain) = chain[1] /\ chain[1] \in Job /\ 1 \in DOMAIN chain
      /\ chain' # <<>> => chain'[Len(chain')] = chain[Len(chain)]
      /\ chain' = <<>> => Len(chain) = 1
      /\ \A i \in DOMAIN chain' : i + 1 \in DOMAIN chain /\ chain'[i] = chain[i + 1] /\ i + 1 # 1 /\ i \in Nat
  <2> HIDE DEF Job
  <2>1. chain \in Seq(Job) /\ Len(chain) \in Nat \ {0} /\ Head(chain) = chain[1] /\ 1 \in DOMAIN chain
    BY DEF ChainInv
  <2>2. chain[1] \in Job
    BY <2>1
  <2>3. Tail(chain) \in Seq(Job) /\ Len(Tail(chain)) = Len(chain) - 1
    BY <2>1
  <2>4. \A i \in 1 .. Len(Tail(chain)) : Tail(chain)[i] = chain[i + 1]
    BY <2>1
  <2>5. DOMAIN chain = 1 .. Len(chain) /\ DOMAIN chain' = 1 .. Len(chain')
    BY <2>1, <2>3
  <2>6. chain' = <<>> => Len(chain) = 1
    <3>1. chain' = <<>> => Len(chain') = 0
      OBVIOUS
    <3> QED
      BY <2>1, <2>3, <3>1
  <2>7. ASSUME chain' # <<>>
        PROVE  chain'[Len(chain')] = chain[Len(chain)]
    <3>1. Len(chain') \in 1 .. Len(chain')
      BY <2>1, <2>3, <2>7
    <3> QED
      BY <2>1, <2>3, <2>4, <3>1
  <2>8. ASSUME NEW i \in DOMAIN chain'
        PROVE  i + 1 \in DOMAIN chain /\ chain'[i] = chain[i + 1] /\ i + 1 # 1 /\ i \in Nat
    BY <2>1, <2>3, <2>4, <2>5, <2>8
  <2> QED
    BY <2>1, <2>2, <2>3, <2>6, <2>7, <2>8
<1>2. \A m \in Mutation : mutation'[m] = IF m = chain[1].owner THEN outcome ELSE mutation[m]
  BY <1>1 DEF Resumed, ChainInv, JobsAwaited
<1>3. ASSUME NEW i \in DOMAIN chain', chain'[i].owner \in Mutation
      PROVE  mutation'[chain'[i].owner] = "flushing"
  <2>1. chain[i + 1].owner # chain[1].owner
    BY <1>1, <1>3 DEF ChainInv, JobsDistinct
  <2> QED
    BY <1>1, <1>2, <1>3, <2>1 DEF ChainInv, JobsAwaited
<1>4. JobsAwaited'
  BY <1>1, <1>3 DEF ChainInv, JobsAwaited
<1>5. JobsDistinct'
  <2> SUFFICES ASSUME NEW i \in DOMAIN chain', NEW j \in DOMAIN chain',
                      chain'[i].owner = chain'[j].owner, chain'[i].owner \in Mutation
               PROVE  i = j
    BY DEF JobsDistinct
  <2>1. i + 1 = j + 1
    BY <1>1 DEF ChainInv, JobsDistinct
  <2> QED
    BY <1>1, <2>1
<1> QED
  BY <1>1, <1>2, <1>4, <1>5 DEF ChainInv

(* Steps that add no job and end none.                                      *)
LEMMA JobsKept ==
  ASSUME ChainInv, UNCHANGED chain, batch' # <<>> => chain # <<>>,
         \A m \in Mutation : mutation[m] = "flushing" => mutation'[m] = "flushing"
  PROVE  ChainInv'
BY DEF ChainInv, JobsAwaited, JobsDistinct

(* An open queue flushes what it is given.                                  *)
LEMMA RequestFlushes ==
  ASSUME FlushInv, NEW e \in Event, Arrive(e) \/ BodyRead(e) \/ BarrierGone(e)
  PROVE  ChainInv' /\ ClosedInv' /\ (Stranded' => Stranded)
<1>1. CASE Arrive(e)
  <2>1. ChainInv'
    BY <1>1, JobsKept DEF Arrive, FlushInv, ChainInv, queueVars, mutationVars
  <2>2. ClosedInv'
    BY <1>1 DEF Arrive, FlushInv, ClosedInv, queueVars
  <2>3. Stranded' => Stranded
    BY <1>1 DEF Arrive, Stranded, queueVars, mutationVars
  <2> QED
    BY <2>1, <2>2, <2>3
<1>2. ~Arrive(e) => ~closed
  BY DEF FlushInv, ClosedInv, BodyRead, BarrierGone
<1>3. CASE ~Arrive(e) /\ UNCHANGED queueVars
  <2>1. UNCHANGED mutationVars
    BY <1>3 DEF BodyRead, BarrierGone, Accept, Stale
  <2>2. ChainInv'
    BY <1>3, <2>1, JobsKept DEF FlushInv, ChainInv, queueVars, mutationVars
  <2>3. ClosedInv' /\ (Stranded' => Stranded)
    BY <1>2, <1>3, <2>1 DEF ClosedInv, Stranded, queueVars, mutationVars
  <2> QED
    BY <2>2, <2>3
<1>4. CASE QEnqueue(e) /\ ~Arrive(e) /\ ~UNCHANGED queueVars
  <2>1. UNCHANGED mutationVars /\ UNCHANGED <<batch, closed>>
    BY <1>4 DEF BodyRead, BarrierGone, Accept, Stale, QEnqueue
  <2>2. \/ timer' /\ UNCHANGED chain
        \/ chain' = Append(chain, Background)
    BY <1>4 DEF QEnqueue
  <2>3. Background \in Job /\ Background.owner = "queue" /\ Background.retry
    BY DEF Background, Job
  <2>4. ChainInv' /\ (timer' \/ chain' # <<>>)
    <3>1. CASE UNCHANGED chain
      BY <2>1, <2>2, <3>1, JobsKept, <2>3, JobAppended, IngestAssumption
      DEF FlushInv, ChainInv, mutationVars
    <3>2. CASE chain' = Append(chain, Background)
      BY <2>1, <2>3, <3>2, JobAppended, IngestAssumption DEF FlushInv, mutationVars
    <3> QED
      BY <2>2, <3>1, <3>2
  <2> QED
    BY <1>2, <1>4, <2>1, <2>4 DEF ClosedInv, Stranded
<1> QED
  BY <1>1, <1>3, <1>4 DEF BodyRead, BarrierGone, Accept, Stale

(* What the queue does by itself.                                           *)
LEMMA QueueFlushes ==
  ASSUME FlushInv, QueueStep \/ Timer \/ Shutdown \/ \E ok \in BOOLEAN : PersistImmediate(ok)
  PROVE  /\ ChainInv' /\ ClosedInv'
         /\ Stranded' /\ ~Stranded => batch # <<>> /\ ~written /\ Head(chain).owner = "close"
<1> USE DEF FlushInv
<1>0. mutation \in [Mutation ->
        {"none", "queued", "flushing", "failed", "flushed", "mutating", "done"}]
  BY DEF DeferredInv, MutationInv, MutationTypes
<1>1. CASE Timer
  <2>1. /\ chain' = Append(chain, Background) /\ ~closed
        /\ UNCHANGED <<batch, closed, mutation, request>>
    BY <1>1 DEF Timer, QTimerFires, ClosedInv, ingestVars, mutationVars
  <2>2. Background \in Job /\ Background.owner = "queue" /\ Background.retry
    BY DEF Background, Job
  <2>3. ChainInv' /\ chain' # <<>>
    BY <2>1, <2>2, JobAppended, IngestAssumption
  <2> QED
    BY <2>1, <2>3 DEF ClosedInv, Stranded
<1>2. CASE Shutdown
  <2> DEFINE job == [retry |-> FALSE, owner |-> "close"]
  <2>1. /\ chain' = Append(chain, job) /\ timer' = FALSE
        /\ UNCHANGED <<batch, mutation, request>>
        /\ \A e \in Event : request[e] \notin {"reading", "waiting"}
        /\ \A m \in Mutation : mutation[m] \in {"none", "done"}
    BY <1>2 DEF Shutdown, QClose, ingestVars, mutationVars
  <2>2. job \in Job /\ job.owner = "close"
    BY DEF Job
  <2> HIDE DEF job
  <2>3. ChainInv' /\ chain' # <<>> /\ chain'[Len(chain')] = job
    BY <2>1, <2>2, JobAppended, IngestAssumption
  <2> QED
    BY <2>1, <2>2, <2>3 DEF ClosedInv, Stranded
<1>3. CASE \E ok \in BOOLEAN : PersistImmediate(ok)
  <2>1. UNCHANGED <<pending, timer, chain, batch, closed, mutation, request>>
    BY <1>3 DEF PersistImmediate, queueVars, mutationVars
  <2>2. ChainInv'
    BY <2>1, JobsKept DEF ChainInv
  <2> QED
    BY <2>1, <2>2 DEF ClosedInv, Stranded
<1>4. ASSUME NEW commits \in BOOLEAN, Start(commits)
      PROVE  ChainInv' /\ ClosedInv' /\ ~Stranded'
  <2>1. UNCHANGED <<timer, chain, closed, mutation, request>> /\ chain # <<>>
    BY <1>4 DEF Start, QStart, Idle, ingestVars, mutationVars
  <2>2. ChainInv'
    BY <2>1, JobsKept DEF ChainInv
  <2> QED
    BY <2>1, <2>2 DEF ClosedInv, Stranded
<1>5. CASE Settle
  <2>1. UNCHANGED <<timer, chain, closed, mutation, request>> /\ chain # <<>> /\ batch' = <<>>
    BY <1>5 DEF Settle, QSettleOk, ChainInv, ingestVars, mutationVars
  <2>2. ChainInv'
    BY <2>1, JobsKept DEF ChainInv
  <2> QED
    BY <2>1, <2>2 DEF ClosedInv, Stranded
<1>6. ASSUME NEW outcome \in {"flushed", "failed"}, Resumed(outcome), chain # <<>>, chain' = Tail(chain),
             batch' = <<>>, UNCHANGED <<closed, request>>, closed => ~timer'
      PROVE  ChainInv' /\ ClosedInv'
  <2>1. /\ ChainInv' /\ chain[1] \in Job /\ Head(chain) = chain[1]
        /\ chain' # <<>> => chain'[Len(chain')] = chain[Len(chain)]
        /\ \A m \in Mutation : mutation'[m] = IF m = chain[1].owner THEN outcome ELSE mutation[m]
    BY <1>6, JobEnded
  <2>2. closed => \A m \in Mutation : mutation'[m] = mutation[m]
    BY <1>6 DEF Resumed, ClosedInv
  <2>3. ClosedInv'
    BY <1>6, <2>1, <2>2 DEF ClosedInv
  <2> QED
    BY <2>1, <2>3
<1>7. CASE EndJob
  <2>1. /\ Resumed("flushed") /\ chain # <<>> /\ chain' = Tail(chain) /\ batch' = <<>>
        /\ UNCHANGED <<closed, request, timer>> /\ pending' = <<>>
    BY <1>7 DEF EndJob, QJobEnds, Idle, ingestVars
  <2>2. closed => ~timer'
    BY <2>1 DEF ClosedInv
  <2> QED
    BY <1>6, <2>1, <2>2 DEF Stranded
<1>8. CASE FailJob
  <2>1. /\ Resumed("failed") /\ chain # <<>> /\ chain' = Tail(chain) /\ batch' = <<>>
        /\ UNCHANGED <<closed, request, pending>>
        /\ timer' = (timer \/ (Head(chain).retry /\ ~closed /\ pending # <<>>))
        /\ batch # <<>> /\ ~written
    BY <1>8 DEF FailJob, QSettleFails, ChainInv, ingestVars
  <2>2. closed => ~timer'
    BY <2>1 DEF ClosedInv
  <2>3. ChainInv' /\ ClosedInv'
    BY <1>6, <2>1, <2>2
  <2>4. ASSUME Stranded'
        PROVE  Head(chain).owner = "close"
    <3>1. /\ Head(chain) = chain[1] /\ chain[1] \in Job /\ Len(chain) = 1
          /\ \A m \in Mutation : mutation'[m] = IF m = chain[1].owner THEN "failed" ELSE mutation[m]
      BY <2>1, <2>4, JobEnded DEF Stranded
    <3>2. chain[1].owner \notin Mutation
      BY <2>4, <3>1 DEF Stranded
    <3>3. CASE chain[1].owner = "queue"
      <4>1. chain[1].retry
        BY <2>1, <3>1, <3>3 DEF ChainInv, JobsAwaited
      <4>2. closed
        BY <2>1, <2>4, <3>1, <4>1 DEF Stranded
      <4> QED
        BY <2>1, <3>1, <3>3, <4>2 DEF ClosedInv
    <3> QED
      BY <3>1, <3>2, <3>3 DEF Job
  <2> QED
    BY <2>1, <2>3, <2>4
<1> QED
  BY <1>1, <1>2, <1>3, <1>4, <1>5, <1>7, <1>8 DEF QueueStep

(* What the mutations do with it.                                           *)
LEMMA MutationFlushes ==
  ASSUME FlushInv, NEW m \in Mutation, Begin(m) \/ MutationStep(m)
  PROVE  ChainInv' /\ ClosedInv' /\ (Stranded' => Stranded)
<1> USE DEF FlushInv
<1>0. mutation \in [Mutation ->
        {"none", "queued", "flushing", "failed", "flushed", "mutating", "done"}]
  BY DEF DeferredInv, MutationInv, MutationTypes
<1>1. ~closed /\ UNCHANGED <<closed, batch>>
  BY DEF Begin, MutationStep, Flush, Discard, Mutate, Release, QFlushNow, QDiscard, queueVars, ClosedInv
<1>2. CASE Flush(m)
  <2> DEFINE job == [retry |-> FALSE, owner |-> m]
  <2>1. chain' = Append(chain, job) /\ mutation[m] = "queued" /\ mutation' = [mutation EXCEPT ![m] = "flushing"]
    BY <1>2 DEF Flush, QFlushNow
  <2>2. job \in Job /\ job.owner = m /\ m # "queue"
    BY IngestAssumption DEF Job
  <2> HIDE DEF job
  <2>3. ChainInv' /\ chain' # <<>>
    BY <1>0, <1>1, <2>1, <2>2, JobAppended
  <2> QED
    BY <1>1, <2>3 DEF ClosedInv, Stranded
<1>3. CASE Discard(m)
  <2>1. mutation[m] = "failed" /\ mutation' = [mutation EXCEPT ![m] = "flushed"] /\ UNCHANGED chain
        /\ pending' = <<>>
    BY <1>3 DEF Discard, QDiscard
  <2>2. ChainInv'
    BY <1>0, <1>1, <2>1, JobsKept DEF ChainInv
  <2> QED
    BY <1>1, <2>1, <2>2 DEF ClosedInv, Stranded
<1>4. CASE Begin(m) \/ Mutate(m) \/ Release(m)
  <2>1. /\ UNCHANGED <<pending, timer, chain>>
        /\ \A n \in Mutation : mutation'[n] # mutation[n] =>
             mutation[n] \in {"none", "flushed", "mutating"} /\ mutation'[n] # "failed"
    BY <1>0, <1>4 DEF Begin, Mutate, Release, queueVars
  <2>2. ChainInv'
    BY <1>1, <2>1, JobsKept DEF ChainInv
  <2>3. Stranded' => Stranded
    BY <2>1 DEF Stranded
  <2> QED
    BY <1>1, <2>2, <2>3 DEF ClosedInv
<1> QED
  BY <1>2, <1>3, <1>4 DEF MutationStep

LEMMA FlushStep ==
  ASSUME FlushInv, [Next]_vars
  PROVE  /\ ChainInv' /\ ClosedInv'
         /\ Stranded' /\ ~Stranded => batch # <<>> /\ ~written /\ Head(chain).owner = "close"
<1>1. CASE UNCHANGED vars
  BY <1>1 DEF vars, queueVars, ingestVars, mutationVars, FlushInv, ChainInv, JobsAwaited, JobsDistinct,
     ClosedInv, Stranded
<1>2. CASE \E e \in Event : Arrive(e) \/ BodyRead(e) \/ BarrierGone(e)
  BY <1>2, RequestFlushes
<1>3. CASE \E m \in Mutation : Begin(m) \/ MutationStep(m)
  BY <1>3, MutationFlushes
<1>4. CASE QueueStep \/ Timer \/ Shutdown \/ \E ok \in BOOLEAN : PersistImmediate(ok)
  BY <1>4, QueueFlushes
<1> QED
  BY <1>1, <1>2, <1>3, <1>4 DEF Next

LEMMA FlushInvHolds == Spec => []FlushInv
<1>1. Init => ChainInv /\ ClosedInv
  BY DEF Init, QueueInit, ChainInv, JobsAwaited, JobsDistinct, ClosedInv
<1>2. ChainInv /\ ClosedInv /\ DeferredInv /\ RequestTypes /\ [Next]_vars => ChainInv' /\ ClosedInv'
  BY FlushStep DEF FlushInv
<1> QED
  BY <1>1, <1>2, DeferredInvariant, RequestsTyped, PTL DEF Spec, FlushInv

(* Pending events always have a flush coming, until the last flush of a     *)
(* shutdown fails: a failed background flush sets the timer, a failed       *)
(* flushNow resumes its mutation, which discards them, and whatever closes  *)
(* the queue has been answered before.                                      *)
THEOREM OnlyLastFlushStrandsHolds == Spec => OnlyLastFlushStrands
<1> DEFINE A == (Stranded' /\ ~Stranded) => batch # <<>> /\ ~written /\ Head(chain).owner = "close"
<1>1. FlushInv /\ [Next]_vars => [A]_vars
  BY FlushStep
<1>2. OnlyLastFlushStrands <=> [][A]_vars
  BY DEF OnlyLastFlushStrands
<1> HIDE DEF A
<1> QED
  BY <1>1, <1>2, FlushInvHolds, PTL DEF Spec

(* No request has seen an epoch to come.                                    *)
SeenInv == seen \in [Event -> 0 .. epoch]

LEMMA SeenKept ==
  ASSUME SeenInv, epoch \in Nat, [Next]_vars
  PROVE  SeenInv'
<1>1. ASSUME NEW e \in Event, Arrive(e)
      PROVE  SeenInv'
  BY <1>1 DEF Arrive, mutationVars, SeenInv
<1>2. ASSUME NEW m \in Mutation, Begin(m)
      PROVE  SeenInv'
  <2>1. epoch' = epoch + 1 /\ seen' = seen
    BY <1>2 DEF Begin, ingestVars
  <2>2. 0 .. epoch \subseteq 0 .. epoch + 1
    OBVIOUS
  <2> QED
    BY <2>1, <2>2 DEF SeenInv
<1>3. CASE UNCHANGED <<seen, epoch>>
  BY <1>3 DEF SeenInv
<1>4. ASSUME NEW e \in Event, BodyRead(e) \/ BarrierGone(e)
      PROVE  UNCHANGED <<seen, epoch>>
  BY <1>4 DEF BodyRead, BarrierGone, Accept, Stale, mutationVars
<1>5. ASSUME NEW ok \in BOOLEAN, PersistImmediate(ok)
      PROVE  UNCHANGED <<seen, epoch>>
  BY <1>5 DEF PersistImmediate, mutationVars
<1>6. QueueStep \/ Timer \/ Shutdown \/ UNCHANGED vars => UNCHANGED <<seen, epoch>>
  BY DEF QueueStep, Start, Settle, EndJob, FailJob, Timer, Shutdown, vars, ingestVars, mutationVars
<1>7. ASSUME NEW m \in Mutation, MutationStep(m)
      PROVE  UNCHANGED <<seen, epoch>>
  BY <1>7 DEF MutationStep, Flush, Discard, Mutate, Release, ingestVars
<1> QED
  BY <1>1, <1>2, <1>3, <1>4, <1>5, <1>6, <1>7 DEF Next

(* Requests, mutations, the queue and the database stay within their types. *)
THEOREM IngestTypesHold == Spec => []TypeOK
<1>1. Init => SeenInv
  BY DEF Init, SeenInv
<1>2. FlushInv => epoch \in Nat
  BY DEF FlushInv, DeferredInv, MutationInv, MutationTypes
<1>3. FlushInv /\ SeenInv => TypeOK
  BY DEF FlushInv, DeferredInv, EventTypes, MutationInv, MutationTypes, RequestTypes, ChainInv, Job,
         SeenInv, TypeOK
<1> QED
  BY <1>1, <1>2, <1>3, SeenKept, FlushInvHolds, PTL DEF Spec
=============================================================================
