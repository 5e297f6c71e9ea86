----------------------- MODULE ImportCoordinator_proofs -----------------------
(***************************************************************************)
(* For any number of jobs, retries and crashes and any concurrency: a job   *)
(* has one run, its token is tracked exactly, slots are counted, no wakeup  *)
(* is lost and no row is left without its worker.                           *)
(*                                                                          *)
(* QueueInv says where a run can be.  It needs the rows as well as the      *)
(* queue, since cancelling and queueing decide by the row of a job what     *)
(* there is of it in memory.                                                *)
(***************************************************************************)
EXTENDS ImportCoordinator, SequenceTheorems, FiniteSetTheorems, TLAPS

OncePerJob(queue) == \A i, k \in DOMAIN queue : queue[i].job = queue[k].job => i = k

----------------------------------------------------------------------------
(* The three things that happen to the queue *)

(* The elements of a sequence, by position.                                 *)
LEMMA InRange ==
  ASSUME NEW s, NEW x
  PROVE  x \in Range(s) <=> \E i \in DOMAIN s : s[i] = x
BY DEF Range

(* Cancelling a queued job takes exactly its entry out of the queue.        *)
LEMMA WithoutJob ==
  ASSUME NEW q \in Seq(Run), OncePerJob(q), NEW j \in Job
  PROVE  /\ Without(q, j) \in Seq(Run)
         /\ OncePerJob(Without(q, j))
         /\ Range(Without(q, j)) = {r \in Range(q) : r.job # j}
         /\ q = <<>> => Without(q, j) = <<>>
<1> DEFINE entries == {i \in DOMAIN q : q[i].job = j}
<1>1. CASE entries = {}
  <2>1. Without(q, j) = q
    BY <1>1 DEF Without
  <2> QED
    BY <1>1, <2>1 DEF Range
<1>2. CASE entries # {}
  <2>1. PICK f \in entries : TRUE
    BY <1>2
  <2>2. entries = {f}
    BY <2>1 DEF OncePerJob
  <2>3. DOMAIN q = 1 .. Len(q) /\ Len(q) \in Nat /\ f \in 1 .. Len(q)
    BY <2>1
  <2>4. f = CHOOSE i \in entries : \A k \in entries : i <= k
    BY <2>2, <2>3
  <2>5. Without(q, j) = SubSeq(q, 1, f - 1) \o SubSeq(q, f + 1, Len(q))
    BY <1>2, <2>4 DEF Without
  <2> DEFINE a == SubSeq(q, 1, f - 1)
             b == SubSeq(q, f + 1, Len(q))
             w == Without(q, j)
  <2>6. a \in Seq(Run) /\ Len(a) = f - 1 /\ \A i \in 1 .. f - 1 : a[i] = q[i]
    <3>1. \A i \in 1 .. f - 1 : q[i] \in Run
      BY <2>3
    <3> QED
      BY <2>3, <3>1, SubSeqProperties
  <2>7. b \in Seq(Run) /\ Len(b) = Len(q) - f /\ \A i \in 1 .. Len(q) - f : b[i] = q[f + i]
    <3>1. \A i \in f + 1 .. Len(q) : q[i] \in Run
      BY <2>3
    <3> QED
      BY <2>3, <3>1, SubSeqProperties
  <2> HIDE DEF a, b
  <2>8. /\ w \in Seq(Run) /\ Len(w) = Len(q) - 1
        /\ \A i \in 1 .. Len(q) - 1 : w[i] = IF i < f THEN q[i] ELSE q[i + 1]
    <3>1. w = a \o b
      BY <2>5 DEF a, b
    <3>2. /\ w \in Seq(Run) /\ Len(w) = Len(a) + Len(b)
          /\ \A i \in 1 .. Len(a) + Len(b) : w[i] = IF i <= Len(a) THEN a[i] ELSE b[i - Len(a)]
      <4>1. /\ a \o b \in Seq(Run) /\ Len(a \o b) = Len(a) + Len(b)
            /\ \A i \in 1 .. Len(a) + Len(b) :
                 (a \o b)[i] = IF i <= Len(a) THEN a[i] ELSE b[i - Len(a)]
        BY <2>6, <2>7, ConcatProperties
      <4> HIDE DEF w
      <4> QED
        BY <3>1, <4>1
    <3>3. ASSUME NEW i \in 1 .. Len(q) - 1, i < f PROVE w[i] = q[i]
      BY <2>3, <2>6, <2>7, <3>2, <3>3
    <3>4. ASSUME NEW i \in 1 .. Len(q) - 1, ~(i < f) PROVE w[i] = q[i + 1]
      <4>1. i - Len(a) \in 1 .. Len(q) - f /\ f + (i - Len(a)) = i + 1
        BY <2>3, <2>6, <2>7, <3>4
      <4> QED
        <5>1. i \in 1 .. Len(a) + Len(b) /\ ~(i <= Len(a))
          BY <2>3, <2>6, <2>7, <3>4
        <5>2. w[i] = b[i - Len(a)]
          BY <3>2, <5>1
        <5>3. b[i - Len(a)] = q[f + (i - Len(a))]
          BY <2>7, <4>1
        <5> QED
          BY <4>1, <5>2, <5>3
    <3> QED
      BY <2>3, <2>6, <2>7, <3>2, <3>3, <3>4
  <2> HIDE DEF w
  <2>9. DOMAIN w = 1 .. Len(q) - 1
    BY <2>3, <2>8
  <2>10. OncePerJob(w)
    <3> DEFINE at(i) == IF i < f THEN i ELSE i + 1
    <3>1. \A i \in 1 .. Len(q) - 1 : at(i) \in 1 .. Len(q) /\ w[i] = q[at(i)]
      BY <2>3, <2>8
    <3>2. \A i, k \in 1 .. Len(q) - 1 : at(i) = at(k) => i = k
      BY <2>3
    <3> HIDE DEF at
    <3> QED
      BY <2>3, <2>9, <3>1, <3>2 DEF OncePerJob
  <2>11. ASSUME NEW r \in Range(w) PROVE r \in Range(q) /\ r.job # j
    <3>1. PICK i \in 1 .. Len(q) - 1 : w[i] = r
      BY <2>9, InRange
    <3>2. PICK k \in 1 .. Len(q) : r = q[k] /\ k # f
      BY <2>3, <2>8, <3>1
    <3> QED
      BY <2>2, <2>3, <3>2, InRange
  <2>12. ASSUME NEW r \in Range(q), r.job # j PROVE r \in Range(w)
    <3>1. PICK k \in 1 .. Len(q) : q[k] = r /\ k # f
      BY <2>2, <2>3, <2>12, InRange
    <3>2. CASE k < f
      BY <2>3, <2>8, <2>9, <3>1, <3>2, InRange
    <3>3. CASE k > f
      <4>1. k - 1 \in 1 .. Len(q) - 1 /\ ~(k - 1 < f) /\ (k - 1) + 1 = k
        BY <2>3, <3>1, <3>3
      <4>2. w[k - 1] = r
        BY <2>8, <3>1, <4>1
      <4> QED
        BY <2>9, <4>1, <4>2, InRange
    <3> QED
      BY <2>3, <3>1, <3>2, <3>3
  <2> QED
    BY <2>3, <2>8, <2>10, <2>11, <2>12 DEF w
<1> QED
  BY <1>1, <1>2

(* A drain cuts the queue in two that have no job in common.                *)
LEMMA SplitQueue ==
  ASSUME NEW q \in Seq(Run), OncePerJob(q), NEW n \in 0 .. Len(q)
  PROVE  LET first == SubSeq(q, 1, n)
             rest == SubSeq(q, n + 1, Len(q)) IN
         /\ rest \in Seq(Run) /\ OncePerJob(rest)
         /\ Range(first) \cup Range(rest) = Range(q)
         /\ \A r \in Range(first), s \in Range(rest) : r.job # s.job
         /\ \A r, s \in Range(first) : r.job = s.job => r = s
         /\ Range(first) \subseteq Run
         /\ IsFiniteSet(Range(first)) /\ Cardinality(Range(first)) = n
         /\ n = Len(q) => rest = <<>>
<1> DEFINE first == SubSeq(q, 1, n)
           rest == SubSeq(q, n + 1, Len(q))
<1>0. Len(q) \in Nat /\ DOMAIN q = 1 .. Len(q) /\ \A i \in 1 .. Len(q) : q[i] \in Run
  OBVIOUS
<1>1. first \in Seq(Run) /\ Len(first) = n /\ \A i \in 1 .. n : first[i] = q[i]
  <2>1. \A i \in 1 .. n : q[i] \in Run
    BY <1>0
  <2> QED
    BY <1>0, <2>1, SubSeqProperties
<1>2. /\ rest \in Seq(Run) /\ Len(rest) = Len(q) - n
      /\ \A i \in 1 .. Len(q) - n : rest[i] = q[n + i]
  <2>1. \A i \in n + 1 .. Len(q) : q[i] \in Run
    BY <1>0
  <2>2. /\ rest \in Seq(Run)
        /\ Len(rest) = IF n + 1 <= Len(q) THEN Len(q) - (n + 1) + 1 ELSE 0
        /\ \A i \in 1 .. Len(q) - (n + 1) + 1 : rest[i] = q[(n + 1) + i - 1]
    BY <1>0, <2>1, SubSeqProperties
  <2>3. Len(q) - (n + 1) + 1 = Len(q) - n /\ \A i \in 1 .. Len(q) - n : (n + 1) + i - 1 = n + i
    BY <1>0
  <2> HIDE DEF rest
  <2>4. \A i \in 1 .. Len(q) - n : rest[i] = q[n + i]
    BY <2>2, <2>3
  <2>5. Len(rest) = Len(q) - n
    <3>1. Len(q) \in Nat /\ n \in Nat /\ n <= Len(q)
      OBVIOUS
    <3>2. CASE n + 1 <= Len(q)
      BY <2>2, <2>3, <3>2
    <3>3. CASE ~(n + 1 <= Len(q))
      <4>1. Len(rest) = 0
        BY <2>2, <3>3
      <4>2. Len(q) - n = 0
        BY <3>1, <3>3
      <4> QED
        BY <4>1, <4>2
    <3> QED
      BY <3>2, <3>3
  <2> QED
    BY <2>2, <2>4, <2>5
<1> HIDE DEF first, rest
<1>3. DOMAIN first = 1 .. n /\ DOMAIN rest = 1 .. Len(q) - n
  BY <1>0, <1>1, <1>2
<1>4. OncePerJob(rest)
  <2> DEFINE at(i) == n + i
  <2>1. \A i \in 1 .. Len(q) - n : at(i) \in 1 .. Len(q) /\ rest[i] = q[at(i)]
    BY <1>0, <1>2
  <2>2. \A i, k \in 1 .. Len(q) - n : at(i) = at(k) => i = k
    BY <1>0
  <2> HIDE DEF at
  <2> QED
    BY <1>0, <1>3, <2>1, <2>2 DEF OncePerJob
<1>5. \A r : r \in Range(first) <=> \E i \in 1 .. n : q[i] = r
  BY <1>1, <1>3, InRange
<1>6. \A r : r \in Range(rest) <=> \E i \in n + 1 .. Len(q) : q[i] = r
  <2>1. ASSUME NEW r, NEW k \in 1 .. Len(q) - n, rest[k] = r
        PROVE  \E i \in n + 1 .. Len(q) : q[i] = r
    <3>1. n + k \in n + 1 .. Len(q)
      BY <1>0
    <3> QED
      BY <1>2, <2>1, <3>1
  <2>2. ASSUME NEW r, NEW i \in n + 1 .. Len(q), q[i] = r
        PROVE  \E k \in 1 .. Len(q) - n : rest[k] = r
    <3>1. i - n \in 1 .. Len(q) - n /\ n + (i - n) = i
      BY <1>0
    <3> QED
      BY <1>2, <2>2, <3>1
  <2> QED
    BY <1>3, <2>1, <2>2, InRange
<1>7. Range(first) \cup Range(rest) = Range(q)
  <2>1. \A r : r \in Range(q) <=> \E i \in 1 .. Len(q) : q[i] = r
    BY <1>0, InRange
  <2> QED
    BY <1>0, <1>5, <1>6, <2>1
<1>8. \A r \in Range(first), s \in Range(rest) : r.job # s.job
  BY <1>0, <1>5, <1>6 DEF OncePerJob
<1>9. \A r, s \in Range(first) : r.job = s.job => r = s
  BY <1>0, <1>5 DEF OncePerJob
<1>10. IsFiniteSet(Range(first)) /\ Cardinality(Range(first)) = n
  <2> DEFINE f == [i \in 1 .. n |-> q[i]]
  <2>1. f \in Bijection(1 .. n, Range(first))
    <3>1. f \in [1 .. n -> Range(first)]
      BY <1>5
    <3>2. \A a, b \in 1 .. n : f[a] = f[b] => a = b
      BY <1>0 DEF OncePerJob
    <3>3. \A r \in Range(first) : \E i \in 1 .. n : f[i] = r
      BY <1>5
    <3> HIDE DEF f
    <3> QED
      BY <3>1, <3>2, <3>3 DEF Bijection, Injection, Surjection, IsInjective
  <2>2. IsFiniteSet(1 .. n) /\ Cardinality(1 .. n) = n
    BY FS_Interval
  <2> QED
    BY <2>1, <2>2, FS_Bijection DEF ExistsBijection
<1>11. n = Len(q) => rest = <<>>
  BY <1>0, <1>2
<1>12. Range(first) \subseteq Run
  BY <1>0, <1>5
<1> QED
  BY <1>2, <1>4, <1>7, <1>8, <1>9, <1>10, <1>11, <1>12 DEF first, rest

(* Jobs that are not in the queue are appended to it, one entry each.       *)
LEMMA AppendRuns ==
  ASSUME NEW q \in Seq(Run), OncePerJob(q), attempt \in [Job -> Nat],
         NEW n \in Nat, NEW jobs \in [1 .. n -> Job], IsInjective(jobs),
         \A r \in Range(q) : r.job \notin Range(jobs)
  PROVE  LET new == q \o [i \in DOMAIN jobs |-> NewRun(jobs[i])] IN
         /\ new \in Seq(Run) /\ OncePerJob(new)
         /\ Range(new) = Range(q) \cup {NewRun(j) : j \in Range(jobs)}
<1> DEFINE f == [i \in DOMAIN jobs |-> NewRun(jobs[i])]
           new == q \o f
<1>0. Len(q) \in Nat /\ DOMAIN q = 1 .. Len(q) /\ \A i \in 1 .. Len(q) : q[i] \in Run
  OBVIOUS
<1>1. \A j \in Job : NewRun(j) \in Run /\ NewRun(j).job = j
  BY DEF NewRun, Run
<1>2. f \in [1 .. n -> Run] /\ \A i \in 1 .. n : f[i] = NewRun(jobs[i]) /\ f[i].job = jobs[i]
  BY <1>1
<1> HIDE DEF f
<1>3. f \in Seq(Run) /\ Len(f) = n
  BY <1>2
<1>4. /\ new \in Seq(Run) /\ Len(new) = Len(q) + n
      /\ \A i \in 1 .. Len(q) + n : new[i] = IF i <= Len(q) THEN q[i] ELSE f[i - Len(q)]
  BY <1>3, ConcatProperties
<1> HIDE DEF new
<1>5. DOMAIN new = 1 .. Len(q) + n
  BY <1>0, <1>4
<1>6. \A i \in 1 .. Len(q) : i \in 1 .. Len(q) + n /\ new[i] = q[i] /\ q[i] \in Range(q)
  BY <1>0, <1>4, InRange
<1>7. \A k \in 1 .. n : k + Len(q) \in 1 .. Len(q) + n /\ new[k + Len(q)] = f[k]
  <2>1. ASSUME NEW k \in 1 .. n
        PROVE  k + Len(q) \in 1 .. Len(q) + n /\ ~(k + Len(q) <= Len(q)) /\ (k + Len(q)) - Len(q) = k
    BY <1>0
  <2> QED
    BY <1>4, <2>1
<1>8. \A i \in 1 .. Len(q) + n : i \in 1 .. Len(q) \/ \E k \in 1 .. n : i = k + Len(q)
  <2>1. ASSUME NEW i \in 1 .. Len(q) + n, i \notin 1 .. Len(q)
        PROVE  i - Len(q) \in 1 .. n /\ i = (i - Len(q)) + Len(q)
    BY <1>0, <2>1
  <2> QED
    BY <2>1
<1>9. \A k \in 1 .. n : jobs[k] \in Range(jobs)
  BY InRange
<1>10. OncePerJob(new)
  <2> SUFFICES ASSUME NEW i \in 1 .. Len(q) + n, NEW k \in 1 .. Len(q) + n, new[i].job = new[k].job
               PROVE  i = k
    BY <1>5 DEF OncePerJob
  <2>1. CASE i \in 1 .. Len(q) /\ k \in 1 .. Len(q)
    BY <1>0, <1>6, <2>1 DEF OncePerJob
  <2>2. CASE i \in 1 .. Len(q) /\ k \notin 1 .. Len(q)
    BY <1>2, <1>6, <1>7, <1>8, <1>9, <2>2
  <2>3. CASE i \notin 1 .. Len(q) /\ k \in 1 .. Len(q)
    BY <1>2, <1>6, <1>7, <1>8, <1>9, <2>3
  <2>4. CASE i \notin 1 .. Len(q) /\ k \notin 1 .. Len(q)
    <3>1. PICK x \in 1 .. n, y \in 1 .. n : i = x + Len(q) /\ k = y + Len(q)
      BY <1>8, <2>4
    <3>2. jobs[x] = jobs[y]
      BY <1>2, <1>7, <3>1
    <3> QED
      BY <3>1, <3>2 DEF IsInjective
  <2> QED
    BY <2>1, <2>2, <2>3, <2>4
<1>11. ASSUME NEW r \in Range(new) PROVE r \in Range(q) \cup {NewRun(j) : j \in Range(jobs)}
  <2>1. PICK i \in 1 .. Len(q) + n : new[i] = r
    BY <1>5, InRange
  <2> QED
    <3>1. CASE i \in 1 .. Len(q)
      BY <1>6, <2>1, <3>1
    <3>2. CASE i \notin 1 .. Len(q)
      <4>1. PICK k \in 1 .. n : i = k + Len(q)
        BY <1>8, <3>2
      <4>2. r = NewRun(jobs[k]) /\ jobs[k] \in Range(jobs)
        BY <1>2, <1>7, <1>9, <2>1, <4>1
      <4> QED
        BY <4>2
    <3> QED
      BY <3>1, <3>2
<1>12. ASSUME NEW r \in Range(q) \cup {NewRun(j) : j \in Range(jobs)} PROVE r \in Range(new)
  <2>1. CASE r \in Range(q)
    <3>1. PICK i \in 1 .. Len(q) : q[i] = r
      BY <1>0, <2>1, InRange
    <3>2. i \in DOMAIN new /\ new[i] = r
      BY <1>5, <1>6, <3>1
    <3> QED
      BY <3>2, InRange
  <2>2. CASE r \in {NewRun(j) : j \in Range(jobs)}
    <3>1. PICK k \in 1 .. n : r = NewRun(jobs[k])
      BY <2>2, InRange
    <3> QED
      BY <1>2, <1>5, <1>7, <3>1, InRange
  <2> QED
    BY <2>1, <2>2
<1> QED
  BY <1>4, <1>10, <1>11, <1>12 DEF new, f

----------------------------------------------------------------------------
(* The invariant *)

(* A job has its token in activeImportJobs exactly while it has a run, and  *)
(* only one; a run that works has a row that is past queued.                *)
RunInv ==
  /\ OncePerJob(pending)
  /\ \A r \in Range(pending), s \in working : r.job # s.job
  /\ \A r \in LiveRuns : active[r.job] = r.attempt /\ status[r.job] # "absent"
  /\ \A r \in working : status[r.job] # "queued"
  /\ \A j \in Job : active[j] # 0 => \E r \in LiveRuns : r.job = j
  /\ phase = "down" => pending = <<>> /\ working = {}

(* Slots belong to runs that work or are over, and no attempt comes twice.  *)
SlotInv ==
  /\ IsFiniteSet(working) /\ IsFiniteSet(settled)
  /\ \A r \in LiveRuns \cup settled : r.attempt <= attempt[r.job]
  /\ settled \cap LiveRuns = {}
  /\ SlotsCounted

ImportInv == TypeOK /\ RunInv /\ SlotInv /\ NoIdleSlot /\ NoJobForgotten

LEMMA InitImportInv == Init => ImportInv
<1> SUFFICES ASSUME Init PROVE ImportInv
  OBVIOUS
<1>1. Range(pending) = {} /\ LiveRuns = {} /\ pending = <<>> /\ <<>> \in Seq(Run)
  BY DEF Init, Range, LiveRuns
<1>2. TypeOK
  <2>1. 0 \in 0 .. MaxRetries /\ 0 \in 0 .. MaxCrashes
    BY ImportBounds
  <2>2. status \in [Job -> Status \cup {"absent"}] /\ phase \in {"down", "up", "closing"}
    BY DEF Init
  <2>3. active \in [Job -> Nat] /\ attempt \in [Job -> Nat]
    BY DEF Init
  <2> QED
    BY <1>1, <2>1, <2>2, <2>3 DEF Init, TypeOK
<1>3. RunInv
  BY <1>1 DEF Init, RunInv, OncePerJob
<1>4. SlotInv
  BY <1>1, FS_EmptySet, ImportConcurrency DEF Init, SlotInv, SlotsCounted
<1>5. NoIdleSlot /\ NoJobForgotten
  BY <1>1 DEF Init, NoIdleSlot, NoJobForgotten
<1> QED
  BY <1>2, <1>3, <1>4, <1>5 DEF ImportInv

(* Enqueueing jobs that have no run, over rows that say so.                 *)
LEMMA EnqueueKeepsRuns ==
  ASSUME TypeOK, RunInv, SlotInv,
         NEW n \in Nat, NEW jobs \in [1 .. n -> Job], IsInjective(jobs),
         \A j \in Range(jobs) : active[j] = 0 /\ status'[j] = "queued",
         \A j \in Job : j \notin Range(jobs) => status'[j] \in {status[j], "failed"},
         Enqueue(jobs), phase' # "down", UNCHANGED <<working, settled, running>>
  PROVE  /\ pending' \in Seq(Run) /\ drain' \in BOOLEAN
         /\ active' \in [Job -> Nat] /\ attempt' \in [Job -> Nat]
         /\ RunInv' /\ SlotInv' /\ (NoIdleSlot => NoIdleSlot')
         /\ Range(pending) \subseteq Range(pending')
         /\ \A j \in Range(jobs) : NewRun(j) \in Range(pending')
<1>0. /\ pending \in Seq(Run) /\ working \subseteq Run /\ settled \subseteq Run
      /\ attempt \in [Job -> Nat] /\ active \in [Job -> Nat] /\ drain \in BOOLEAN
      /\ \A r \in Range(pending) : r \in Run
  BY DEF TypeOK, Range
<1>1. Range(jobs) \subseteq Job /\ DOMAIN jobs = 1 .. n
  BY DEF Range
<1>2. \A r \in LiveRuns : r \in Run /\ active[r.job] # 0 /\ r.job \notin Range(jobs)
  BY <1>0 DEF RunInv, LiveRuns, Run
<1>3. /\ pending' \in Seq(Run) /\ OncePerJob(pending')
      /\ Range(pending') = Range(pending) \cup {NewRun(j) : j \in Range(jobs)}
  <2>1. \A r \in Range(pending) : r.job \notin Range(jobs)
    BY <1>2 DEF LiveRuns
  <2>2. pending' = pending \o [i \in DOMAIN jobs |-> NewRun(jobs[i])]
    BY DEF Enqueue
  <2> QED
    <3>1. OncePerJob(pending)
      BY DEF RunInv
    <3> DEFINE new == pending \o [i \in DOMAIN jobs |-> NewRun(jobs[i])]
    <3>2. /\ new \in Seq(Run) /\ OncePerJob(new)
          /\ Range(new) = Range(pending) \cup {NewRun(j) : j \in Range(jobs)}
      BY <1>0, <2>1, <3>1, AppendRuns
    <3>3. pending' = new
      BY <2>2
    <3> HIDE DEF new
    <3> QED
      BY <3>2, <3>3
<1>4. LiveRuns' = LiveRuns \cup {NewRun(j) : j \in Range(jobs)}
  BY <1>3 DEF LiveRuns
<1>5. \A j \in Job : NewRun(j) \in Run /\ NewRun(j).job = j /\ NewRun(j).attempt = attempt[j] + 1
  BY <1>0 DEF NewRun, Run
<1>6. /\ active' \in [Job -> Nat] /\ attempt' \in [Job -> Nat]
      /\ \A j \in Range(jobs) : active'[j] = attempt[j] + 1 /\ attempt'[j] = attempt[j] + 1
      /\ \A j \in Job : j \notin Range(jobs) => active'[j] = active[j] /\ attempt'[j] = attempt[j]
  BY <1>0, <1>1 DEF Enqueue
<1>7. RunInv'
  <2>1. \A r \in Range(pending'), s \in working : r.job # s.job
    BY <1>0, <1>1, <1>2, <1>3, <1>5 DEF RunInv, LiveRuns
  <2>2. ASSUME NEW r \in LiveRuns' PROVE active'[r.job] = r.attempt /\ status'[r.job] # "absent"
    <3>1. CASE r \in LiveRuns
      <4>1. r.job \in Job /\ r.job \notin Range(jobs)
        BY <1>2, <3>1 DEF Run
      <4> QED
        BY <1>6, <3>1, <4>1 DEF RunInv
    <3>2. CASE r \in {NewRun(j) : j \in Range(jobs)}
      BY <1>1, <1>5, <1>6, <3>2
    <3> QED
      BY <1>4, <3>1, <3>2
  <2>3. ASSUME NEW r \in working' PROVE status'[r.job] # "queued"
    <3>1. r \in LiveRuns /\ r \in working
      BY DEF LiveRuns
    <3>2. r.job \in Job /\ r.job \notin Range(jobs)
      BY <1>2, <3>1 DEF Run
    <3> QED
      BY <3>1, <3>2 DEF RunInv
  <2>4. ASSUME NEW j \in Job, active'[j] # 0 PROVE \E r \in LiveRuns' : r.job = j
    <3>1. CASE j \in Range(jobs)
      BY <1>4, <1>5, <3>1
    <3>2. CASE j \notin Range(jobs)
      BY <1>4, <1>6, <2>4, <3>2 DEF RunInv
    <3> QED
      BY <3>1, <3>2
  <2> QED
    BY <1>3, <2>1, <2>2, <2>3, <2>4 DEF RunInv
<1>8. SlotInv'
  <2>1. ASSUME NEW r \in LiveRuns' \cup settled' PROVE r.attempt <= attempt'[r.job]
    <3>1. CASE r \in LiveRuns \cup settled
      <4>1. r \in Run /\ r.attempt <= attempt[r.job]
        BY <1>0, <1>2, <3>1 DEF SlotInv
      <4> QED
        BY <1>0, <1>6, <4>1 DEF Run
    <3>2. CASE r \in {NewRun(j) : j \in Range(jobs)}
      BY <1>0, <1>1, <1>5, <1>6, <3>2
    <3> QED
      BY <1>4, <3>1, <3>2
  <2>2. \A j \in Range(jobs) : NewRun(j) \notin settled
    BY <1>0, <1>1, <1>5 DEF SlotInv
  <2> QED
    BY <1>4, <2>1, <2>2 DEF SlotInv, SlotsCounted
<1>9. NoIdleSlot => NoIdleSlot'
  <2>1. CASE jobs = <<>>
    <3>1. pending' = pending
      <4>1. [i \in DOMAIN jobs |-> NewRun(jobs[i])] = <<>>
        BY <2>1
      <4> QED
        BY <1>0, <4>1, ConcatEmptySeq DEF Enqueue
    <3> QED
      BY <3>1 DEF Enqueue, NoIdleSlot
  <2>2. CASE jobs # <<>>
    BY <2>2 DEF Enqueue, NoIdleSlot
  <2> QED
    BY <2>1, <2>2
<1>10. drain' \in BOOLEAN
  BY <1>0 DEF Enqueue
<1> QED
  BY <1>3, <1>6, <1>7, <1>8, <1>9, <1>10

(* Requests that enqueue one job, which has no run.                         *)
LEMMA EnqueueOneKeepsImportInv ==
  ASSUME ImportInv, NEW j \in Job, active[j] = 0, Serving,
         status' = [status EXCEPT ![j] = "queued"], Enqueue(<<j>>), retries' \in 0 .. MaxRetries,
         UNCHANGED <<phase, interrupted, cancelled, working, settled, running, crashes>>
  PROVE  ImportInv'
<1>0. TypeOK /\ RunInv /\ SlotInv /\ NoIdleSlot /\ NoJobForgotten
  BY DEF ImportInv
<1>1. <<j>> \in [1 .. 1 -> Job] /\ IsInjective(<<j>>) /\ Range(<<j>>) = {j}
  BY DEF IsInjective, Range
<1>2. /\ status' \in [Job -> Status \cup {"absent"}] /\ status'[j] = "queued"
      /\ \A i \in Job : i # j => status'[i] = status[i]
  BY <1>0 DEF TypeOK, Status, Unfinished
<1>3. phase' # "down"
  BY DEF Serving
<1>4. /\ pending' \in Seq(Run) /\ drain' \in BOOLEAN
      /\ active' \in [Job -> Nat] /\ attempt' \in [Job -> Nat]
      /\ RunInv' /\ SlotInv' /\ NoIdleSlot'
      /\ Range(pending) \subseteq Range(pending')
      /\ NewRun(j) \in Range(pending')
  <2>1. \A i \in Range(<<j>>) : active[i] = 0 /\ status'[i] = "queued"
    BY <1>1, <1>2
  <2>2. \A i \in Job : i \notin Range(<<j>>) => status'[i] \in {status[i], "failed"}
    BY <1>1, <1>2
  <2> QED
    BY <1>0, <1>1, <1>3, <2>1, <2>2, EnqueueKeepsRuns
<1>5. TypeOK'
  BY <1>0, <1>2, <1>4 DEF TypeOK
<1>6. NoJobForgotten'
  <2>1. NewRun(j).job = j
    BY DEF NewRun
  <2> QED
    BY <1>0, <1>2, <1>4, <2>1 DEF NoJobForgotten, Serving
<1> QED
  BY <1>4, <1>5, <1>6 DEF ImportInv

(* A job that has no row, or a row and no token, has no run.                *)
LEMMA QueueAndRetryKeepImportInv ==
  ASSUME ImportInv, NEW j \in Job, QueueJob(j) \/ RetryJob(j) PROVE ImportInv'
<1>1. TypeOK /\ RunInv
  BY DEF ImportInv
<1>2. CASE QueueJob(j)
  <2>1. active[j] = 0
    BY <1>1, <1>2 DEF QueueJob, RunInv
  <2>2. retries' \in 0 .. MaxRetries
    BY <1>1, <1>2 DEF QueueJob, TypeOK
  <2> QED
    BY <1>2, <2>1, <2>2, EnqueueOneKeepsImportInv DEF QueueJob
<1>3. CASE RetryJob(j)
  <2>1. retries' \in 0 .. MaxRetries
    BY <1>1, <1>3, ImportBounds DEF RetryJob, TypeOK
  <2> QED
    BY <1>3, <2>1, EnqueueOneKeepsImportInv DEF RetryJob
<1> QED
  BY <1>2, <1>3

(* Cancelling takes a queued job out of the queue together with its token.  *)
LEMMA CancelKeepsImportInv ==
  ASSUME ImportInv, NEW j \in Job, CancelJob(j) PROVE ImportInv'
<1>0. TypeOK /\ RunInv /\ SlotInv /\ NoIdleSlot /\ NoJobForgotten
  BY DEF ImportInv
<1>1. /\ UNCHANGED <<phase, interrupted, attempt, working, settled, running, drain, retries, crashes>>
      /\ Serving /\ phase' # "down"
  BY DEF CancelJob, Serving
<1>2. /\ pending \in Seq(Run) /\ working \subseteq Run /\ active \in [Job -> Nat]
      /\ \A r \in Range(pending) : r \in Run
  BY <1>0 DEF TypeOK, Range
<1>3. cancelled' \subseteq Run
  BY <1>0 DEF CancelJob, TypeOK, Run
<1>4. CASE status[j] = "queued"
  <2>1. /\ status' = [status EXCEPT ![j] = "cancelled"]
        /\ pending' = Without(pending, j)
        /\ active' = [active EXCEPT ![j] = 0]
    BY <1>4 DEF CancelJob
  <2>2. /\ pending' \in Seq(Run) /\ OncePerJob(pending')
        /\ Range(pending') = {r \in Range(pending) : r.job # j}
        /\ pending = <<>> => pending' = <<>>
    BY <1>0, <1>2, <2>1, WithoutJob DEF RunInv
  <2>3. \A r \in working : r.job # j
    BY <1>0, <1>4 DEF RunInv
  <2>4. LiveRuns' = {r \in LiveRuns : r.job # j}
    BY <1>1, <2>2, <2>3 DEF LiveRuns
  <2>5. /\ active' \in [Job -> Nat] /\ active'[j] = 0
        /\ \A i \in Job : i # j => active'[i] = active[i] /\ status'[i] = status[i]
        /\ status' \in [Job -> Status \cup {"absent"}] /\ status'[j] = "cancelled"
    BY <1>0, <1>2, <2>1 DEF TypeOK, Status
  <2>6. RunInv'
    <3>1. \A r \in LiveRuns' : r \in LiveRuns /\ r.job \in Job /\ r.job # j
      BY <1>2, <2>4 DEF LiveRuns, Run
    <3>2. \A i \in Job : active'[i] # 0 => \E r \in LiveRuns' : r.job = i
      BY <1>0, <2>4, <2>5 DEF RunInv
    <3>3. \A r \in working' : status'[r.job] # "queued"
      BY <1>0, <1>1, <1>2, <2>3, <2>5 DEF RunInv, Run
    <3>4. \A r \in LiveRuns' : active'[r.job] = r.attempt /\ status'[r.job] # "absent"
      BY <1>0, <2>5, <3>1 DEF RunInv
    <3> QED
      BY <1>0, <1>1, <2>2, <3>2, <3>3, <3>4 DEF RunInv
  <2>7. SlotInv'
    BY <1>0, <1>1, <2>4 DEF SlotInv, SlotsCounted
  <2>8. TypeOK'
    BY <1>0, <1>1, <1>3, <2>2, <2>5 DEF TypeOK
  <2>9. NoIdleSlot'
    BY <1>0, <1>1, <2>2 DEF NoIdleSlot
  <2>10. NoJobForgotten'
    BY <1>0, <1>1, <2>2, <2>5 DEF NoJobForgotten, Serving
  <2> QED
    BY <2>6, <2>7, <2>8, <2>9, <2>10 DEF ImportInv
<1>5. CASE status[j] # "queued"
  <2>1. UNCHANGED <<pending, active>> /\ LiveRuns' = LiveRuns
    BY <1>1, <1>5 DEF CancelJob, LiveRuns
  <2>2. /\ status' \in [Job -> Status \cup {"absent"}]
        /\ \A i \in Job : i # j => status'[i] = status[i]
        /\ status[j] = "running" => status'[j] = "cancelling"
        /\ status[j] # "running" => status'[j] = status[j]
    BY <1>0, <1>5 DEF CancelJob, TypeOK, Status, Unfinished
  <2>3. RunInv'
    <3>1. \A r \in LiveRuns : r.job \in Job
      BY <1>2 DEF LiveRuns, Run
    <3>2. \A r \in LiveRuns : status'[r.job] # "absent" /\ (r \in working => status'[r.job] # "queued")
      BY <1>0, <2>2, <3>1 DEF RunInv
    <3>3. working \subseteq LiveRuns
      BY DEF LiveRuns
    <3> QED
      BY <1>0, <1>1, <2>1, <3>2, <3>3 DEF RunInv
  <2>4. SlotInv'
    BY <1>0, <1>1, <2>1 DEF SlotInv, SlotsCounted
  <2>5. TypeOK'
    BY <1>0, <1>1, <1>3, <2>1, <2>2 DEF TypeOK
  <2>6. NoIdleSlot' /\ NoJobForgotten'
    BY <1>0, <1>1, <2>1, <2>2 DEF NoIdleSlot, NoJobForgotten, Serving
  <2> QED
    BY <2>3, <2>4, <2>5, <2>6 DEF ImportInv
<1> QED
  BY <1>4, <1>5

(* A drain turns entries into workers, or into runs that are over.          *)
LEMMA DrainKeepsImportInv ==
  ASSUME ImportInv, Drain PROVE ImportInv'
<1> DEFINE refused == {r \in Starting : Refused(r)}
           started == Starting \ refused
<1>0. TypeOK /\ RunInv /\ SlotInv /\ NoIdleSlot /\ NoJobForgotten
  BY DEF ImportInv
<1>1. /\ UNCHANGED <<phase, interrupted, attempt, cancelled, retries, crashes>>
      /\ phase' # "down" /\ drain' = FALSE
      /\ working' = working \cup started /\ settled' = settled \cup refused
      /\ running' = running + Starts
      /\ pending' = SubSeq(pending, Starts + 1, Len(pending))
  BY DEF Drain, Processing
<1>2. /\ pending \in Seq(Run) /\ working \subseteq Run /\ active \in [Job -> Nat]
      /\ running \in Nat /\ Len(pending) \in Nat /\ MaxActive \in Nat
      /\ \A r \in Range(pending) : r \in Run
  BY <1>0, ImportConcurrency DEF TypeOK, Range
<1>3. Starts \in 0 .. Len(pending) /\ running + Starts <= MaxActive
  BY <1>0, <1>2 DEF Starts, FreeSlots, SlotInv, SlotsCounted
<1>4. /\ pending' \in Seq(Run) /\ OncePerJob(pending')
      /\ Starting \cup Range(pending') = Range(pending)
      /\ \A r \in Starting, s \in Range(pending') : r.job # s.job
      /\ \A r, s \in Starting : r.job = s.job => r = s
      /\ Starting \subseteq Run /\ IsFiniteSet(Starting) /\ Cardinality(Starting) = Starts
      /\ Starts = Len(pending) => pending' = <<>>
  <2>1. OncePerJob(pending)
    BY <1>0 DEF RunInv
  <2> QED
    BY <1>1, <1>2, <1>3, <2>1, SplitQueue DEF Starting
<1>5. Starting \subseteq LiveRuns /\ \A r \in Starting, s \in working : r.job # s.job
  BY <1>0, <1>4 DEF RunInv, LiveRuns
<1>6. /\ \A r \in refused : active'[r.job] = 0 /\ status'[r.job] = "cancelled"
      /\ \A r \in started : active'[r.job] = active[r.job] /\ status'[r.job] = "running"
      /\ \A j \in Job : (\A r \in Starting : r.job # j)
                        => active'[j] = active[j] /\ status'[j] = status[j]
      /\ active' \in [Job -> Nat] /\ status' \in [Job -> Status \cup {"absent"}]
  <2> DEFINE refusedJobs == {r.job : r \in refused}
             startingJobs == {r.job : r \in Starting}
  <2>1. /\ status' = [j \in Job |-> IF j \in refusedJobs THEN "cancelled"
                                    ELSE IF j \in startingJobs THEN "running" ELSE status[j]]
        /\ active' = [j \in Job |-> IF j \in refusedJobs THEN 0 ELSE active[j]]
    BY DEF Drain
  <2>2. \A r \in Starting : r.job \in Job /\ r.job \in startingJobs
    BY <1>4 DEF Run
  <2>3. \A r \in refused : r.job \in refusedJobs /\ r \in Starting
    OBVIOUS
  <2>4. \A r \in started : r.job \notin refusedJobs /\ r \in Starting
    BY <1>4
  <2>5. ASSUME NEW j \in Job, \A r \in Starting : r.job # j
        PROVE  j \notin refusedJobs /\ j \notin startingJobs
    BY <2>5
  <2>6. active' \in [Job -> Nat] /\ status' \in [Job -> Status \cup {"absent"}]
    BY <1>0, <2>1 DEF TypeOK, Status, Unfinished
  <2> HIDE DEF refused, started, refusedJobs, startingJobs
  <2> QED
    BY <2>1, <2>2, <2>3, <2>4, <2>5, <2>6
<1>7. started \subseteq Starting /\ refused \subseteq Starting /\ Starting = started \cup refused
      /\ started \cap refused = {}
  OBVIOUS
<1> HIDE DEF refused, started
<1>8. LiveRuns' = Range(pending') \cup working \cup started
  BY <1>1 DEF LiveRuns
<1>9. /\ LiveRuns' \subseteq LiveRuns
      /\ \A r \in LiveRuns : r \in Run /\ (r \in LiveRuns' \/ r \in refused)
  BY <1>2, <1>4, <1>7, <1>8 DEF LiveRuns
<1>10. \A r \in Range(pending') \cup working : \A s \in Starting : s.job # r.job
  BY <1>4, <1>5
<1>11. ASSUME NEW r \in LiveRuns'
       PROVE  active'[r.job] = active[r.job] /\ status'[r.job] \in {status[r.job], "running"}
  <2>1. r.job \in Job
    BY <1>9 DEF Run
  <2> QED
    BY <1>6, <1>8, <1>10, <2>1
<1>12. RunInv'
  <2>1. \A r \in Range(pending'), s \in working' : r.job # s.job
    BY <1>0, <1>1, <1>4, <1>7 DEF RunInv
  <2>2. \A r \in LiveRuns' : active'[r.job] = r.attempt /\ status'[r.job] # "absent"
    BY <1>0, <1>9, <1>11 DEF RunInv
  <2>3. \A r \in working' : status'[r.job] # "queued"
    <3>1. \A r \in working : r \in LiveRuns'
      BY <1>8
    <3> QED
      BY <1>0, <1>1, <1>6, <1>11, <3>1 DEF RunInv
  <2>4. ASSUME NEW j \in Job, active'[j] # 0 PROVE \E r \in LiveRuns' : r.job = j
    <3>1. \A r \in refused : r.job # j
      BY <1>6, <2>4
    <3>2. active[j] # 0
      <4>1. CASE \A r \in Starting : r.job # j
        BY <1>6, <2>4, <4>1
      <4>2. CASE \E r \in Starting : r.job = j
        BY <1>6, <1>7, <2>4, <3>1, <4>2
      <4> QED
        BY <4>1, <4>2
    <3> QED
      BY <1>0, <1>9, <3>1, <3>2 DEF RunInv
  <2> QED
    BY <1>1, <1>4, <2>1, <2>2, <2>3, <2>4 DEF RunInv
<1>13. SlotInv'
  <2>1. \A r \in LiveRuns' \cup settled' : r.attempt <= attempt'[r.job]
    BY <1>0, <1>1, <1>5, <1>7, <1>9 DEF SlotInv
  <2>2. /\ working \cap started = {} /\ settled \cap refused = {}
        /\ settled' \cap LiveRuns' = {}
    BY <1>0, <1>1, <1>4, <1>5, <1>7, <1>8, <1>9, <1>10 DEF SlotInv
  <2>3. /\ IsFiniteSet(started) /\ IsFiniteSet(refused)
        /\ Cardinality(started) \in Nat /\ Cardinality(refused) \in Nat
        /\ Starts = Cardinality(started) + Cardinality(refused)
    <3>1. IsFiniteSet(started) /\ IsFiniteSet(refused)
      BY <1>4, <1>7, FS_Subset
    <3>2. Cardinality(started) \in Nat /\ Cardinality(refused) \in Nat /\ Cardinality({}) = 0
      BY <3>1, FS_CardinalityType, FS_EmptySet
    <3>3. Cardinality(started \cup refused) =
            Cardinality(started) + Cardinality(refused) - Cardinality(started \cap refused)
      BY <3>1, FS_Union
    <3> QED
      <4>1. Cardinality(started \cap refused) = 0
        BY <1>7, <3>2
      <4>2. Cardinality(started \cup refused) = Starts
        BY <1>4, <1>7
      <4> QED
        BY <3>1, <3>2, <3>3, <4>1, <4>2
  <2>4. /\ IsFiniteSet(working') /\ IsFiniteSet(settled')
        /\ Cardinality(working) \in Nat /\ Cardinality(settled) \in Nat
        /\ Cardinality(working') = Cardinality(working) + Cardinality(started)
        /\ Cardinality(settled') = Cardinality(settled) + Cardinality(refused)
    <3>1. IsFiniteSet(working) /\ IsFiniteSet(settled)
      BY <1>0 DEF SlotInv
    <3>2. Cardinality(working) \in Nat /\ Cardinality(settled) \in Nat /\ Cardinality({}) = 0
      BY <3>1, FS_CardinalityType, FS_EmptySet
    <3>3. /\ IsFiniteSet(working \cup started) /\ IsFiniteSet(settled \cup refused)
          /\ Cardinality(working \cup started) =
               Cardinality(working) + Cardinality(started) - Cardinality(working \cap started)
          /\ Cardinality(settled \cup refused) =
               Cardinality(settled) + Cardinality(refused) - Cardinality(settled \cap refused)
      BY <2>3, <3>1, FS_Union
    <3> QED
      <4>1. Cardinality(working \cap started) = 0 /\ Cardinality(settled \cap refused) = 0
        BY <2>2, <3>2
      <4>2. working' = working \cup started /\ settled' = settled \cup refused
        BY <1>1
      <4> QED
        BY <2>3, <3>2, <3>3, <4>1, <4>2
  <2>5. running = Cardinality(working) + Cardinality(settled)
    BY <1>0 DEF SlotInv, SlotsCounted
  <2>6. SlotsCounted'
    BY <1>1, <1>3, <2>3, <2>4, <2>5 DEF SlotsCounted
  <2> QED
    BY <2>1, <2>2, <2>4, <2>6 DEF SlotInv
<1>14. TypeOK'
  <2>1. working' \subseteq Run /\ settled' \subseteq Run /\ running' \in Nat
    BY <1>0, <1>1, <1>2, <1>3, <1>4, <1>7 DEF TypeOK
  <2> QED
    BY <1>0, <1>1, <1>4, <1>6, <2>1 DEF TypeOK
<1>15. NoIdleSlot'
  <2>1. running' < MaxActive => Starts = Len(pending)
    BY <1>1, <1>2 DEF Starts, FreeSlots
  <2> QED
    BY <1>4, <2>1 DEF NoIdleSlot
<1>16. NoJobForgotten'
  <2> SUFFICES ASSUME Serving', NEW j \in Job
               PROVE  /\ status'[j] = "queued" => j \in interrupted' \/ \E r \in Range(pending') : r.job = j
                      /\ status'[j] \in {"running", "cancelling"} => \E r \in working' : r.job = j
    BY DEF NoJobForgotten
  <2>1. Serving
    BY <1>1 DEF Serving
  <2>2. CASE \A r \in Starting : r.job # j
    BY <1>0, <1>1, <1>4, <1>6, <2>1, <2>2 DEF NoJobForgotten
  <2>3. CASE \E r \in Starting : r.job = j
    BY <1>1, <1>6, <1>7, <2>3
  <2> QED
    BY <2>2, <2>3
<1> QED
  BY <1>12, <1>13, <1>14, <1>15, <1>16 DEF ImportInv

(* A worker that ends gives its token back and keeps its slot for a while.  *)
LEMMA SettleKeepsImportInv ==
  ASSUME ImportInv, NEW r \in working, Settle(r) PROVE ImportInv'
<1>0. TypeOK /\ RunInv /\ SlotInv /\ NoIdleSlot /\ NoJobForgotten
  BY DEF ImportInv
<1>1. /\ UNCHANGED <<phase, interrupted, attempt, pending, cancelled, running, drain, retries, crashes>>
      /\ phase' # "down"
      /\ active' = [active EXCEPT ![r.job] = 0]
      /\ working' = working \ {r} /\ settled' = settled \cup {r}
  BY DEF Settle, Processing
<1>2. /\ r \in Run /\ r.job \in Job /\ working \subseteq Run /\ settled \subseteq Run
      /\ active \in [Job -> Nat]
      /\ \A s \in Range(pending) : s \in Run
  <2>1. working \subseteq Run /\ settled \subseteq Run /\ active \in [Job -> Nat] /\ pending \in Seq(Run)
    BY <1>0 DEF TypeOK
  <2>2. r \in Run /\ \A s \in Run : s.job \in Job
    BY <2>1 DEF Run
  <2>3. \A s \in Range(pending) : s \in Run
    BY <2>1 DEF Range
  <2> QED
    BY <2>1, <2>2, <2>3
<1>3. PICK outcome \in WorkerOutcome : status' = [status EXCEPT ![r.job] = Recorded(r, outcome)]
  BY DEF Settle
<1>4. Recorded(r, outcome) \in Succeeded \cup {"failed", "cancelled"}
  BY DEF Recorded, WorkerOutcome
<1>5. /\ status' \in [Job -> Status \cup {"absent"}]
      /\ status'[r.job] \in Succeeded \cup {"failed", "cancelled"}
      /\ \A j \in Job : j # r.job => status'[j] = status[j] /\ active'[j] = active[j]
      /\ active' \in [Job -> Nat] /\ active'[r.job] = 0
  BY <1>0, <1>1, <1>2, <1>3, <1>4 DEF TypeOK, Status
<1>6. \A s \in LiveRuns : s \in Run /\ s.job \in Job /\ s.attempt \in Nat /\ (s.job = r.job => s = r)
  <2>1. \A s \in LiveRuns : s \in Run /\ active[s.job] = s.attempt
    BY <1>0, <1>2 DEF RunInv, LiveRuns
  <2>2. r \in LiveRuns
    BY DEF LiveRuns
  <2> QED
    BY <2>1, <2>2 DEF Run
<1>7. LiveRuns' = LiveRuns \ {r}
  <2>1. r \notin Range(pending)
    BY <1>0 DEF RunInv
  <2> QED
    BY <1>1, <2>1 DEF LiveRuns
<1>8. RunInv'
  <2>1. ASSUME NEW s \in LiveRuns'
        PROVE  active'[s.job] = s.attempt /\ status'[s.job] = status[s.job]
    BY <1>0, <1>5, <1>6, <1>7 DEF RunInv
  <2>2. ASSUME NEW j \in Job, active'[j] # 0 PROVE \E s \in LiveRuns' : s.job = j
    <3>1. j # r.job /\ active[j] # 0
      BY <1>5, <2>2
    <3> QED
      BY <1>0, <1>7, <3>1 DEF RunInv
  <2>3. working' \subseteq LiveRuns' /\ working' \subseteq working
    BY <1>1, <1>7 DEF LiveRuns
  <2> QED
    BY <1>0, <1>1, <1>7, <2>1, <2>2, <2>3 DEF RunInv
<1>9. SlotInv'
  <2>1. IsFiniteSet(working) /\ IsFiniteSet(settled) /\ r \notin settled
    BY <1>0 DEF SlotInv, LiveRuns
  <2>2. Cardinality(working) \in Nat /\ Cardinality(settled) \in Nat
    BY <2>1, FS_CardinalityType
  <2>3. /\ IsFiniteSet(working') /\ Cardinality(working') = Cardinality(working) - 1
        /\ IsFiniteSet(settled') /\ Cardinality(settled') = Cardinality(settled) + 1
    BY <1>1, <2>1, FS_RemoveElement, FS_AddElement
  <2>4. SlotsCounted'
    BY <1>0, <1>1, <2>2, <2>3 DEF SlotInv, SlotsCounted
  <2>5. settled' \cap LiveRuns' = {} /\ LiveRuns' \cup settled' = LiveRuns \cup settled
    <3>1. r \in LiveRuns
      BY DEF LiveRuns
    <3> QED
      BY <1>0, <1>1, <1>7, <3>1 DEF SlotInv
  <2> QED
    BY <1>0, <1>1, <2>3, <2>4, <2>5 DEF SlotInv
<1>10. TypeOK'
  BY <1>0, <1>1, <1>2, <1>5 DEF TypeOK
<1>11. NoIdleSlot'
  BY <1>0, <1>1 DEF NoIdleSlot
<1>12. NoJobForgotten'
  BY <1>0, <1>1, <1>5 DEF NoJobForgotten, Serving, Succeeded
<1> QED
  BY <1>8, <1>9, <1>10, <1>11, <1>12 DEF ImportInv

(* A slot given back schedules a drain.                                     *)
LEMMA ReleaseKeepsImportInv ==
  ASSUME ImportInv, NEW r \in settled, Release(r) PROVE ImportInv'
<1>0. TypeOK /\ RunInv /\ SlotInv /\ NoIdleSlot /\ NoJobForgotten
  BY DEF ImportInv
<1>1. /\ UNCHANGED <<status, phase, interrupted, active, attempt, pending, cancelled, working, retries, crashes>>
      /\ settled' = settled \ {r} /\ drain' = TRUE
      /\ running' = IF running > 0 THEN running - 1 ELSE 0
  BY DEF Release
<1>2. /\ IsFiniteSet(working) /\ IsFiniteSet(settled)
      /\ running = Cardinality(working) + Cardinality(settled)
  BY <1>0 DEF SlotInv, SlotsCounted
<1>3. Cardinality(working) \in Nat /\ Cardinality(settled) \in Nat
  BY <1>2, FS_CardinalityType
<1>4. IsFiniteSet(settled') /\ Cardinality(settled') = Cardinality(settled) - 1 /\ Cardinality(settled') \in Nat
  BY <1>1, <1>2, FS_RemoveElement, FS_CardinalityType
<1>5. running' = running - 1 /\ running' \in Nat
  BY <1>1, <1>2, <1>3, <1>4
<1>6. LiveRuns' = LiveRuns
  BY <1>1 DEF LiveRuns
<1>7. RunInv'
  BY <1>0, <1>1, <1>6 DEF RunInv, OncePerJob
<1>8. SlotInv'
  <2>1. SlotsCounted'
    BY <1>0, <1>1, <1>2, <1>3, <1>4, <1>5, ImportConcurrency DEF SlotInv, SlotsCounted
  <2> QED
    BY <1>0, <1>1, <1>4, <1>6, <2>1 DEF SlotInv
<1>9. TypeOK'
  BY <1>0, <1>1, <1>5 DEF TypeOK
<1>10. NoIdleSlot' /\ NoJobForgotten'
  BY <1>0, <1>1 DEF NoIdleSlot, NoJobForgotten, Serving
<1> QED
  BY <1>7, <1>8, <1>9, <1>10 DEF ImportInv

(* A death leaves no memory behind.                                         *)
LEMMA DieKeepsImportInv ==
  ASSUME ImportInv, Die, crashes' \in 0 .. MaxCrashes PROVE ImportInv'
<1>0. TypeOK
  BY DEF ImportInv
<1>1. pending' = <<>> /\ Range(pending') = {} /\ LiveRuns' = {} /\ <<>> \in Seq(Run)
  BY DEF Die, Range, LiveRuns
<1>2. TypeOK'
  <2>1. active' \in [Job -> Nat] /\ attempt' \in [Job -> Nat]
    BY DEF Die
  <2> QED
    BY <1>0, <1>1, <2>1 DEF Die, TypeOK
<1>3. RunInv'
  BY <1>1 DEF Die, RunInv, OncePerJob
<1>4. SlotInv'
  BY <1>1, FS_EmptySet, ImportConcurrency DEF Die, SlotInv, SlotsCounted
<1>5. NoIdleSlot' /\ NoJobForgotten'
  BY <1>1 DEF Die, NoIdleSlot, NoJobForgotten, Serving
<1> QED
  BY <1>2, <1>3, <1>4, <1>5 DEF ImportInv

(* A start hands every job that a dead process left to the resumption.      *)
LEMMA StartKeepsImportInv ==
  ASSUME ImportInv, Start PROVE ImportInv'
<1>0. TypeOK /\ RunInv /\ SlotInv /\ NoIdleSlot
  BY DEF ImportInv
<1>1. /\ UNCHANGED <<active, attempt, pending, cancelled, working, settled, running, drain, retries, crashes>>
      /\ phase = "down" /\ phase' = "up"
      /\ interrupted' = {j \in Job : status[j] \in {"queued", "running"}}
      /\ status' = [j \in Job |-> CASE status[j] \in {"queued", "running"} -> "queued"
                                    [] status[j] = "cancelling" -> "cancelled"
                                    [] OTHER -> status[j]]
  BY DEF Start, memory
<1>2. /\ pending = <<>> /\ working = {} /\ Range(pending) = {} /\ LiveRuns = {} /\ LiveRuns' = {}
  BY <1>0, <1>1 DEF RunInv, LiveRuns, Range
<1>3. /\ status' \in [Job -> Status \cup {"absent"}]
      /\ \A j \in Job : status'[j] \notin {"running", "cancelling"}
      /\ \A j \in Job : status'[j] = "queued" => j \in interrupted'
  BY <1>0, <1>1 DEF TypeOK, Status, Unfinished
<1>4. RunInv' /\ SlotInv'
  BY <1>0, <1>1, <1>2 DEF RunInv, SlotInv, SlotsCounted, OncePerJob
<1>5. TypeOK'
  BY <1>0, <1>1, <1>3 DEF TypeOK
<1>6. NoIdleSlot' /\ NoJobForgotten'
  BY <1>0, <1>1, <1>3 DEF NoIdleSlot, NoJobForgotten
<1> QED
  BY <1>4, <1>5, <1>6 DEF ImportInv

(* The resumption enqueues the jobs on its list that nobody has enqueued    *)
(* since the start, fails those whose source is gone, and may stop at one   *)
(* that is being cancelled, which closes the daemon.                        *)
LEMMA ResumeKeepsImportInv ==
  ASSUME ImportInv, ResumeInterrupted PROVE ImportInv'
<1>0. TypeOK /\ RunInv /\ SlotInv /\ NoIdleSlot /\ NoJobForgotten
  BY DEF ImportInv
<1>1. /\ UNCHANGED <<cancelled, working, settled, running, retries, crashes>>
      /\ Serving /\ interrupted' = {} /\ interrupted \subseteq Job
  BY <1>0 DEF ResumeInterrupted, TypeOK
<1>2. PICK gone \in SUBSET interrupted, reached \in SUBSET interrupted :
        LET stops == {j \in interrupted \ gone : status[j] = "cancelling"}
            resumed == {j \in reached \ gone : active[j] = 0}
        IN  /\ gone \subseteq reached
            /\ IF stops = {} THEN reached = interrupted ELSE reached \cap stops = {}
            /\ phase' = IF stops = {} THEN "up" ELSE "closing"
            /\ status' = [j \in Job |-> IF j \in gone THEN "failed"
                                        ELSE IF j \in resumed THEN "queued" ELSE status[j]]
            /\ \E order \in Orderings(resumed) : Enqueue(order)
  BY DEF ResumeInterrupted
<1> DEFINE resumed == {j \in reached \ gone : active[j] = 0}
<1>3. /\ phase' \in {"up", "closing"}
      /\ phase' = "up" => reached = interrupted
      /\ status' = [j \in Job |-> IF j \in gone THEN "failed"
                                  ELSE IF j \in resumed THEN "queued" ELSE status[j]]
      /\ \E order \in Orderings(resumed) : Enqueue(order)
  BY <1>2
<1>4. /\ resumed \subseteq Job /\ resumed \cap gone = {} /\ \A j \in resumed : active[j] = 0
      /\ \A j \in interrupted : phase' = "up" => j \in gone \/ j \in resumed \/ active[j] # 0
  BY <1>1, <1>3
<1> HIDE DEF resumed
<1>5. PICK order \in Orderings(resumed) : Enqueue(order)
  BY <1>3
<1> DEFINE n == Cardinality(resumed)
<1>6. n \in Nat
  BY <1>4, ImportedJobs, FS_Subset, FS_CardinalityType
<1>7. order \in [1 .. n -> Job] /\ IsInjective(order) /\ Range(order) = resumed
  <2>1. /\ order \in [1 .. n -> resumed] /\ IsInjective(order)
        /\ \A j \in resumed : \E i \in 1 .. n : order[i] = j
    BY DEF Orderings, Bijection, Injection, Surjection
  <2> QED
    BY <1>4, <2>1 DEF Range
<1> HIDE DEF n
<1>8. /\ status' \in [Job -> Status \cup {"absent"}]
      /\ \A j \in resumed : status'[j] = "queued"
      /\ \A j \in Job : j \notin resumed => status'[j] \in {status[j], "failed"}
      /\ \A j \in gone : status'[j] = "failed"
  BY <1>0, <1>1, <1>3, <1>4 DEF TypeOK, Status, Unfinished
<1>9. /\ pending' \in Seq(Run) /\ drain' \in BOOLEAN
      /\ active' \in [Job -> Nat] /\ attempt' \in [Job -> Nat]
      /\ RunInv' /\ SlotInv' /\ NoIdleSlot'
      /\ Range(pending) \subseteq Range(pending')
      /\ \A j \in resumed : NewRun(j) \in Range(pending')
  <2>1. \A j \in Range(order) : active[j] = 0 /\ status'[j] = "queued"
    BY <1>4, <1>7, <1>8
  <2>2. \A j \in Job : j \notin Range(order) => status'[j] \in {status[j], "failed"}
    BY <1>7, <1>8
  <2>3. phase' # "down" /\ UNCHANGED <<working, settled, running>>
    BY <1>1, <1>3
  <2>4. NoIdleSlot => NoIdleSlot'
    BY <1>0, <1>5, <1>6, <1>7, <2>1, <2>2, <2>3, EnqueueKeepsRuns
  <2>5. /\ pending' \in Seq(Run) /\ drain' \in BOOLEAN
        /\ active' \in [Job -> Nat] /\ attempt' \in [Job -> Nat]
        /\ RunInv' /\ SlotInv'
        /\ Range(pending) \subseteq Range(pending')
        /\ \A j \in Range(order) : NewRun(j) \in Range(pending')
    BY <1>0, <1>5, <1>6, <1>7, <2>1, <2>2, <2>3, EnqueueKeepsRuns
  <2> QED
    BY <1>0, <1>7, <2>4, <2>5
<1>10. TypeOK'
  BY <1>0, <1>1, <1>3, <1>8, <1>9 DEF TypeOK
<1>11. NoJobForgotten'
  <2> SUFFICES ASSUME Serving', NEW j \in Job
               PROVE  /\ status'[j] = "queued" => j \in interrupted' \/ \E r \in Range(pending') : r.job = j
                      /\ status'[j] \in {"running", "cancelling"} => \E r \in working' : r.job = j
    BY DEF NoJobForgotten
  <2>1. NewRun(j).job = j
    BY DEF NewRun
  <2>2. CASE j \in resumed
    BY <1>8, <1>9, <2>1, <2>2
  <2>3. CASE j \notin resumed
    <3>1. status'[j] \in {status[j], "failed"}
      BY <1>8, <2>3
    <3>2. status'[j] \in {"running", "cancelling"} => \E r \in working' : r.job = j
      BY <1>0, <1>1, <3>1 DEF NoJobForgotten
    <3>3. ASSUME status'[j] = "queued" PROVE \E r \in Range(pending) : r.job = j
      <4>1. status[j] = "queued" /\ j \notin gone
        BY <1>8, <3>1, <3>3
      <4>2. CASE j \in interrupted
        <5>1. active[j] # 0
          BY <1>4, <2>3, <4>1, <4>2 DEF Serving
        <5>2. PICK r \in LiveRuns : r.job = j
          BY <1>0, <5>1 DEF RunInv
        <5>3. r \notin working
          BY <1>0, <4>1, <5>2 DEF RunInv
        <5> QED
          BY <5>2, <5>3 DEF LiveRuns
      <4>3. CASE j \notin interrupted
        BY <1>0, <1>1, <4>1, <4>3 DEF NoJobForgotten
      <4> QED
        BY <4>2, <4>3
    <3> QED
      BY <1>9, <3>2, <3>3
  <2> QED
    BY <2>2, <2>3
<1> QED
  BY <1>9, <1>10, <1>11 DEF ImportInv

----------------------------------------------------------------------------
(* The theorems *)

(* Every step of the daemon keeps the invariant.                            *)
THEOREM ImportInvariant == Spec => []ImportInv
<1>1. ImportInv /\ [Next]_vars => ImportInv'
  <2> SUFFICES ASSUME ImportInv, [Next]_vars PROVE ImportInv'
    OBVIOUS
  <2>1. ASSUME NEW j \in Job, QueueJob(j) \/ RetryJob(j) PROVE ImportInv'
    BY <2>1, QueueAndRetryKeepImportInv
  <2>2. ASSUME NEW j \in Job, CancelJob(j) PROVE ImportInv'
    BY <2>2, CancelKeepsImportInv
  <2>3. CASE Drain
    BY <2>3, DrainKeepsImportInv
  <2>4. ASSUME NEW r \in working, Settle(r) PROVE ImportInv'
    BY <2>4, SettleKeepsImportInv
  <2>5. ASSUME NEW r \in settled, Release(r) PROVE ImportInv'
    BY <2>5, ReleaseKeepsImportInv
  <2>6. CASE Crash \/ Exit
    <3>1. crashes' \in 0 .. MaxCrashes
      BY <2>6, ImportBounds DEF Crash, Exit, ImportInv, TypeOK
    <3> QED
      BY <2>6, <3>1, DieKeepsImportInv DEF Crash, Exit
  <2>7. CASE Start
    BY <2>7, StartKeepsImportInv
  <2>8. CASE ResumeInterrupted
    BY <2>8, ResumeKeepsImportInv
  <2>9. CASE UNCHANGED vars
    BY <2>9 DEF vars, memory, ImportInv, TypeOK, RunInv, OncePerJob, SlotInv, SlotsCounted,
       LiveRuns, NoIdleSlot, NoJobForgotten, Serving
  <2> QED
    BY <2>1, <2>2, <2>3, <2>4, <2>5, <2>6, <2>7, <2>8, <2>9 DEF Next
<1> QED
  BY <1>1, InitImportInv, PTL DEF Spec

(* The rows, the queue and the slots keep their types.                      *)
THEOREM ImportTypesHold == Spec => []TypeOK
<1>1. ImportInv => TypeOK
  BY DEF ImportInv
<1> QED
  BY <1>1, ImportInvariant, PTL

(* No job is imported by two workers, nor is it queued twice.               *)
THEOREM JobsRunOnce == Spec => []OneRunPerJob
<1>1. ImportInv => OneRunPerJob
  <2> SUFFICES ASSUME ImportInv PROVE OneRunPerJob
    OBVIOUS
  <2>1. TypeOK /\ RunInv
    BY DEF ImportInv
  <2>2. \A r \in LiveRuns : r \in Run
    BY <2>1 DEF TypeOK, LiveRuns, Range
  <2>3. \A r, s \in LiveRuns : r.job = s.job => r = s
    BY <2>1, <2>2 DEF RunInv, Run
  <2>4. \A i, k \in DOMAIN pending : pending[i] = pending[k] => i = k
    BY <2>1 DEF RunInv, OncePerJob
  <2>5. Range(pending) \cap working = {}
    BY <2>1 DEF RunInv
  <2> QED
    BY <2>3, <2>4, <2>5 DEF OneRunPerJob
<1> QED
  BY <1>1, ImportInvariant, PTL

(* activeImportJobs has the token of the job's run, and of nothing else.    *)
THEOREM TokensTrackRuns == Spec => []TrackedExactly
<1>1. ImportInv => TrackedExactly
  <2> SUFFICES ASSUME ImportInv, NEW j \in Job
               PROVE  active[j] = (IF \E r \in LiveRuns : r.job = j
                                   THEN (CHOOSE r \in LiveRuns : r.job = j).attempt ELSE 0)
    BY DEF TrackedExactly
  <2>1. RunInv
    BY DEF ImportInv
  <2>2. CASE \E r \in LiveRuns : r.job = j
    <3> DEFINE r == CHOOSE r \in LiveRuns : r.job = j
    <3>1. r \in LiveRuns /\ r.job = j
      BY <2>2
    <3> HIDE DEF r
    <3>2. active[j] = r.attempt
      BY <2>1, <3>1 DEF RunInv
    <3> QED
      BY <2>2, <3>2 DEF r
  <2>3. CASE ~\E r \in LiveRuns : r.job = j
    BY <2>1, <2>3 DEF RunInv
  <2> QED
    BY <2>2, <2>3
<1> QED
  BY <1>1, ImportInvariant, PTL

(* The counter is the number of slots in use, within the concurrency, and   *)
(* no slot stays free while a job waits.                                    *)
THEOREM SlotsAreUsed == Spec => []SlotsUsed
<1>1. ImportInv => SlotsUsed
  BY DEF ImportInv, SlotInv, SlotsUsed
<1> QED
  BY <1>1, ImportInvariant, PTL

(* A row that promises work has it in memory while the daemon serves.       *)
THEOREM JobsAreRemembered == Spec => []NoJobForgotten
<1>1. ImportInv => NoJobForgotten
  BY DEF ImportInv
<1> QED
  BY <1>1, ImportInvariant, PTL

(* A cancellation is not undone by the worker it was meant for: no step takes *)
(* a job from cancelling or cancelled to a success.                          *)
THEOREM CancellationStands == Spec => CancelledNeverSucceeds
<1> DEFINE Stands == \A j \in Job : status[j] \in {"cancelling", "cancelled"} => status'[j] \notin Succeeded
<1>1. ASSUME TypeOK, [Next]_vars PROVE Stands
  <2>0. status \in [Job -> Status \cup {"absent"}] /\ \A r \in working : r.job \in Job
    BY <1>1 DEF TypeOK, Run
  <2>1. ASSUME NEW j \in Job, QueueJob(j) \/ RetryJob(j) \/ CancelJob(j) PROVE Stands
    BY <2>0, <2>1 DEF QueueJob, RetryJob, CancelJob, Succeeded
  <2>2. CASE Drain
    BY <2>0, <2>2 DEF Drain, Succeeded
  <2>3. ASSUME NEW r \in working, Settle(r) PROVE Stands
    BY <2>0, <2>3 DEF Settle, Recorded, Succeeded
  <2>4. ASSUME NEW r \in settled, Release(r) PROVE Stands
    BY <2>0, <2>4 DEF Release, Succeeded
  <2>5. CASE Crash \/ Exit
    BY <2>0, <2>5 DEF Crash, Exit, Die, Succeeded
  <2>6. CASE Start
    BY <2>0, <2>6 DEF Start, Succeeded
  <2>7. CASE ResumeInterrupted
    BY <2>0, <2>7 DEF ResumeInterrupted, Succeeded
  <2>8. CASE UNCHANGED vars
    BY <2>0, <2>8 DEF vars, Succeeded
  <2> QED
    BY <1>1, <2>1, <2>2, <2>3, <2>4, <2>5, <2>6, <2>7, <2>8 DEF Next
<1>2. TypeOK /\ [Next]_vars => [Stands]_vars
  BY <1>1
<1> QED
  BY <1>2, ImportTypesHold, PTL DEF Spec, CancelledNeverSucceeds
=============================================================================
