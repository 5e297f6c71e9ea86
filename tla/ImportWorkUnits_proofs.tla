----------------------- MODULE ImportWorkUnits_proofs -----------------------
(***************************************************************************)
(* What the rows of the import ledger say, for any files, units, jobs,      *)
(* retries and crashes, wherever the process dies or a job is cancelled.    *)
(***************************************************************************)
EXTENDS ImportWorkUnits, FiniteSetTheorems, TLAPS

-----------------------------------------------------------------------------
(* The invariant                                                            *)

(* The places of the worker: it reads a unit, it has one in hand, it visits *)
(* the units of its job, it works for a job.                                *)
Reading  == {"parse", "records", "caught"}
InHand   == Reading \cup {"stat", "progress"}
Visiting == InHand \cup {"units"}
AtWork   == Visiting \cup {"manifest"}
Open     == {"queued", "running", "failed"}

(* The lines of a file behind a plan and up to a cursor.                    *)
LinesTo(u, from, to) == {<<u, l>> : l \in from + 1 .. to}

(* What a row, or the variables of the runner, say of the lines of a file   *)
(* is true, given the lines stored, thrown and in a failure group: what     *)
(* CheckpointsAddUp promises, and that a line in a group counts as failed.  *)
Adds(u, from, c, kept, lost, reported) ==
  /\ from <= c.cursor
  /\ c.processed = c.cursor - from
  /\ c.imported = Cardinality(LinesTo(u, from, c.cursor) \ (Malformed \cup Excluded \cup lost))
  /\ LinesTo(u, from, c.cursor) \ (Malformed \cup Excluded \cup lost) \subseteq kept
  /\ c.failed >= Cardinality(LinesTo(u, from, c.cursor) \cap Malformed)
  /\ LinesTo(u, from, c.cursor) \cap reported # {} => c.failed > 0

(* The durable cursor of a file is where the row of its unit says, until    *)
(* the unit is done and the cursor jumps to the size of the file.           *)
RowInv(u) ==
  /\ Adds(u, unit[u].before, unit[u], stored, thrown, grouped)
  /\ unit[u].cursor <= offset[u]
  /\ unit[u].status \notin Done => unit[u].cursor = offset[u]
  /\ u \notin Permitted => unit[u].cursor = unit[u].before
  /\ unit[u].status = "failed" => unit[u].failed > 0

(* No line is thrown or in a group that a later plan could meet again.      *)
LinesInv ==
  /\ \A u \in Unit : offset[u] <= size[u]
  /\ \A u \in Unit, l \in Nat : <<u, l>> \in thrown => l <= offset[u]
  /\ grouped \subseteq thrown

(* Each unit is visited once, and none that is open is left out.            *)
VisitInv ==
  /\ pc \in AtWork => job \in {"running", "cancelling"}
  /\ todo \subseteq Units(Open)
  /\ pc \notin Visiting => todo = {}
  /\ pc \in InHand => at \in Runner /\ at.unit \notin todo /\ at.unit \in Units(UnitStatus)
  /\ pc \in Visiting =>
       \A u \in Units({"queued", "running"}) : u \in todo \/ (pc \in Reading /\ u = at.unit)

(* The runner is ahead of the row by the lines it has not saved.            *)
RunnerInv ==
  /\ pc \in Reading =>
       /\ at.unit \in Permitted
       /\ unit[at.unit].status = "running"
       /\ Adds(at.unit, unit[at.unit].before, at, stored, thrown, grouped)
       /\ offset[at.unit] <= at.cursor
       /\ at.cursor <= at.to /\ at.to <= size[at.unit]
  /\ pc \in {"parse", "records"} /\ at.unsaved = 0 => at.cursor = offset[at.unit]
  /\ pc = "parse" => at.unsaved = 0
  /\ pc = "caught" => at.cursor = offset[at.unit] /\ <<at.unit, at.cursor>> \in thrown
  /\ pc = "stat" => unit[at.unit].status \in Done

UnitsInv ==
  /\ TypeOK
  /\ LinesInv
  /\ VisitInv
  /\ \A u \in Units(UnitStatus) : RowInv(u)
  /\ RunnerInv
  /\ CleanReceipt

-----------------------------------------------------------------------------
(* Counting lines                                                           *)

(* A stretch of lines is finite, and one line more is one element more.     *)
LEMMA Stretch ==
  ASSUME NEW u, NEW a \in Nat, NEW b \in Nat, a <= b
  PROVE  /\ IsFiniteSet(LinesTo(u, a, b))
         /\ LinesTo(u, a, a) = {}
         /\ LinesTo(u, a, b + 1) = LinesTo(u, a, b) \cup {<<u, b + 1>>}
         /\ <<u, b + 1>> \notin LinesTo(u, a, b)
<1>1. IsFiniteSet(a + 1 .. b)
  BY FS_Interval
<1> DEFINE f == [l \in a + 1 .. b |-> <<u, l>>]
<1>2. f \in Surjection(a + 1 .. b, LinesTo(u, a, b))
  BY DEF Surjection, LinesTo
<1>3. IsFiniteSet(LinesTo(u, a, b))
  BY <1>1, <1>2, FS_Surjection
<1>4. a + 1 .. a = {} /\ a + 1 .. (b + 1) = (a + 1 .. b) \cup {b + 1} /\ b + 1 \notin a + 1 .. b
  OBVIOUS
<1> QED
  BY <1>3, <1>4 DEF LinesTo

(* Nothing is said of the lines when the cursor is where the plan was.      *)
LEMMA AddsNothing ==
  ASSUME NEW u, NEW from \in Nat, NEW c, NEW kept, NEW lost, NEW reported,
         c.cursor = from, c.processed = 0, c.imported = 0, c.failed \in Nat
  PROVE  Adds(u, from, c, kept, lost, reported)
<1>1. LinesTo(u, from, from) = {}
  <2>1. from <= from
    OBVIOUS
  <2> QED
    BY <2>1, Stretch
<1>2. Cardinality({}) = 0
  BY FS_EmptySet
<1> QED
  BY <1>1, <1>2 DEF Adds

(* It stays true of the same counts when more is stored, and nothing of     *)
(* these lines is thrown or grouped in addition.                            *)
LEMMA AddsFrame ==
  ASSUME NEW u, NEW from \in Nat, NEW c, NEW d,
         c.cursor \in Nat, c.failed \in Nat, d.failed \in Nat,
         NEW kept, NEW lost, NEW reported, NEW kept2, NEW lost2, NEW reported2,
         Adds(u, from, c, kept, lost, reported),
         d.cursor = c.cursor, d.processed = c.processed, d.imported = c.imported,
         d.failed >= c.failed,
         kept \subseteq kept2,
         LinesTo(u, from, c.cursor) \cap lost2 = LinesTo(u, from, c.cursor) \cap lost,
         LinesTo(u, from, c.cursor) \cap reported2 \subseteq reported \/ d.failed > 0
  PROVE  Adds(u, from, d, kept2, lost2, reported2)
<1> DEFINE L == LinesTo(u, from, c.cursor)
           N(x) == L \ (Malformed \cup Excluded \cup x)
<1>1. N(lost2) = N(lost)
  OBVIOUS
<1>2. Cardinality(L \cap Malformed) \in Nat
  <2>1. IsFiniteSet(L)
    BY Stretch DEF Adds
  <2> QED
    BY <2>1, FS_Subset, FS_CardinalityType
<1>3. d.failed >= Cardinality(L \cap Malformed)
  <2>1. c.failed >= Cardinality(L \cap Malformed)
    BY DEF Adds
  <2> HIDE DEF L
  <2> QED
    BY <1>2, <2>1
<1>4. L \cap reported2 # {} => d.failed > 0
  <2>1. L \cap reported # {} => c.failed > 0
    BY DEF Adds
  <2> QED
    BY <2>1
<1>5. d.imported = Cardinality(N(lost2)) /\ N(lost2) \subseteq kept2
  BY <1>1 DEF Adds
<1> QED
  BY <1>3, <1>4, <1>5 DEF Adds

(* One line more.                                                           *)
LEMMA AddsLine ==
  ASSUME NEW u, NEW from \in Nat, NEW c, NEW d, c.cursor \in Nat, c.failed \in Nat, d.failed \in Nat,
         NEW kept, NEW lost, NEW reported, NEW kept2, NEW lost2,
         Adds(u, from, c, kept, lost, reported),
         d.cursor = c.cursor + 1, d.processed = c.processed + 1,
         kept \subseteq kept2,
         LinesTo(u, from, c.cursor) \cap lost2 = LinesTo(u, from, c.cursor) \cap lost,
         <<u, c.cursor + 1>> \notin reported,
         d.failed = (IF <<u, c.cursor + 1>> \in Malformed THEN c.failed + 1 ELSE c.failed),
         \/ /\ <<u, c.cursor + 1>> \in Malformed \cup Excluded \cup lost2
            /\ d.imported = c.imported
         \/ /\ <<u, c.cursor + 1>> \notin Malformed \cup Excluded \cup lost2
            /\ <<u, c.cursor + 1>> \in kept2
            /\ d.imported = c.imported + 1
  PROVE  Adds(u, from, d, kept2, lost2, reported)
<1> DEFINE line == <<u, c.cursor + 1>>
           L == LinesTo(u, from, c.cursor)
           M == LinesTo(u, from, d.cursor)
           N(S, x) == S \ (Malformed \cup Excluded \cup x)
<1>1. IsFiniteSet(L) /\ M = L \cup {line} /\ line \notin L
  <2>1. from <= c.cursor
    BY DEF Adds
  <2>2. /\ IsFiniteSet(LinesTo(u, from, c.cursor))
        /\ LinesTo(u, from, c.cursor + 1) = LinesTo(u, from, c.cursor) \cup {line}
        /\ line \notin LinesTo(u, from, c.cursor)
    BY <2>1, Stretch
  <2> QED
    BY <2>2
<1>2. /\ from <= c.cursor /\ c.processed = c.cursor - from
      /\ c.imported = Cardinality(N(L, lost)) /\ N(L, lost) \subseteq kept
      /\ c.failed >= Cardinality(L \cap Malformed)
      /\ L \cap reported # {} => c.failed > 0
  BY DEF Adds
<1>3. N(L, lost2) = N(L, lost)
  OBVIOUS
<1>4. /\ IsFiniteSet(N(L, lost)) /\ Cardinality(N(L, lost)) \in Nat
      /\ IsFiniteSet(L \cap Malformed) /\ Cardinality(L \cap Malformed) \in Nat
  BY <1>1, FS_Subset, FS_CardinalityType
<1> HIDE DEF L, M, line
<1>5. d.imported = Cardinality(N(M, lost2)) /\ N(M, lost2) \subseteq kept2
  <2>1. CASE line \in Malformed \cup Excluded \cup lost2
    <3>1. N(M, lost2) = N(L, lost) /\ d.imported = c.imported
      BY <1>1, <1>3, <2>1 DEF line
    <3> QED
      BY <1>2, <3>1
  <2>2. CASE line \notin Malformed \cup Excluded \cup lost2
    <3>1. /\ N(M, lost2) = N(L, lost) \cup {line} /\ line \notin N(L, lost)
          /\ d.imported = c.imported + 1 /\ line \in kept2
      BY <1>1, <1>3, <2>2 DEF line
    <3>2. Cardinality(N(L, lost) \cup {line}) = Cardinality(N(L, lost)) + 1
      BY <1>4, <3>1, FS_AddElement
    <3> QED
      BY <1>2, <3>1, <3>2
  <2> QED
    BY <2>1, <2>2
<1>6. d.failed >= Cardinality(M \cap Malformed)
  <2>1. CASE line \in Malformed
    <3>1. M \cap Malformed = (L \cap Malformed) \cup {line} /\ line \notin L \cap Malformed
          /\ d.failed = c.failed + 1
      BY <1>1, <2>1 DEF line
    <3>2. Cardinality((L \cap Malformed) \cup {line}) = Cardinality(L \cap Malformed) + 1
      BY <1>4, <3>1, FS_AddElement
    <3>3. c.failed + 1 >= Cardinality(L \cap Malformed) + 1
      BY <1>2, <1>4
    <3> QED
      BY <3>1, <3>2, <3>3
  <2>2. CASE line \notin Malformed
    <3>1. M \cap Malformed = L \cap Malformed /\ d.failed = c.failed
      BY <1>1, <2>2 DEF line
    <3> QED
      BY <1>2, <3>1
  <2> QED
    BY <2>1, <2>2
<1>7. M \cap reported # {} => d.failed > 0
  <2>1. M \cap reported = L \cap reported
    BY <1>1 DEF line
  <2>2. d.failed >= c.failed
    OBVIOUS
  <2> QED
    BY <1>2, <2>1, <2>2
<1>8. from <= d.cursor /\ d.processed = d.cursor - from
  BY <1>2
<1> QED
  BY <1>5, <1>6, <1>7, <1>8 DEF Adds, M

-----------------------------------------------------------------------------
(* Rows                                                                     *)

(* A unit of the manifest has a row, any other has none.                    *)
LEMMA Rows ==
  ASSUME TypeOK, NEW u \in Unit
  PROVE  /\ u \in Units(UnitStatus) <=> unit[u] \in Row
         /\ u \notin Units(UnitStatus) => unit[u] = NoRow
         /\ unit[u] \in Row =>
              /\ unit[u].status \in UnitStatus
              /\ unit[u].before \in Count /\ unit[u].cursor \in Count
              /\ unit[u].before \in Nat /\ unit[u].cursor \in Nat
              /\ unit[u].processed \in Nat /\ unit[u].imported \in Nat /\ unit[u].failed \in Nat
<1>1. unit[u] \in Row \cup {NoRow}
  BY DEF TypeOK
<1>2. unit[u] \in Row => unit[u].status \in UnitStatus /\ u \in Units(UnitStatus)
  BY DEF Row, Units
<1>3. NoRow.status \notin UnitStatus
  BY DEF NoRow, UnitStatus, Done
<1>4. unit[u] \notin Row => unit[u] = NoRow /\ u \notin Units(UnitStatus)
  BY <1>1, <1>3 DEF Units
<1>5. Count \subseteq Nat
  BY ImportLines DEF Count
<1> QED
  BY <1>2, <1>4, <1>5 DEF Row

LEMMA Runners ==
  ASSUME NEW r \in Runner
  PROVE  /\ r.unit \in Unit /\ r.to \in Count /\ r.cursor \in Count
         /\ r.to \in Nat /\ r.cursor \in Nat /\ r.unsaved \in Nat
         /\ r.processed \in Nat /\ r.imported \in Nat /\ r.failed \in Nat
  BY ImportLines DEF Runner, Count

LEMMA Offsets ==
  ASSUME TypeOK, NEW u \in Unit
  PROVE  offset[u] \in Nat /\ size[u] \in Nat
  BY ImportLines DEF TypeOK, Count

(* The row a runner leaves.                                                 *)
LEMMA SavedRow ==
  ASSUME TypeOK, NEW r \in Runner, r.unit \in Units(UnitStatus), NEW s \in UnitStatus
  PROVE  /\ Saved(r, s) \in Row
         /\ Saved(r, s).status = s
         /\ Saved(r, s).before = unit[r.unit].before
         /\ Saved(r, s).cursor = r.cursor
         /\ Saved(r, s).processed = r.processed
         /\ Saved(r, s).imported = r.imported
         /\ Saved(r, s).failed >= r.failed
         /\ s = "failed" => Saved(r, s).failed > 0
<1>1. r.unit \in Unit /\ r.cursor \in Count
      /\ r.processed \in Nat /\ r.imported \in Nat /\ r.failed \in Nat
  BY Runners
<1>2. unit[r.unit] \in Row
  BY <1>1, Rows
<1> DEFINE f == IF s = "failed" THEN AtLeastOne(r.failed) ELSE r.failed
<1>3. f \in Nat /\ f >= r.failed /\ (s = "failed" => f > 0)
  BY <1>1 DEF AtLeastOne
<1>4. Saved(r, s) = [unit[r.unit] EXCEPT !.status = s, !.cursor = r.cursor,
                       !.processed = r.processed, !.imported = r.imported, !.failed = f]
  BY DEF Saved
<1> HIDE DEF f
<1> QED
  BY <1>1, <1>2, <1>3, <1>4 DEF Row

(* One row is written.                                                      *)
LEMMA RowWritten ==
  ASSUME TypeOK, NEW x \in Unit, NEW row \in Row, unit' = [unit EXCEPT ![x] = row]
  PROVE  /\ unit' \in [Unit -> Row \cup {NoRow}]
         /\ unit'[x] = row
         /\ \A u \in Unit \ {x} : unit'[u] = unit[u]
         /\ x \in Units(UnitStatus)'
         /\ \A u \in Unit \ {x} : u \in Units(UnitStatus)' => u \in Units(UnitStatus)
<1>1. unit \in [Unit -> Row \cup {NoRow}]
  BY DEF TypeOK
<1>2. /\ unit' \in [Unit -> Row \cup {NoRow}] /\ unit'[x] = row
      /\ \A u \in Unit \ {x} : unit'[u] = unit[u]
  BY <1>1
<1>3. row.status \in UnitStatus
  BY DEF Row
<1> QED
  BY <1>2, <1>3 DEF Units

(* The rows of the files that a step leaves alone stay true.                *)
LEMMA RowFrame ==
  ASSUME TypeOK, NEW u \in Unit, u \in Units(UnitStatus), RowInv(u),
         unit'[u] = unit[u], offset'[u] = offset[u], stored \subseteq stored',
         \A l \in Nat : <<u, l>> \in thrown' <=> <<u, l>> \in thrown,
         \A l \in Nat : <<u, l>> \in grouped' <=> <<u, l>> \in grouped
  PROVE  RowInv(u)'
<1>1. /\ unit[u].before \in Nat /\ unit[u].cursor \in Nat /\ unit[u].failed \in Nat
  BY Rows
<1> DEFINE L == LinesTo(u, unit[u].before, unit[u].cursor)
<1>2. \A line \in L : \E l \in Nat : line = <<u, l>>
  BY <1>1 DEF LinesTo
<1>3. L \cap thrown' = L \cap thrown /\ L \cap grouped' \subseteq grouped
  BY <1>2
<1>4. Adds(u, unit[u].before, unit[u], stored, thrown, grouped)
  BY DEF RowInv
<1>5. unit[u].failed >= unit[u].failed
  BY <1>1
<1> HIDE DEF L
<1>6. Adds(u, unit[u].before, unit[u], stored', thrown', grouped')
  BY <1>1, <1>3, <1>4, <1>5, AddsFrame DEF L
<1>7. Adds(u, unit[u].before, unit[u], stored, thrown, grouped)'
  BY <1>6
<1> QED
  BY <1>7 DEF RowInv

(* Nothing of the ledger changes; a file may grow.                          *)
LEMMA LedgerFrame ==
  ASSUME UnitsInv, UNCHANGED ledger,
         size' \in [Unit -> Count], \A u \in Unit : size'[u] >= size[u]
  PROVE  /\ LinesInv'
         /\ \A u \in Units(UnitStatus)' : RowInv(u)'
<1>1. /\ stored' = stored /\ grouped' = grouped /\ thrown' = thrown
      /\ offset' = offset /\ unit' = unit
  BY DEF ledger
<1>2. TypeOK /\ LinesInv
  BY DEF UnitsInv
<1>3. ASSUME NEW u \in Unit PROVE offset[u] <= size'[u]
  <2>1. offset[u] \in Nat /\ size[u] \in Nat /\ offset[u] <= size[u]
    BY <1>2, Offsets DEF LinesInv
  <2>2. size'[u] \in Nat
    BY ImportLines DEF Count
  <2> QED
    BY <2>1, <2>2
<1>4. LinesInv'
  BY <1>1, <1>2, <1>3 DEF LinesInv
<1>5. ASSUME NEW u \in Units(UnitStatus)' PROVE RowInv(u)'
  <2>1. u \in Unit /\ u \in Units(UnitStatus)
    BY <1>1 DEF Units
  <2>2. RowInv(u)
    BY <2>1 DEF UnitsInv
  <2> QED
    BY <1>1, <1>2, <2>1, <2>2, RowFrame
<1> QED
  BY <1>4, <1>5

LEMMA SpendTyped ==
  ASSUME TypeOK
  PROVE  /\ Spend("jobs", MaxJobs) => spent' \in [jobs : 0..MaxJobs, retries : 0..MaxRetries, crashes : 0..MaxCrashes]
         /\ Spend("retries", MaxRetries) => spent' \in [jobs : 0..MaxJobs, retries : 0..MaxRetries, crashes : 0..MaxCrashes]
         /\ Spend("crashes", MaxCrashes) => spent' \in [jobs : 0..MaxJobs, retries : 0..MaxRetries, crashes : 0..MaxCrashes]
<1>1. spent \in [jobs : 0..MaxJobs, retries : 0..MaxRetries, crashes : 0..MaxCrashes]
  BY DEF TypeOK
<1> QED
  BY <1>1, ImportBounds DEF Spend

LEMMA ReceiptKept ==
  ASSUME CleanReceipt, job' # "succeeded" \/ UNCHANGED <<job, unit, grouped>>
  PROVE  CleanReceipt'
  BY DEF CleanReceipt, Units, Covered

-----------------------------------------------------------------------------
(* Steps that leave the ledger alone                                        *)

(* A worker that ends keeps nothing in hand.                                *)
LEMMA IdleStep ==
  ASSUME UnitsInv, pc' \notin AtWork, todo' = {}
  PROVE  VisitInv' /\ RunnerInv'
<1>1. pc' \notin Visiting /\ pc' \notin InHand /\ pc' \notin Reading
      /\ pc' \notin {"parse", "records", "caught", "stat"}
  BY DEF AtWork, Visiting, InHand, Reading
<1> QED
  BY <1>1 DEF VisitInv, RunnerInv

LEMMA AppendStep ==
  ASSUME UnitsInv, NEW u \in Unit, AppendLine(u)
  PROVE  UnitsInv'
<1>1. TypeOK /\ LinesInv /\ VisitInv /\ RunnerInv /\ CleanReceipt
  BY DEF UnitsInv
<1>2. /\ size[u] < MaxLines /\ size' = [size EXCEPT ![u] = @ + 1]
      /\ UNCHANGED <<ledger, job, pc, todo, at, spent>>
  BY DEF AppendLine, worker
<1>3. /\ stored' = stored /\ grouped' = grouped /\ thrown' = thrown
      /\ offset' = offset /\ unit' = unit
  BY <1>2 DEF ledger
<1>4. /\ size' \in [Unit -> Count]
      /\ \A v \in Unit : size'[v] >= size[v] /\ size'[v] \in Nat /\ size[v] \in Nat
  BY <1>1, <1>2, ImportLines DEF TypeOK, Count
<1>5. TypeOK'
  BY <1>1, <1>2, <1>3, <1>4 DEF TypeOK
<1>6. LinesInv' /\ \A v \in Units(UnitStatus)' : RowInv(v)'
  BY <1>2, <1>4, LedgerFrame
<1>7. VisitInv'
  BY <1>1, <1>2, <1>3 DEF VisitInv, Units
<1>8. RunnerInv'
  <2>1. pc \in Reading => at.to <= size'[at.unit]
    <3> SUFFICES ASSUME pc \in Reading PROVE at.to <= size'[at.unit]
      OBVIOUS
    <3>1. at \in Runner /\ at.to <= size[at.unit]
      BY <1>1 DEF VisitInv, RunnerInv, InHand
    <3>2. at.unit \in Unit /\ at.to \in Nat
      BY <3>1, Runners
    <3>3. size'[at.unit] >= size[at.unit] /\ size'[at.unit] \in Nat /\ size[at.unit] \in Nat
      BY <1>4, <3>2
    <3> QED
      BY <3>1, <3>2, <3>3
  <2> QED
    BY <1>1, <1>2, <1>3, <2>1 DEF RunnerInv
<1>9. CleanReceipt'
  BY <1>1, <1>2, <1>3, ReceiptKept
<1> QED
  BY <1>5, <1>6, <1>7, <1>8, <1>9 DEF UnitsInv

(* The job row changes, or the worker moves between two units: what such    *)
(* a step owes to the invariant.                                            *)
LEMMA QuietStep ==
  ASSUME UnitsInv, UNCHANGED <<size, ledger>>,
         job' \in Terminal \cup {"absent", "queued", "running", "cancelling"},
         pc' \in {"idle", "manifest", "units", "parse", "records", "caught", "stat", "progress", "down"},
         at' \in Runner \cup {NoRunner}, todo' \subseteq Unit,
         spent' \in [jobs : 0..MaxJobs, retries : 0..MaxRetries, crashes : 0..MaxCrashes],
         VisitInv', RunnerInv', CleanReceipt'
  PROVE  UnitsInv'
<1>1. TypeOK
  BY DEF UnitsInv
<1>2. /\ stored' = stored /\ grouped' = grouped /\ thrown' = thrown
      /\ offset' = offset /\ unit' = unit /\ size' = size
  BY DEF ledger
<1>3. TypeOK'
  BY <1>1, <1>2 DEF TypeOK
<1>4. size' \in [Unit -> Count] /\ \A u \in Unit : size'[u] >= size[u]
  <2>1. ASSUME NEW u \in Unit PROVE size'[u] >= size[u]
    <3>1. size[u] \in Nat
      BY <1>1, Offsets
    <3> QED
      BY <1>2, <3>1
  <2> QED
    BY <1>1, <1>2, <2>1 DEF TypeOK
<1>5. LinesInv' /\ \A u \in Units(UnitStatus)' : RowInv(u)'
  BY <1>4, LedgerFrame
<1> QED
  BY <1>3, <1>5 DEF UnitsInv

LEMMA RequestSteps ==
  ASSUME UnitsInv, RetryJob \/ CancelJob \/ StartWorker
  PROVE  UnitsInv'
<1>1. TypeOK /\ VisitInv /\ RunnerInv /\ CleanReceipt
  BY DEF UnitsInv
<1>2. /\ UNCHANGED <<size, ledger>> /\ todo' = todo /\ at' = at
      /\ stored' = stored /\ grouped' = grouped /\ thrown' = thrown
      /\ offset' = offset /\ unit' = unit /\ size' = size
  BY DEF RetryJob, CancelJob, StartWorker, ledger, worker
<1>3. job' \in {"queued", "running", "cancelled", "cancelling"}
  BY DEF RetryJob, CancelJob, StartWorker
<1>4. spent' \in [jobs : 0..MaxJobs, retries : 0..MaxRetries, crashes : 0..MaxCrashes]
  BY <1>1, SpendTyped DEF RetryJob, CancelJob, StartWorker, TypeOK
<1>5. pc' = pc \/ (pc = "idle" /\ pc' = "manifest" /\ job' = "running")
  BY DEF RetryJob, CancelJob, StartWorker, worker
<1>6. pc \in AtWork => job' \in {"running", "cancelling"}
  <2>1. pc \in AtWork => pc # "idle" /\ job \in {"running", "cancelling"}
    BY <1>1 DEF VisitInv, AtWork, Visiting, InHand, Reading
  <2> QED
    BY <2>1 DEF RetryJob, CancelJob, StartWorker
<1>7. /\ pc' \in Visiting <=> pc \in Visiting
      /\ pc' \in InHand <=> pc \in InHand
      /\ pc' \in Reading <=> pc \in Reading
  BY <1>5 DEF Visiting, InHand, Reading
<1>8. VisitInv'
  <2>1. pc' \in AtWork => job' \in {"running", "cancelling"}
    BY <1>5, <1>6 
  <2> QED
    BY <1>1, <1>2, <1>7, <2>1 DEF VisitInv, Units
<1>9. RunnerInv'
  <2>1. \A p \in {"parse", "records", "caught", "stat"} : pc' = p => pc = p
    BY <1>5
  <2>2. /\ pc' \in {"parse", "records"} => pc \in {"parse", "records"}
        /\ pc' = "parse" => pc = "parse"
        /\ pc' = "caught" => pc = "caught"
        /\ pc' = "stat" => pc = "stat"
    BY <2>1
  <2> QED
    BY <1>1, <1>2, <1>7, <2>2 DEF RunnerInv
<1>10. CleanReceipt'
  BY <1>1, <1>3, ReceiptKept
<1>11. /\ job' \in Terminal \cup {"absent", "queued", "running", "cancelling"}
       /\ pc' \in {"idle", "manifest", "units", "parse", "records", "caught", "stat", "progress", "down"}
       /\ at' \in Runner \cup {NoRunner} /\ todo' \subseteq Unit
  BY <1>1, <1>2, <1>3, <1>5 DEF TypeOK, Terminal
<1> QED
  BY <1>2, <1>4, <1>8, <1>9, <1>10, <1>11, QuietStep

(* The worker ends with a verdict that is no clean receipt.                 *)
LEMMA EndStep ==
  ASSUME UnitsInv, UNCHANGED <<size, ledger>>,
         NEW verdict \in Terminal, EndJob(verdict),
         spent' = spent, CleanReceipt'
  PROVE  UnitsInv'
<1>1. TypeOK /\ VisitInv
  BY DEF UnitsInv
<1>2. /\ job' \in Terminal /\ pc' = "idle" /\ todo' = {} /\ at' = NoRunner
  BY DEF EndJob, Terminal
<1>3. pc' \notin AtWork
  BY <1>2 DEF AtWork, Visiting, InHand, Reading
<1>4. VisitInv' /\ RunnerInv'
  BY <1>2, <1>3, IdleStep
<1>5. spent' \in [jobs : 0..MaxJobs, retries : 0..MaxRetries, crashes : 0..MaxCrashes]
  BY <1>1 DEF TypeOK
<1> QED
  BY <1>2, <1>4, <1>5, QuietStep

LEMMA AbortStep ==
  ASSUME UnitsInv, Abort
  PROVE  UnitsInv'
<1>1. /\ EndJob("cancelled") /\ UNCHANGED <<size, ledger, spent>> /\ job' = "cancelled"
  BY DEF Abort, Aborting, EndJob
<1>2. CleanReceipt'
  BY <1>1, ReceiptKept DEF UnitsInv
<1>3. "cancelled" \in Terminal
  BY DEF Terminal
<1> QED
  BY <1>1, <1>2, <1>3, EndStep

LEMMA ReportStep ==
  ASSUME UnitsInv, ReportProgress
  PROVE  UnitsInv'
<1>1. CASE Abort
  BY <1>1, AbortStep
<1>2. CASE ~Abort
  <2>1. /\ pc = "progress" /\ pc' = "units" /\ at' = NoRunner
        /\ UNCHANGED <<size, ledger>> /\ job' = job /\ todo' = todo /\ spent' = spent
        /\ unit' = unit /\ grouped' = grouped
    BY <1>2 DEF ReportProgress, ledger
  <2>2. TypeOK /\ VisitInv /\ CleanReceipt
    BY DEF UnitsInv
  <2>3. VisitInv'
    <3>1. pc \in Visiting /\ pc \in AtWork /\ pc \notin Reading /\ pc' \notin InHand
          /\ pc' \in Visiting
      BY <2>1 DEF AtWork, Visiting, InHand, Reading
    <3> QED
      BY <2>1, <2>2, <3>1 DEF VisitInv, Units
  <2>4. RunnerInv'
    BY <2>1 DEF RunnerInv, Reading
  <2>5. CleanReceipt'
    BY <2>1, <2>2, ReceiptKept
  <2> QED
    BY <2>1, <2>2, <2>3, <2>4, <2>5, QuietStep DEF TypeOK
<1> QED
  BY <1>1, <1>2

LEMMA CrashStep ==
  ASSUME UnitsInv, Crash
  PROVE  UnitsInv'
<1>1. /\ pc' = "down" /\ todo' = {} /\ at' = NoRunner /\ job' = job
      /\ UNCHANGED <<size, ledger>> /\ unit' = unit /\ grouped' = grouped
      /\ Spend("crashes", MaxCrashes)
  BY DEF Crash, ledger
<1>2. TypeOK /\ CleanReceipt
  BY DEF UnitsInv
<1>3. pc' \notin AtWork
  BY <1>1 DEF AtWork, Visiting, InHand, Reading
<1>4. VisitInv' /\ RunnerInv'
  BY <1>1, <1>3, IdleStep
<1>5. CleanReceipt'
  BY <1>1, <1>2, ReceiptKept
<1>6. spent' \in [jobs : 0..MaxJobs, retries : 0..MaxRetries, crashes : 0..MaxCrashes]
  BY <1>1, <1>2, SpendTyped
<1> QED
  BY <1>1, <1>2, <1>4, <1>5, <1>6, QuietStep DEF TypeOK

(* The receipt is clean only when every unit was read and nothing failed.   *)
LEMMA FinishJobStep ==
  ASSUME UnitsInv, FinishJob
  PROVE  UnitsInv'
<1>1. PICK anomaly \in BOOLEAN : EndJob(Verdict(anomaly))
  BY DEF FinishJob
<1>2. /\ pc = "units" /\ todo = {} /\ UNCHANGED <<size, ledger>> /\ spent' = spent
      /\ unit' = unit /\ grouped' = grouped
  BY DEF FinishJob, ledger
<1>3. TypeOK /\ VisitInv
  BY DEF UnitsInv
<1>4. Verdict(anomaly) \in Terminal
  BY DEF Verdict, Terminal, Done
<1>5. CleanReceipt'
  <2> SUFFICES ASSUME job' = "succeeded", NEW u \in Units(UnitStatus)
               PROVE  /\ unit[u].status \in {"succeeded", "skipped"}
                      /\ unit[u].failed = 0
                      /\ Covered(u) \cap (Malformed \cup grouped) = {}
    BY <1>2 DEF CleanReceipt, Units, Covered
  <2>1. Verdict(anomaly) = "succeeded"
    BY <1>1 DEF EndJob
  <2>2. /\ Units({"cancelled"}) = {} /\ Units({"succeeded_with_issues"}) = {}
        /\ \A v \in Units(UnitStatus) : ~(unit[v].failed > 0)
    BY <2>1 DEF Verdict, Accounted
  <2>3. u \in Unit /\ unit[u].status \in UnitStatus
    BY DEF Units
  <2>4. unit[u].before \in Nat /\ unit[u].cursor \in Nat /\ unit[u].failed \in Nat
    BY <1>3, <2>3, Rows
  <2>5. unit[u].failed = 0
    BY <2>2, <2>4
  <2>6. RowInv(u)
    BY DEF UnitsInv
  <2>7. unit[u].status # "failed"
    BY <2>5, <2>6 DEF RowInv
  <2>8. unit[u].status # "cancelled" /\ unit[u].status # "succeeded_with_issues"
    BY <2>2, <2>3 DEF Units
  <2>9. unit[u].status \notin {"queued", "running"}
    <3>1. pc \in Visiting /\ pc \notin Reading
      BY <1>2 DEF Visiting, Reading
    <3> QED
      BY <1>2, <1>3, <2>3, <3>1 DEF VisitInv, Units
  <2>10. unit[u].status \in {"succeeded", "skipped"}
    BY <2>3, <2>7, <2>8, <2>9 DEF UnitStatus, Done
  <2>11. Adds(u, unit[u].before, unit[u], stored, thrown, grouped)
    BY <2>6 DEF RowInv
  <2> DEFINE L == LinesTo(u, unit[u].before, unit[u].cursor)
  <2>12. IsFiniteSet(L)
    BY <2>4, <2>11, Stretch DEF Adds
  <2>13. L \cap Malformed = {}
    <3>1. unit[u].failed >= Cardinality(L \cap Malformed)
      BY <2>11 DEF Adds
    <3> HIDE DEF L
    <3>2. IsFiniteSet(L \cap Malformed) /\ Cardinality(L \cap Malformed) \in Nat
      BY <2>12, FS_Subset, FS_CardinalityType
    <3>3. Cardinality(L \cap Malformed) = 0
      BY <2>5, <3>1, <3>2
    <3> QED
      BY <3>2, <3>3, FS_EmptySet
  <2>14. L \cap grouped = {}
    BY <2>5, <2>11 DEF Adds
  <2>15. Covered(u) = L
    BY DEF Covered, LinesTo
  <2> QED
    BY <2>5, <2>10, <2>13, <2>14, <2>15
<1> QED
  BY <1>1, <1>2, <1>4, <1>5, EndStep

-----------------------------------------------------------------------------
(* Steps that lay out or put back the rows of a job                         *)

LEMMA LinesKept ==
  ASSUME LinesInv, UNCHANGED <<size, grouped, thrown, offset>>
  PROVE  LinesInv'
  BY DEF LinesInv

LEMMA QueueStep ==
  ASSUME UnitsInv, QueueJob
  PROVE  UnitsInv'
<1>1. TypeOK /\ LinesInv /\ VisitInv
  BY DEF UnitsInv
<1>2. /\ pc = "idle" /\ Spend("jobs", MaxJobs) /\ job' = "queued"
      /\ unit' = [u \in Unit |-> NoRow]
      /\ size' = size /\ stored' = stored /\ grouped' = grouped /\ thrown' = thrown
      /\ offset' = offset /\ pc' = pc /\ todo' = todo /\ at' = at
  BY DEF QueueJob, worker
<1>3. spent' \in [jobs : 0..MaxJobs, retries : 0..MaxRetries, crashes : 0..MaxCrashes]
  BY <1>1, <1>2, SpendTyped
<1>4. TypeOK'
  BY <1>1, <1>2, <1>3 DEF TypeOK
<1>5. LinesInv'
  BY <1>1, <1>2, LinesKept
<1>6. pc' \notin AtWork /\ pc \notin Visiting
  BY <1>2 DEF AtWork, Visiting, InHand, Reading
<1>7. VisitInv' /\ RunnerInv'
  BY <1>1, <1>2, <1>6, IdleStep DEF VisitInv
<1>8. Units(UnitStatus)' = {}
  BY <1>2 DEF Units, NoRow, UnitStatus, Done
<1>9. CleanReceipt'
  BY <1>2, ReceiptKept DEF UnitsInv
<1> QED
  BY <1>4, <1>5, <1>7, <1>8, <1>9 DEF UnitsInv

(* A planned row starts at the durable cursor of its file.                  *)
LEMMA ManifestRows ==
  ASSUME UnitsInv, NEW planned \in SUBSET Unit, NEW deferred \in SUBSET Unit,
         unit' = Manifest(planned, deferred),
         UNCHANGED <<size, stored, grouped, thrown, offset>>
  PROVE  /\ unit' \in [Unit -> Row \cup {NoRow}]
         /\ \A u \in Units(UnitStatus)' : RowInv(u)'
<1>1. TypeOK
  BY DEF UnitsInv
<1>2. ASSUME NEW u \in Unit, NEW s \in {"queued", "skipped"}
      PROVE  /\ PlannedRow(u, s) \in Row
             /\ PlannedRow(u, s).status = s /\ PlannedRow(u, s).failed = 0
             /\ PlannedRow(u, s).before = offset[u] /\ PlannedRow(u, s).cursor = offset[u]
             /\ PlannedRow(u, s).processed = 0 /\ PlannedRow(u, s).imported = 0
  <2>1. offset[u] \in Count
    BY <1>1 DEF TypeOK
  <2> QED
    BY <2>1 DEF PlannedRow, Row, UnitStatus
<1>3. ASSUME NEW u \in Unit
      PROVE  unit'[u] = NoRow \/ \E s \in {"queued", "skipped"} : unit'[u] = PlannedRow(u, s)
  BY DEF Manifest
<1>4. unit' \in [Unit -> Row \cup {NoRow}]
  <2>1. \A u \in Unit : unit'[u] \in Row \cup {NoRow}
    BY <1>2, <1>3
  <2> QED
    BY <2>1 DEF Manifest
<1>5. ASSUME NEW u \in Units(UnitStatus)' PROVE RowInv(u)'
  <2>1. u \in Unit /\ unit'[u].status \in UnitStatus
    BY DEF Units
  <2>2. unit'[u] # NoRow
    BY <2>1 DEF NoRow, UnitStatus, Done
  <2>3. PICK s \in {"queued", "skipped"} : unit'[u] = PlannedRow(u, s)
    BY <1>3, <2>1, <2>2
  <2>4. /\ unit'[u].status = s /\ unit'[u].failed = 0
        /\ unit'[u].before = offset[u] /\ unit'[u].cursor = offset[u]
        /\ unit'[u].processed = 0 /\ unit'[u].imported = 0
    BY <1>2, <2>1, <2>3
  <2>5. offset[u] \in Nat /\ 0 \in Nat
    BY <1>1, <2>1, Offsets
  <2>6. Adds(u, offset[u], unit'[u], stored', thrown', grouped')
    BY <2>4, <2>5, AddsNothing
  <2>7. Adds(u, unit[u].before, unit[u], stored, thrown, grouped)'
    BY <2>4, <2>6
  <2>8. s \notin Done /\ s # "failed"
    BY DEF Done
  <2> QED
    BY <2>4, <2>5, <2>7, <2>8 DEF RowInv
<1> QED
  BY <1>4, <1>5

LEMMA PlanStep ==
  ASSUME UnitsInv, PlanUnits
  PROVE  UnitsInv'
<1>1. CASE Abort
  BY <1>1, AbortStep
<1>2. CASE ~Abort
  <2>1. TypeOK /\ LinesInv /\ VisitInv
    BY DEF UnitsInv
  <2>2. /\ pc = "manifest"
        /\ size' = size /\ stored' = stored /\ grouped' = grouped /\ thrown' = thrown
        /\ offset' = offset /\ spent' = spent
        /\ (\E deferred \in SUBSET Unit : unit' = Manifest(Unit, deferred)) \/ unit' = unit
    BY <1>2 DEF PlanUnits
  <2>3. /\ unit' \in [Unit -> Row \cup {NoRow}]
        /\ \A u \in Units(UnitStatus)' : RowInv(u)'
    <3>1. CASE \E deferred \in SUBSET Unit : unit' = Manifest(Unit, deferred)
      BY <2>2, <3>1, ManifestRows
    <3>2. CASE unit' = unit
      <4>1. UNCHANGED ledger
        BY <2>2, <3>2 DEF ledger
      <4>2. size' \in [Unit -> Count] /\ \A u \in Unit : size'[u] >= size[u]
        BY <2>1, <2>2, Offsets DEF TypeOK
      <4>3. \A u \in Units(UnitStatus)' : RowInv(u)'
        BY <4>1, <4>2, LedgerFrame
      <4> QED
        BY <2>1, <3>2, <4>3 DEF TypeOK
    <3> QED
      BY <2>2, <3>1, <3>2
  <2>4. LinesInv'
    BY <2>1, <2>2, LinesKept
  <2>5. job \in {"running", "cancelling"}
    BY <2>1, <2>2 DEF VisitInv, AtWork
  <2>6. CASE Aborting /\ EndJob("cancelled")
    <3>1. job' = "cancelled" /\ pc' = "idle" /\ todo' = {} /\ at' = NoRunner
      BY <2>6 DEF EndJob
    <3>2. pc' \notin AtWork
      BY <3>1 DEF AtWork, Visiting, InHand, Reading
    <3>3. VisitInv' /\ RunnerInv'
      BY <3>1, <3>2, IdleStep
    <3>4. CleanReceipt'
      BY <3>1, ReceiptKept DEF UnitsInv
    <3>5. TypeOK'
      BY <2>1, <2>2, <2>3, <3>1 DEF TypeOK, Terminal
    <3> QED
      BY <2>3, <2>4, <3>3, <3>4, <3>5 DEF UnitsInv
  <2>7. CASE ~Aborting /\ job' = job /\ at' = at /\ pc' = "units"
             /\ todo' = {u \in Unit : unit'[u].status \in {"queued", "running", "failed"}}
    <3>1. VisitInv'
      <4>1. pc' \in Visiting /\ pc' \notin InHand /\ pc' \in AtWork
        BY <2>7 DEF AtWork, Visiting, InHand, Reading
      <4>2. todo' = Units(Open)'
        BY <2>7 DEF Units, Open
      <4>3. Units({"queued", "running"})' \subseteq todo'
        BY <2>7 DEF Units
      <4> QED
        BY <2>5, <2>7, <4>1, <4>2, <4>3 DEF VisitInv
    <3>2. RunnerInv'
      BY <2>7 DEF RunnerInv, Reading
    <3>3. CleanReceipt'
      BY <2>5, <2>7, ReceiptKept DEF UnitsInv
    <3>4. TypeOK'
      BY <2>1, <2>2, <2>3, <2>7 DEF TypeOK
    <3> QED
      BY <2>3, <2>4, <3>1, <3>2, <3>3, <3>4 DEF UnitsInv
  <2> QED
    BY <1>2, <2>6, <2>7 DEF PlanUnits
<1> QED
  BY <1>1, <1>2

LEMMA DieStep ==
  ASSUME UnitsInv, DieWhilePlanning
  PROVE  UnitsInv'
<1>1. TypeOK /\ LinesInv /\ VisitInv
  BY DEF UnitsInv
<1>2. /\ pc = "manifest" /\ Spend("crashes", MaxCrashes)
      /\ pc' = "down" /\ todo' = {} /\ at' = NoRunner
      /\ size' = size /\ stored' = stored /\ grouped' = grouped /\ thrown' = thrown
      /\ offset' = offset /\ job' = job
  BY DEF DieWhilePlanning
<1>3. PICK planned \in SUBSET Unit \ {Unit}, deferred \in SUBSET Unit :
        unit' = Manifest(planned, deferred)
  BY DEF DieWhilePlanning
<1>4. /\ unit' \in [Unit -> Row \cup {NoRow}]
      /\ \A u \in Units(UnitStatus)' : RowInv(u)'
  BY <1>2, <1>3, ManifestRows
<1>5. LinesInv'
  BY <1>1, <1>2, LinesKept
<1>6. pc' \notin AtWork
  BY <1>2 DEF AtWork, Visiting, InHand, Reading
<1>7. VisitInv' /\ RunnerInv'
  BY <1>2, <1>6, IdleStep
<1>8. job' # "succeeded"
  BY <1>1, <1>2 DEF VisitInv, AtWork
<1>9. CleanReceipt'
  BY <1>8, ReceiptKept DEF UnitsInv
<1>10. spent' \in [jobs : 0..MaxJobs, retries : 0..MaxRetries, crashes : 0..MaxCrashes]
  BY <1>1, <1>2, SpendTyped
<1>11. TypeOK'
  BY <1>1, <1>2, <1>4, <1>10 DEF TypeOK
<1> QED
  BY <1>4, <1>5, <1>7, <1>9, <1>11 DEF UnitsInv

(* A row whose status alone changes, and not from or to done or failed.     *)
LEMMA StatusReset ==
  ASSUME TypeOK, NEW u \in Units(UnitStatus), RowInv(u), NEW s \in UnitStatus,
         unit[u].status \in {"queued", "running"}, s \notin Done, s # "failed",
         unit'[u] = [unit[u] EXCEPT !.status = s],
         UNCHANGED <<stored, grouped, thrown, offset>>
  PROVE  /\ unit'[u] \in Row /\ unit'[u].status = s
         /\ RowInv(u)'
<1>1. u \in Unit /\ unit[u] \in Row
  BY Rows DEF Units
<1>2. /\ unit'[u] \in Row /\ unit'[u].status = s
      /\ unit'[u].before = unit[u].before /\ unit'[u].cursor = unit[u].cursor
      /\ unit'[u].processed = unit[u].processed /\ unit'[u].imported = unit[u].imported
      /\ unit'[u].failed = unit[u].failed
  BY <1>1 DEF Row
<1>3. unit[u].status \notin Done
  BY DEF Done
<1>4. Adds(u, unit[u].before, unit[u], stored, thrown, grouped)'
  BY <1>2 DEF RowInv, Adds
<1> QED
  BY <1>2, <1>3, <1>4 DEF RowInv

LEMMA RecoverStep ==
  ASSUME UnitsInv, Recover
  PROVE  UnitsInv'
<1>1. TypeOK /\ LinesInv /\ VisitInv /\ CleanReceipt
  BY DEF UnitsInv
<1>2. /\ pc = "down" /\ pc' = "idle"
      /\ size' = size /\ stored' = stored /\ grouped' = grouped /\ thrown' = thrown
      /\ offset' = offset /\ todo' = todo /\ at' = at /\ spent' = spent
  BY DEF Recover
<1>3. PICK from \in {{"running"}, {"queued", "running"}}, to \in {"queued", "cancelled"} :
        \/ /\ job' \in {"queued", "cancelled"}
           /\ unit' = [u \in Unit |-> IF unit[u].status \in from
                                      THEN [unit[u] EXCEPT !.status = to] ELSE unit[u]]
        \/ job' = job /\ unit' = unit
  <2>1. {"running"} \in {{"running"}, {"queued", "running"}}
        /\ {"queued", "running"} \in {{"running"}, {"queued", "running"}}
    OBVIOUS
  <2> QED
    BY <2>1 DEF Recover
<1>4. /\ to \in UnitStatus /\ to \notin Done /\ to # "failed" /\ from \subseteq {"queued", "running"}
      /\ from \subseteq UnitStatus
  BY DEF UnitStatus, Done
<1>5. ASSUME NEW u \in Unit
      PROVE  \/ unit'[u] = unit[u]
             \/ /\ unit[u].status \in {"queued", "running"} /\ u \in Units(UnitStatus)
                /\ unit'[u] = [unit[u] EXCEPT !.status = to]
  BY <1>3, <1>4 DEF Units
<1>6. ASSUME NEW u \in Unit
      PROVE  /\ unit'[u] \in Row \cup {NoRow}
             /\ u \in Units(UnitStatus)' => RowInv(u)'
  <2>1. CASE unit'[u] = unit[u]
    <3>1. unit'[u] \in Row \cup {NoRow}
      BY <1>1, <2>1 DEF TypeOK
    <3>2. ASSUME u \in Units(UnitStatus)' PROVE RowInv(u)'
      <4>1. u \in Units(UnitStatus)
        BY <2>1, <3>2 DEF Units
      <4>2. RowInv(u)
        BY <4>1 DEF UnitsInv
      <4> QED
        BY <1>1, <1>2, <2>1, <4>1, <4>2, RowFrame
    <3> QED
      BY <3>1, <3>2
  <2>2. CASE /\ unit[u].status \in {"queued", "running"} /\ u \in Units(UnitStatus)
             /\ unit'[u] = [unit[u] EXCEPT !.status = to]
    <3>1. RowInv(u)
      BY <2>2 DEF UnitsInv
    <3> QED
      BY <1>1, <1>2, <1>4, <2>2, <3>1, StatusReset
  <2> QED
    BY <1>5, <2>1, <2>2
<1>7. unit' \in [Unit -> Row \cup {NoRow}]
  <2>1. unit' = [u \in Unit |-> unit'[u]]
    BY <1>1, <1>3 DEF TypeOK
  <2> QED
    BY <1>6, <2>1
<1>8. \A u \in Units(UnitStatus)' : RowInv(u)'
  BY <1>6 DEF Units
<1>9. LinesInv'
  BY <1>1, <1>2, LinesKept
<1>10. pc' \notin AtWork /\ pc \notin Visiting
  BY <1>2 DEF AtWork, Visiting, InHand, Reading
<1>11. VisitInv' /\ RunnerInv'
  BY <1>1, <1>2, <1>10, IdleStep DEF VisitInv
<1>12. CleanReceipt'
  BY <1>1, <1>2, <1>3, ReceiptKept
<1>13. TypeOK'
  BY <1>1, <1>2, <1>3, <1>7 DEF TypeOK, Terminal
<1> QED
  BY <1>8, <1>9, <1>11, <1>12, <1>13 DEF UnitsInv

-----------------------------------------------------------------------------
(* Steps of the runner                                                      *)

(* What is known of the unit in hand while it is read.                      *)
LEMMA Reads ==
  ASSUME UnitsInv, pc \in Reading
  PROVE  /\ at \in Runner /\ at.unit \in Unit /\ at.unit \in Units(UnitStatus)
         /\ at.unit \in Permitted /\ unit[at.unit].status = "running"
         /\ unit[at.unit] \in Row /\ unit[at.unit].before \in Nat
         /\ Adds(at.unit, unit[at.unit].before, at, stored, thrown, grouped)
         /\ offset[at.unit] \in Nat /\ size[at.unit] \in Nat
         /\ offset[at.unit] <= at.cursor /\ at.cursor <= at.to /\ at.to <= size[at.unit]
         /\ size[at.unit] <= MaxLines
         /\ job \in {"running", "cancelling"}
<1>1. TypeOK /\ VisitInv /\ RunnerInv
  BY DEF UnitsInv
<1>2. pc \in InHand /\ pc \in AtWork
  BY DEF InHand, AtWork, Visiting
<1>3. at \in Runner /\ at.unit \in Unit /\ at.unit \in Units(UnitStatus)
  BY <1>1, <1>2, Runners DEF VisitInv
<1>4. unit[at.unit] \in Row /\ unit[at.unit].before \in Nat
  BY <1>1, <1>3, Rows
<1>5. size[at.unit] <= MaxLines
  BY <1>1, <1>3, ImportLines DEF TypeOK, Count
<1> QED
  BY <1>1, <1>2, <1>3, <1>4, <1>5, Offsets DEF VisitInv, RunnerInv

(* The row of one unit and the cursor of its file are written.              *)
LEMMA WriteStep ==
  ASSUME UnitsInv, NEW x \in Unit, NEW row \in Row,
         NEW T \in SUBSET LinesTo(x, 0, offset'[x]), NEW G \in SUBSET T,
         unit' = [unit EXCEPT ![x] = row],
         size' = size, stored \subseteq stored', thrown' = thrown \cup T,
         grouped' = grouped \cup G \/ grouped' = grouped,
         offset' \in [Unit -> Count],
         \A u \in Unit \ {x} : offset'[u] = offset[u],
         offset[x] <= offset'[x], offset'[x] <= size[x],
         Adds(x, row.before, row, stored', thrown', grouped'),
         row.cursor <= offset'[x],
         row.status \notin Done => row.cursor = offset'[x],
         x \notin Permitted => row.cursor = row.before,
         row.status = "failed" => row.failed > 0
  PROVE  /\ unit' \in [Unit -> Row \cup {NoRow}]
         /\ LinesInv'
         /\ \A u \in Units(UnitStatus)' : RowInv(u)'
<1>1. TypeOK /\ LinesInv
  BY DEF UnitsInv
<1>2. /\ unit' \in [Unit -> Row \cup {NoRow}] /\ unit'[x] = row
      /\ \A u \in Unit \ {x} : unit'[u] = unit[u]
      /\ \A u \in Unit \ {x} : u \in Units(UnitStatus)' => u \in Units(UnitStatus)
  BY <1>1, RowWritten
<1>3. \A line \in T : \E l \in Nat : line = <<x, l>> /\ l <= offset'[x]
  BY ImportLines DEF LinesTo, Count
<1>4. LinesInv'
  <2>1. \A u \in Unit : offset'[u] <= size'[u]
    BY <1>1 DEF LinesInv
  <2>2. ASSUME NEW u \in Unit, NEW l \in Nat, <<u, l>> \in thrown' PROVE l <= offset'[u]
    <3>1. CASE <<u, l>> \in T
      BY <1>3, <3>1
    <3>2. CASE <<u, l>> \in thrown
      <4>1. l <= offset[u] /\ offset[u] \in Nat
        BY <1>1, <3>2, Offsets DEF LinesInv
      <4>2. offset[u] <= offset'[u] /\ offset'[u] \in Nat
        BY <4>1, ImportLines DEF Count
      <4> QED
        BY <4>1, <4>2
    <3> QED
      BY <2>2, <3>1, <3>2
  <2>3. grouped' \subseteq thrown'
    BY <1>1 DEF LinesInv
  <2> QED
    BY <2>1, <2>2, <2>3 DEF LinesInv
<1>5. ASSUME NEW u \in Units(UnitStatus)' PROVE RowInv(u)'
  <2>1. u \in Unit
    BY DEF Units
  <2>2. CASE u = x
    <3>1. Adds(x, unit[x].before, unit[x], stored, thrown, grouped)'
      BY <1>2
    <3> QED
      BY <1>2, <2>2, <3>1 DEF RowInv
  <2>3. CASE u # x
    <3>1. /\ \A l \in Nat : <<u, l>> \in thrown' <=> <<u, l>> \in thrown
          /\ \A l \in Nat : <<u, l>> \in grouped' <=> <<u, l>> \in grouped
      BY <1>3, <2>3
    <3>2. u \in Units(UnitStatus) /\ unit'[u] = unit[u] /\ offset'[u] = offset[u]
      BY <1>2, <2>1, <2>3
    <3>3. RowInv(u)
      BY <3>2 DEF UnitsInv
    <3> QED
      BY <1>1, <2>1, <3>1, <3>2, <3>3, RowFrame
  <2> QED
    BY <2>2, <2>3
<1> QED
  BY <1>2, <1>4, <1>5

(* The same unit stays in hand.                                             *)
LEMMA StaysInHand ==
  ASSUME UnitsInv, pc \in InHand, pc' \in InHand, job' = job, todo' = todo,
         at' \in Runner, at'.unit = at.unit, unit'[at.unit] \in Row,
         \A u \in Unit \ {at.unit} : unit'[u] = unit[u],
         unit'[at.unit].status \in {"queued", "running"} => pc' \in Reading
  PROVE  VisitInv' /\ CleanReceipt'
<1>1. VisitInv /\ CleanReceipt /\ TypeOK
  BY DEF UnitsInv
<1>2. /\ pc \in Visiting /\ pc \in AtWork /\ pc' \in Visiting /\ pc' \in AtWork
      /\ Reading \subseteq InHand
  BY DEF Visiting, AtWork, InHand
<1>3. /\ job \in {"running", "cancelling"} /\ todo \subseteq Units(Open)
      /\ at.unit \notin todo /\ at.unit \in Units(UnitStatus) /\ at.unit \in Unit
      /\ \A u \in Units({"queued", "running"}) : u \in todo \/ (pc \in Reading /\ u = at.unit)
  BY <1>1, <1>2 DEF VisitInv, Units
<1>4. todo' \subseteq Units(Open)'
  BY <1>3 DEF Units
<1>5. at'.unit \in Units(UnitStatus)'
  BY <1>3 DEF Units, Row
<1>6. \A u \in Units({"queued", "running"})' : u \in todo' \/ (pc' \in Reading /\ u = at'.unit)
  BY <1>3 DEF Units
<1>7. VisitInv'
  BY <1>2, <1>3, <1>4, <1>5, <1>6 DEF VisitInv
<1>8. CleanReceipt'
  BY <1>1, <1>3, ReceiptKept
<1> QED
  BY <1>7, <1>8

LEMMA BeginStep ==
  ASSUME UnitsInv, NEW x \in Unit, BeginUnit(x)
  PROVE  UnitsInv'
<1>1. CASE Abort
  BY <1>1, AbortStep
<1>2. CASE ~Abort
  <2>1. /\ pc = "units" /\ x \in todo /\ todo' = todo \ {x} /\ at' = Opened(x)
        /\ size' = size /\ stored' = stored /\ grouped' = grouped /\ thrown' = thrown
        /\ offset' = offset /\ job' = job /\ spent' = spent
        /\ \/ x \in Permitted /\ unit' = [unit EXCEPT ![x].status = "running"] /\ pc' = "parse"
           \/ x \notin Permitted /\ unit' = [unit EXCEPT ![x] = Refused(x)] /\ pc' = "progress"
    BY <1>2 DEF BeginUnit
  <2>2. TypeOK /\ LinesInv /\ VisitInv /\ CleanReceipt
    BY DEF UnitsInv
  <2>3. unit[x].status \in Open /\ unit[x].status \notin Done /\ x \in Units(UnitStatus)
    BY <2>1, <2>2 DEF VisitInv, Units, Open, Done, UnitStatus
  <2>4. /\ unit[x] \in Row /\ unit[x].before \in Nat /\ unit[x].cursor \in Nat
        /\ unit[x].processed \in Nat /\ unit[x].imported \in Nat /\ unit[x].failed \in Nat
        /\ unit[x].cursor \in Count /\ offset[x] \in Nat /\ size[x] \in Nat
        /\ offset[x] <= size[x]
    BY <2>2, <2>3, Rows, Offsets DEF LinesInv
  <2>5. RowInv(x)
    BY <2>3 DEF UnitsInv
  <2>6. /\ Adds(x, unit[x].before, unit[x], stored, thrown, grouped)
        /\ unit[x].cursor = offset[x]
        /\ x \notin Permitted => unit[x].cursor = unit[x].before
    BY <2>3, <2>5 DEF RowInv
  <2> DEFINE row == IF x \in Permitted THEN [unit[x] EXCEPT !.status = "running"] ELSE Refused(x)
  <2>7. /\ row \in Row /\ row.before = unit[x].before /\ row.cursor = unit[x].cursor
        /\ row.imported = unit[x].imported
        /\ row.status \notin Done /\ row.failed \in Nat
        /\ x \in Permitted => /\ row.status = "running"
                              /\ row.processed = unit[x].processed /\ row.failed = unit[x].failed
        /\ x \notin Permitted => row.status = "failed" /\ row.processed = 0 /\ row.failed = 1
    BY <2>4 DEF Row, Refused, UnitStatus, Done
  <2>8. unit' = [unit EXCEPT ![x] = row]
    BY <2>1
  <2> HIDE DEF row
  <2>9. Adds(x, row.before, row, stored, thrown, grouped)
    <3>1. CASE x \in Permitted
      BY <2>6, <2>7, <3>1 DEF Adds
    <3>2. CASE x \notin Permitted
      <4>1. LinesTo(x, unit[x].before, unit[x].before) = {}
        <5>1. unit[x].before <= unit[x].before
          BY <2>4
        <5> QED
          BY <2>4, <5>1, Stretch
      <4>2. unit[x].imported = 0
        BY <2>6, <3>2, <4>1, FS_EmptySet DEF Adds
      <4> QED
        BY <2>4, <2>6, <2>7, <3>2, <4>2, AddsNothing
    <3> QED
      BY <3>1, <3>2
  <2>10. offset' \in [Unit -> Count] /\ offset[x] <= offset'[x]
    BY <2>1, <2>2, <2>4 DEF TypeOK
  <2>11. row.status = "failed" => row.failed > 0
    BY <2>7
  <2>12. {} \in SUBSET LinesTo(x, 0, offset'[x]) /\ {} \in SUBSET {} /\ thrown' = thrown \cup {}
    BY <2>1
  <2>13. Adds(x, row.before, row, stored', thrown', grouped')
    BY <2>1, <2>9
  <2>14. /\ stored \subseteq stored' /\ row.cursor <= offset'[x] /\ offset'[x] <= size[x]
         /\ row.cursor = offset'[x] /\ \A u \in Unit \ {x} : offset'[u] = offset[u]
         /\ x \notin Permitted => row.cursor = row.before
    BY <2>1, <2>4, <2>6, <2>7
  <2>15. /\ unit' \in [Unit -> Row \cup {NoRow}]
         /\ LinesInv' /\ \A u \in Units(UnitStatus)' : RowInv(u)'
    BY <2>1, <2>7, <2>8, <2>10, <2>11, <2>12, <2>13, <2>14, WriteStep
  <2>16. /\ at' \in Runner /\ at'.unit = x /\ at'.to = unit[x].cursor /\ at'.cursor = unit[x].cursor
         /\ at'.unsaved = 0 /\ at'.processed = unit[x].processed /\ at'.imported = unit[x].imported
         /\ at'.failed = unit[x].failed
    BY <2>1, <2>4 DEF Opened, Runner
  <2>17. unit'[x] = row /\ x \in Units(UnitStatus)' /\ \A u \in Unit \ {x} : unit'[u] = unit[u]
    BY <2>2, <2>7, <2>8, RowWritten
  <2>18. TypeOK'
    BY <2>1, <2>2, <2>15, <2>16 DEF TypeOK
  <2>19. VisitInv'
    <3>1. /\ pc \in Visiting /\ pc \in AtWork /\ pc \notin Reading
          /\ pc' \in Visiting /\ pc' \in InHand /\ pc' \in AtWork
          /\ x \in Permitted => pc' \in Reading
      BY <2>1 DEF Visiting, AtWork, InHand, Reading
    <3>2. /\ job \in {"running", "cancelling"} /\ todo \subseteq Units(Open)
          /\ \A u \in Units({"queued", "running"}) : u \in todo
      BY <2>2, <3>1 DEF VisitInv
    <3>3. todo' \subseteq Units(Open)'
      BY <2>1, <2>17, <3>2 DEF Units
    <3>4. \A u \in Units({"queued", "running"})' : u \in todo' \/ (pc' \in Reading /\ u = at'.unit)
      BY <2>1, <2>7, <2>16, <2>17, <3>1, <3>2 DEF Units
    <3> QED
      BY <2>1, <2>16, <2>17, <3>1, <3>2, <3>3, <3>4 DEF VisitInv
  <2>20. RunnerInv'
    <3>1. CASE x \in Permitted
      <4>1. Adds(x, unit'[x].before, at', stored', thrown', grouped')
        BY <2>1, <2>6, <2>7, <2>16, <2>17 DEF Adds
      <4>2. Adds(at.unit, unit[at.unit].before, at, stored, thrown, grouped)'
        BY <2>16, <4>1
      <4>3. pc' = "parse" /\ unit'[x].status = "running"
        BY <2>1, <2>7, <2>17, <3>1
      <4>4. /\ offset'[x] <= at'.cursor /\ at'.cursor <= at'.to /\ at'.to <= size'[x]
            /\ at'.cursor = offset'[x]
        BY <2>1, <2>4, <2>6, <2>16
      <4> QED
        BY <2>16, <3>1, <4>2, <4>3, <4>4 DEF RunnerInv
    <3>2. CASE x \notin Permitted
      BY <2>1, <3>2 DEF RunnerInv, Reading
    <3> QED
      BY <3>1, <3>2
  <2>21. CleanReceipt'
    <3>1. job' # "succeeded"
      BY <2>1, <2>2 DEF VisitInv, AtWork, Visiting
    <3> QED
      BY <2>2, <3>1, ReceiptKept
  <2> QED
    BY <2>15, <2>18, <2>19, <2>20, <2>21 DEF UnitsInv
<1> QED
  BY <1>1, <1>2

(* A checkpoint of the lines the runner has counted.                        *)
LEMMA CheckpointStep ==
  ASSUME UnitsInv, pc \in Reading, NEW r \in Runner, r.unit = at.unit,
         NEW s \in {"running", "failed"}, Checkpoint(r, s),
         NEW T \in SUBSET LinesTo(at.unit, 0, r.cursor),
         size' = size, stored \subseteq stored', thrown' = thrown \cup T, grouped' = grouped,
         Adds(at.unit, unit[at.unit].before, r, stored', thrown', grouped),
         offset[at.unit] <= r.cursor, r.cursor <= size[at.unit]
  PROVE  /\ unit' \in [Unit -> Row \cup {NoRow}] /\ offset' \in [Unit -> Count]
         /\ LinesInv' /\ \A u \in Units(UnitStatus)' : RowInv(u)'
         /\ unit'[at.unit] \in Row /\ unit'[at.unit].status = s
         /\ unit'[at.unit].before = unit[at.unit].before
         /\ \A u \in Unit \ {at.unit} : unit'[u] = unit[u]
         /\ offset'[at.unit] = r.cursor
<1> DEFINE x == at.unit
           row == Saved(r, s)
<1>1. TypeOK
  BY DEF UnitsInv
<1>2. /\ x \in Unit /\ x \in Units(UnitStatus) /\ x \in Permitted /\ unit[x].before \in Nat
  BY Reads
<1>3. r.cursor \in Count /\ r.cursor \in Nat /\ r.failed \in Nat
  BY Runners
<1>4. s \in UnitStatus /\ s \notin Done
  BY DEF UnitStatus, Done
<1>5. /\ row \in Row /\ row.status = s /\ row.before = unit[x].before
      /\ row.cursor = r.cursor /\ row.processed = r.processed /\ row.imported = r.imported
      /\ row.failed >= r.failed /\ (s = "failed" => row.failed > 0)
  BY <1>1, <1>2, <1>4, SavedRow
<1>6. /\ unit' = [unit EXCEPT ![x] = row] /\ offset' = [offset EXCEPT ![x] = r.cursor]
  BY DEF Checkpoint, CursorMoved
<1>7. /\ offset' \in [Unit -> Count] /\ offset'[x] = r.cursor
      /\ \A u \in Unit \ {x} : offset'[u] = offset[u]
  BY <1>1, <1>2, <1>3, <1>6 DEF TypeOK
<1> HIDE DEF row
<1>8. row.failed \in Nat
  BY <1>5 DEF Row
<1>9. Adds(x, row.before, row, stored', thrown', grouped')
  <2>1. Adds(x, unit[x].before, row, stored', thrown', grouped)
    BY <1>2, <1>3, <1>5, <1>8, AddsFrame
  <2> QED
    BY <1>5, <2>1
<1>10. row.cursor <= offset'[x] /\ row.cursor = offset'[x] /\ offset[x] <= offset'[x]
       /\ offset'[x] <= size[x]
  BY <1>3, <1>5, <1>7
<1>11. T \in SUBSET LinesTo(x, 0, offset'[x]) /\ {} \in SUBSET T /\ grouped' = grouped \cup {}
  BY <1>7
<1>12. /\ unit' \in [Unit -> Row \cup {NoRow}]
       /\ LinesInv' /\ \A u \in Units(UnitStatus)' : RowInv(u)'
  BY <1>2, <1>5, <1>6, <1>7, <1>9, <1>10, <1>11, WriteStep
<1>13. unit'[x] = row /\ \A u \in Unit \ {x} : unit'[u] = unit[u]
  BY <1>1, <1>2, <1>5, <1>6, RowWritten
<1> QED
  BY <1>5, <1>7, <1>12, <1>13

(* The runner has counted on, and writes a checkpoint when one is due.      *)
LEMMA SaveStep ==
  ASSUME UnitsInv, pc = "records", NEW r \in Runner, r.unit = at.unit, NEW due \in BOOLEAN,
         SaveWhenDue(r, due), due \/ r.unsaved > 0,
         stored \subseteq stored', stored' \subseteq Line,
         UNCHANGED <<size, grouped, thrown, job, todo, spent>>,
         Adds(at.unit, unit[at.unit].before, r, stored', thrown, grouped),
         offset[at.unit] <= r.cursor, r.cursor <= r.to, r.to = at.to
  PROVE  UnitsInv'
<1> DEFINE x == at.unit
<1>1. TypeOK /\ LinesInv
  BY DEF UnitsInv
<1>2. pc \in Reading /\ pc \in InHand
  BY DEF Reading, InHand
<1>3. /\ x \in Unit /\ x \in Units(UnitStatus) /\ x \in Permitted /\ unit[x] \in Row
      /\ unit[x].status = "running" /\ at.to <= size[x] /\ size[x] \in Nat /\ offset[x] \in Nat
  BY <1>2, Reads
<1>4. r.cursor \in Nat /\ r.to \in Nat /\ r.failed \in Nat /\ r.unsaved \in Nat
  BY Runners
<1>5. r.cursor <= size[x] /\ r.to <= size[x]
  BY <1>3, <1>4
<1>6. CASE ~due
  <2>1. at' = r /\ pc' = "records" /\ unit' = unit /\ offset' = offset
    BY <1>6 DEF SaveWhenDue
  <2>2. LinesInv'
    BY <1>1, <2>1, LinesKept
  <2>3. ASSUME NEW u \in Units(UnitStatus)' PROVE RowInv(u)'
    <3>1. u \in Unit /\ u \in Units(UnitStatus)
      BY <2>1 DEF Units
    <3>2. RowInv(u)
      BY <3>1 DEF UnitsInv
    <3> QED
      BY <1>1, <2>1, <3>1, <3>2, RowFrame
  <2>4. VisitInv' /\ CleanReceipt'
    BY <1>2, <1>3, <2>1, StaysInHand
  <2>5. RunnerInv'
    <3>1. Adds(at.unit, unit[at.unit].before, at, stored, thrown, grouped)'
      BY <2>1
    <3>2. at'.unsaved # 0
      BY <1>4, <1>6, <2>1
    <3> QED
      BY <1>3, <1>5, <2>1, <3>1, <3>2 DEF RunnerInv
  <2>6. TypeOK'
    BY <1>1, <2>1 DEF TypeOK
  <2> QED
    BY <2>2, <2>3, <2>4, <2>5, <2>6 DEF UnitsInv
<1>7. CASE due
  <2> DEFINE s == IF Aborting THEN "failed" ELSE "running"
             q == [r EXCEPT !.unsaved = 0]
  <2>1. /\ Checkpoint(r, s) /\ at' = q
        /\ pc' = IF Aborting THEN "progress" ELSE "records"
    BY <1>7 DEF SaveWhenDue
  <2>2. {} \in SUBSET LinesTo(x, 0, r.cursor) /\ thrown' = thrown \cup {}
    OBVIOUS
  <2>3. s \in {"running", "failed"}
    OBVIOUS
  <2>4. /\ q \in Runner /\ q.unit = x /\ q.cursor = r.cursor /\ q.to = r.to /\ q.unsaved = 0
        /\ q.processed = r.processed /\ q.imported = r.imported /\ q.failed = r.failed
    BY DEF Runner
  <2> HIDE DEF s, q
  <2>5. Adds(x, unit[x].before, r, stored', thrown', grouped)
    OBVIOUS
  <2>6. /\ unit' \in [Unit -> Row \cup {NoRow}] /\ offset' \in [Unit -> Count]
        /\ LinesInv' /\ \A u \in Units(UnitStatus)' : RowInv(u)'
        /\ unit'[x] \in Row /\ unit'[x].status = s /\ unit'[x].before = unit[x].before
        /\ \A u \in Unit \ {x} : unit'[u] = unit[u]
        /\ offset'[x] = r.cursor
    BY <1>2, <1>3, <1>5, <2>1, <2>2, <2>3, <2>5, CheckpointStep
  <2>7. TypeOK'
    BY <1>1, <2>1, <2>4, <2>6 DEF TypeOK
  <2>8. s = "running" => pc' = "records"
    BY <2>1 DEF s
  <2>9. pc' \in {"progress", "records"} /\ (pc' = "records" => s = "running")
    BY <2>1 DEF s
  <2>10. VisitInv' /\ CleanReceipt'
    <3>1. pc' \in InHand /\ (pc' = "records" => pc' \in Reading) /\ s # "queued"
      BY <2>3, <2>9 DEF InHand, Reading
    <3> QED
      BY <1>2, <2>1, <2>4, <2>6, <2>8, <3>1, StaysInHand
  <2>11. RunnerInv'
    <3>1. CASE pc' = "progress"
      BY <3>1 DEF RunnerInv, Reading
    <3>2. CASE pc' = "records"
      <4>1. Adds(x, unit'[x].before, q, stored', thrown', grouped')
        BY <2>4, <2>5, <2>6 DEF Adds
      <4>2. Adds(at.unit, unit[at.unit].before, at, stored, thrown, grouped)'
        BY <2>1, <2>4, <4>1
      <4>3. /\ offset'[x] <= q.cursor /\ q.cursor <= q.to /\ q.to <= size'[x] /\ q.cursor = offset'[x]
        BY <1>3, <1>4, <1>5, <2>4, <2>6
      <4> QED
        BY <1>3, <2>1, <2>4, <2>6, <2>9, <3>2, <4>2, <4>3 DEF RunnerInv
    <3> QED
      BY <2>9, <3>1, <3>2
  <2> QED
    BY <2>6, <2>7, <2>10, <2>11 DEF UnitsInv
<1> QED
  BY <1>6, <1>7

(* The next line is new to the ledger.                                      *)
LEMMA NextLineIsNew ==
  ASSUME UnitsInv, pc = "records", at.cursor < at.to
  PROVE  /\ NextLine \in Line /\ NextLine \notin thrown /\ NextLine \notin grouped
         /\ at.cursor + 1 \in Count /\ at.cursor + 1 <= at.to
         /\ offset[at.unit] <= at.cursor + 1
<1>1. pc \in Reading
  BY DEF Reading
<1>2. /\ at \in Runner /\ at.unit \in Unit /\ offset[at.unit] <= at.cursor /\ offset[at.unit] \in Nat
      /\ at.to <= size[at.unit] /\ size[at.unit] <= MaxLines /\ size[at.unit] \in Nat
  BY <1>1, Reads
<1>3. at.cursor \in Nat /\ at.to \in Nat
  BY <1>2, Runners
<1>4. at.cursor + 1 \in 1..MaxLines
  BY <1>2, <1>3, ImportLines
<1>5. NextLine \notin thrown
  <2>1. NextLine \in thrown => at.cursor + 1 <= offset[at.unit]
    BY <1>2, <1>3 DEF UnitsInv, LinesInv, NextLine
  <2> QED
    BY <1>2, <1>3, <2>1
<1>6. grouped \subseteq thrown
  BY DEF UnitsInv, LinesInv
<1> QED
  BY <1>2, <1>3, <1>4, <1>5, <1>6 DEF Line, NextLine, Count

LEMMA AdvancedRunner ==
  ASSUME at \in Runner, at.cursor + 1 \in Count, NEW i \in {0, 1}, NEW f \in {0, 1}
  PROVE  /\ Advanced(i, f) \in Runner
         /\ Advanced(i, f).unit = at.unit /\ Advanced(i, f).to = at.to
         /\ Advanced(i, f).cursor = at.cursor + 1 /\ Advanced(i, f).processed = at.processed + 1
         /\ Advanced(i, f).unsaved = at.unsaved + 1
         /\ Advanced(i, f).imported = at.imported + i /\ Advanced(i, f).failed = at.failed + f
<1>1. /\ at \in [unit : Unit, to : Count, cursor : Count, unsaved : Nat,
                 processed : Nat, imported : Nat, failed : Nat]
      /\ at.unsaved \in Nat /\ at.processed \in Nat /\ at.imported \in Nat /\ at.failed \in Nat
  BY Runners DEF Runner
<1>2. /\ at.unsaved + 1 \in Nat /\ at.processed + 1 \in Nat
      /\ at.imported + i \in Nat /\ at.failed + f \in Nat
  BY <1>1
<1> QED
  BY <1>1, <1>2 DEF Advanced, Runner

LEMMA ImportStep ==
  ASSUME UnitsInv, ImportLine
  PROVE  UnitsInv'
<1> DEFINE x == at.unit
           i == IF NextLine \in Malformed \cup Excluded THEN 0 ELSE 1
           f == IF NextLine \in Malformed THEN 1 ELSE 0
           r == Advanced(i, f)
<1>1. /\ pc = "records" /\ at.cursor < at.to
      /\ SaveWhenDue(r, r.unsaved >= CheckpointInterval)
      /\ stored' = stored \cup ({NextLine} \ (Malformed \cup Excluded))
      /\ UNCHANGED <<size, grouped, thrown, job, todo, spent>>
  <2> DEFINE q == CASE NextLine \in Malformed -> Advanced(0, 1)
                    [] NextLine \in Excluded -> Advanced(0, 0)
                    [] OTHER -> Advanced(1, 0)
  <2>1. q = r
    BY ImportLines
  <2>2. SaveWhenDue(q, q.unsaved >= CheckpointInterval)
    BY DEF ImportLine
  <2> HIDE DEF q, r
  <2>3. SaveWhenDue(r, r.unsaved >= CheckpointInterval)
    BY <2>1, <2>2
  <2> QED
    BY <2>3 DEF ImportLine
<1>2. pc \in Reading
  BY <1>1 DEF Reading
<1>3. /\ at \in Runner /\ x \in Unit /\ unit[x].before \in Nat /\ at.cursor <= at.to
      /\ Adds(x, unit[x].before, at, stored, thrown, grouped)
  BY <1>2, Reads
<1>4. /\ NextLine \in Line /\ NextLine \notin thrown /\ NextLine \notin grouped
      /\ at.cursor + 1 \in Count /\ at.cursor + 1 <= at.to /\ offset[x] <= at.cursor + 1
  BY <1>1, NextLineIsNew
<1>5. /\ at.cursor \in Nat /\ at.failed \in Nat /\ at.unsaved \in Nat /\ at.imported \in Nat
      /\ at.processed \in Nat
  BY <1>3, Runners
<1>6. i \in {0, 1} /\ f \in {0, 1}
  OBVIOUS
<1>7. /\ r \in Runner /\ r.unit = x /\ r.to = at.to /\ r.cursor = at.cursor + 1
      /\ r.processed = at.processed + 1 /\ r.unsaved = at.unsaved + 1
      /\ r.imported = at.imported + i /\ r.failed = at.failed + f
  BY <1>3, <1>4, <1>6, AdvancedRunner
<1> HIDE DEF r
<1>8. NextLine = <<x, at.cursor + 1>>
  BY DEF NextLine
<1>9. /\ r.failed \in Nat
      /\ r.failed = (IF <<x, at.cursor + 1>> \in Malformed THEN at.failed + 1 ELSE at.failed)
  BY <1>5, <1>7, <1>8
<1>10. \/ /\ <<x, at.cursor + 1>> \in Malformed \cup Excluded \cup thrown
          /\ r.imported = at.imported
       \/ /\ <<x, at.cursor + 1>> \notin Malformed \cup Excluded \cup thrown
          /\ <<x, at.cursor + 1>> \in stored'
          /\ r.imported = at.imported + 1
  BY <1>1, <1>4, <1>5, <1>7, <1>8
<1>11. stored \subseteq stored' /\ stored' \subseteq Line
  BY <1>1, <1>4 DEF UnitsInv, TypeOK
<1>12. Adds(x, unit[x].before, r, stored', thrown, grouped)
  BY <1>3, <1>4, <1>5, <1>7, <1>8, <1>9, <1>10, <1>11, AddsLine
<1>13. r.unsaved > 0 /\ (r.unsaved >= CheckpointInterval) \in BOOLEAN
  BY <1>5, <1>7
<1> DEFINE due == r.unsaved >= CheckpointInterval
<1>14. due \in BOOLEAN /\ SaveWhenDue(r, due)
  BY <1>1, <1>13
<1> HIDE DEF due
<1>15. offset[x] <= r.cursor /\ r.cursor <= r.to
  BY <1>4, <1>7
<1> QED
  BY <1>1, <1>7, <1>11, <1>12, <1>13, <1>14, <1>15, SaveStep

LEMMA ThrowStep ==
  ASSUME UnitsInv, IngestThrows
  PROVE  UnitsInv'
<1> DEFINE x == at.unit
           r == Advanced(0, 0)
<1>1. /\ pc = "records" /\ at.cursor < at.to
      /\ NextLine \notin Malformed \cup Excluded
      /\ thrown' = thrown \cup {NextLine}
      /\ Checkpoint(r, "running")
      /\ UNCHANGED <<size, stored, grouped, spent>>
  BY DEF IngestThrows
<1>2. pc \in Reading /\ pc \in InHand
  BY <1>1 DEF Reading, InHand
<1>3. /\ at \in Runner /\ x \in Unit /\ x \in Permitted /\ x \in Units(UnitStatus)
      /\ unit[x].before \in Nat /\ unit[x].status = "running"
      /\ Adds(x, unit[x].before, at, stored, thrown, grouped)
      /\ at.to <= size[x] /\ size[x] \in Nat
  BY <1>2, Reads
<1>4. /\ NextLine \in Line /\ NextLine \notin thrown /\ NextLine \notin grouped
      /\ at.cursor + 1 \in Count /\ at.cursor + 1 <= at.to /\ offset[x] <= at.cursor + 1
  BY <1>1, NextLineIsNew
<1>5. /\ at.cursor \in Nat /\ at.failed \in Nat /\ at.unsaved \in Nat /\ at.imported \in Nat
      /\ at.processed \in Nat /\ at.to \in Nat
  BY <1>3, Runners
<1>6. /\ r \in Runner /\ r.unit = x /\ r.to = at.to /\ r.cursor = at.cursor + 1
      /\ r.processed = at.processed + 1
      /\ r.imported = at.imported + 0 /\ r.failed = at.failed + 0
  BY <1>3, <1>4, AdvancedRunner
<1> HIDE DEF r
<1>7. NextLine = <<x, at.cursor + 1>>
  BY DEF NextLine
<1>8. r.imported = at.imported /\ r.failed = at.failed /\ r.failed \in Nat
  BY <1>5, <1>6
<1>9. LinesTo(x, unit[x].before, at.cursor) \cap thrown' = LinesTo(x, unit[x].before, at.cursor) \cap thrown
  <2>1. NextLine \notin LinesTo(x, unit[x].before, at.cursor)
    BY <1>3, <1>5, <1>7 DEF LinesTo
  <2> QED
    BY <1>1, <2>1
<1>10. /\ stored \subseteq stored'
       /\ <<x, at.cursor + 1>> \notin grouped
       /\ <<x, at.cursor + 1>> \in Malformed \cup Excluded \cup thrown'
       /\ r.failed = (IF <<x, at.cursor + 1>> \in Malformed THEN at.failed + 1 ELSE at.failed)
  BY <1>1, <1>4, <1>7, <1>8
<1>11. Adds(x, unit[x].before, r, stored', thrown', grouped)
  BY <1>3, <1>5, <1>6, <1>8, <1>9, <1>10, AddsLine
<1>12. /\ {NextLine} \in SUBSET LinesTo(x, 0, r.cursor)
       /\ r.cursor \in Nat /\ offset[x] <= r.cursor /\ r.cursor <= r.to /\ r.cursor <= size[x]
       /\ r.to <= size[x]
  BY <1>3, <1>4, <1>5, <1>6, <1>7 DEF LinesTo
<1>13. /\ unit' \in [Unit -> Row \cup {NoRow}] /\ offset' \in [Unit -> Count]
       /\ LinesInv' /\ \A u \in Units(UnitStatus)' : RowInv(u)'
       /\ unit'[x] \in Row /\ unit'[x].status = "running" /\ unit'[x].before = unit[x].before
       /\ \A u \in Unit \ {x} : unit'[u] = unit[u]
       /\ offset'[x] = r.cursor
  BY <1>1, <1>2, <1>6, <1>10, <1>11, <1>12, CheckpointStep
<1>14. thrown' \subseteq Line /\ TypeOK
  BY <1>1, <1>4 DEF UnitsInv, TypeOK
<1>15. CASE Aborting /\ EndJob("cancelled")
  <2>1. job' = "cancelled" /\ pc' = "idle" /\ todo' = {} /\ at' = NoRunner
    BY <1>15 DEF EndJob
  <2>2. pc' \notin AtWork
    BY <2>1 DEF AtWork, Visiting, InHand, Reading
  <2>3. VisitInv' /\ RunnerInv'
    BY <2>1, <2>2, IdleStep
  <2>4. CleanReceipt'
    BY <2>1, ReceiptKept DEF UnitsInv
  <2>5. TypeOK'
    BY <1>1, <1>13, <1>14, <2>1 DEF TypeOK, Terminal
  <2> QED
    BY <1>13, <2>3, <2>4, <2>5 DEF UnitsInv
<1>16. CASE pc' = "caught" /\ at' = r /\ job' = job /\ todo' = todo
  <2>1. pc' \in Reading /\ pc' \in InHand
    BY <1>16 DEF Reading, InHand
  <2>2. VisitInv' /\ CleanReceipt'
    BY <1>2, <1>6, <1>13, <1>16, <2>1, StaysInHand
  <2>3. TypeOK'
    BY <1>1, <1>6, <1>13, <1>14, <1>16 DEF TypeOK
  <2>4. RunnerInv'
    <3>1. Adds(at.unit, unit[at.unit].before, at, stored, thrown, grouped)'
      BY <1>1, <1>6, <1>11, <1>13, <1>16
    <3>2. <<x, r.cursor>> \in thrown' /\ offset'[x] <= r.cursor
      BY <1>1, <1>6, <1>7, <1>12, <1>13
    <3> QED
      BY <1>1, <1>3, <1>6, <1>12, <1>13, <1>16, <3>1, <3>2 DEF RunnerInv
  <2> QED
    BY <1>13, <2>2, <2>3, <2>4 DEF UnitsInv
<1> QED
  BY <1>15, <1>16 DEF IngestThrows, r

(* The row of the unit in hand is written with the counts of its runner,    *)
(* and the cursor of the file is where the runner is.                       *)
LEMMA CloseUnit ==
  ASSUME UnitsInv, pc \in Reading, NEW row \in Row, NEW G \in SUBSET {<<at.unit, at.cursor>>},
         unit' = [unit EXCEPT ![at.unit] = row],
         row.status \notin {"queued", "running"},
         row.before = unit[at.unit].before, row.cursor = at.cursor,
         row.processed = at.processed, row.imported = at.imported, row.failed >= at.failed,
         row.status = "failed" \/ G # {} => row.failed > 0,
         offset' \in [Unit -> Count], offset'[at.unit] = at.cursor,
         \A u \in Unit \ {at.unit} : offset'[u] = offset[u],
         G \subseteq thrown, grouped' = grouped \cup G,
         UNCHANGED <<size, stored, thrown, job, todo, at, spent>>,
         pc' \in {"progress", "stat"}, pc' = "stat" => row.status \in Done
  PROVE  UnitsInv'
<1> DEFINE x == at.unit
<1>1. TypeOK
  BY DEF UnitsInv
<1>2. /\ at \in Runner /\ x \in Unit /\ x \in Units(UnitStatus) /\ x \in Permitted
      /\ unit[x].before \in Nat
      /\ Adds(x, unit[x].before, at, stored, thrown, grouped)
      /\ offset[x] \in Nat /\ size[x] \in Nat
      /\ offset[x] <= at.cursor /\ at.cursor <= at.to /\ at.to <= size[x]
  BY Reads
<1>3. at.cursor \in Nat /\ at.to \in Nat /\ at.failed \in Nat
  BY <1>2, Runners
<1>4. row.failed \in Nat
  BY DEF Row
<1>5. LinesTo(x, unit[x].before, at.cursor) \cap grouped' \subseteq grouped \/ row.failed > 0
  OBVIOUS
<1>6. Adds(x, unit[x].before, row, stored', thrown', grouped')
  BY <1>2, <1>3, <1>4, <1>5, AddsFrame
<1>7. Adds(x, row.before, row, stored', thrown', grouped')
  BY <1>6
<1>8. offset'[x] <= size[x] /\ offset[x] <= offset'[x] /\ row.cursor <= offset'[x]
      /\ row.cursor = offset'[x]
  BY <1>2, <1>3
<1>9. /\ unit' \in [Unit -> Row \cup {NoRow}] /\ unit'[x] = row
      /\ \A u \in Unit \ {x} : unit'[u] = unit[u]
  BY <1>1, <1>2, RowWritten
<1>10. LinesInv' /\ \A u \in Units(UnitStatus)' : RowInv(u)'
  <2> DEFINE T == G \cap LinesTo(x, 0, offset'[x])
  <2>1. T = G
    <3>1. ASSUME <<x, at.cursor>> \in thrown PROVE <<x, at.cursor>> \in LinesTo(x, 0, at.cursor)
      <4>1. at.cursor \in 1..MaxLines
        BY <1>1, <3>1 DEF TypeOK, Line
      <4> QED
        BY <1>3, <4>1 DEF LinesTo
    <3> QED
      BY <3>1
  <2>2. T \in SUBSET LinesTo(x, 0, offset'[x]) /\ G \in SUBSET T /\ thrown' = thrown \cup T
    BY <2>1
  <2> HIDE DEF T
  <2> QED
    BY <1>2, <1>7, <1>8, <2>2, WriteStep
<1>11. grouped' \subseteq Line
  BY <1>1 DEF TypeOK
<1>12. TypeOK'
  BY <1>1, <1>9, <1>11 DEF TypeOK
<1>13. VisitInv' /\ CleanReceipt'
  <2>1. pc \in InHand /\ pc' \in InHand
    BY DEF InHand
  <2> QED
    BY <1>2, <1>9, <2>1, StaysInHand
<1>14. RunnerInv'
  <2>1. pc' \notin Reading /\ pc' \notin {"parse", "records"} /\ pc' # "caught" /\ pc' # "parse"
    BY DEF Reading
  <2> QED
    BY <1>9, <2>1 DEF RunnerInv
<1> QED
  BY <1>10, <1>12, <1>13, <1>14 DEF UnitsInv

LEMMA ParseStep ==
  ASSUME UnitsInv, ParseUnit
  PROVE  UnitsInv'
<1> DEFINE x == at.unit
<1>1. /\ pc = "parse"
      /\ UNCHANGED <<size, stored, grouped, thrown, offset, job, todo, spent>>
  BY DEF ParseUnit
<1>2. pc \in Reading /\ pc \in InHand
  BY <1>1 DEF Reading, InHand
<1>3. TypeOK /\ LinesInv /\ RunnerInv
  BY DEF UnitsInv
<1>4. /\ at \in Runner /\ x \in Unit /\ x \in Permitted /\ x \in Units(UnitStatus)
      /\ unit[x] \in Row /\ unit[x].status = "running"
      /\ Adds(x, unit[x].before, at, stored, thrown, grouped)
      /\ offset[x] \in Nat /\ size[x] \in Nat
      /\ offset[x] <= at.cursor /\ at.cursor <= at.to /\ at.to <= size[x]
  BY <1>2, Reads
<1>5. at.unsaved = 0 /\ at.cursor = offset[x] /\ at.cursor \in Nat /\ at.to \in Nat
  BY <1>1, <1>3, <1>4, Runners DEF RunnerInv
<1>6. CASE at' = [at EXCEPT !.to = size[at.unit]] /\ pc' = "records" /\ unit' = unit
  <2>1. /\ at' \in Runner /\ at'.unit = x /\ at'.to = size[x] /\ at'.cursor = at.cursor
        /\ at'.unsaved = at.unsaved /\ at'.processed = at.processed
        /\ at'.imported = at.imported /\ at'.failed = at.failed
    BY <1>3, <1>4, <1>6 DEF Runner, TypeOK
  <2>2. pc' \in Reading /\ pc' \in InHand
    BY <1>6 DEF Reading, InHand
  <2>3. VisitInv' /\ CleanReceipt'
    BY <1>1, <1>2, <1>4, <1>6, <2>1, <2>2, StaysInHand
  <2>4. LinesInv'
    BY <1>1, <1>3, LinesKept
  <2>5. ASSUME NEW u \in Units(UnitStatus)' PROVE RowInv(u)'
    <3>1. u \in Unit /\ u \in Units(UnitStatus)
      BY <1>6 DEF Units
    <3>2. RowInv(u)
      BY <3>1 DEF UnitsInv
    <3> QED
      BY <1>1, <1>3, <1>6, <3>1, <3>2, RowFrame
  <2>6. TypeOK'
    BY <1>1, <1>3, <1>6, <2>1 DEF TypeOK
  <2>7. RunnerInv'
    <3>1. Adds(x, unit[x].before, at', stored, thrown, grouped)
      BY <1>4, <2>1 DEF Adds
    <3>2. Adds(at.unit, unit[at.unit].before, at, stored, thrown, grouped)'
      BY <1>1, <1>6, <2>1, <3>1
    <3>3. /\ offset'[x] <= at'.cursor /\ at'.cursor <= at'.to /\ at'.to <= size'[x]
          /\ at'.cursor = offset'[x]
      BY <1>1, <1>4, <1>5, <2>1
    <3> QED
      BY <1>4, <1>6, <2>1, <3>2, <3>3 DEF RunnerInv
  <2> QED
    BY <2>3, <2>4, <2>5, <2>6, <2>7 DEF UnitsInv
<1>7. CASE unit' = [unit EXCEPT ![at.unit] = Saved(at, "failed")] /\ pc' = "progress" /\ at' = at
  <2> DEFINE row == Saved(at, "failed")
  <2>1. "failed" \in UnitStatus
    BY DEF UnitStatus
  <2>2. /\ row \in Row /\ row.status = "failed" /\ row.before = unit[x].before
        /\ row.cursor = at.cursor /\ row.processed = at.processed /\ row.imported = at.imported
        /\ row.failed >= at.failed /\ row.failed > 0
    BY <1>3, <1>4, <2>1, SavedRow
  <2>3. unit' = [unit EXCEPT ![x] = row]
    BY <1>7
  <2> HIDE DEF row
  <2>4. /\ {} \in SUBSET {<<at.unit, at.cursor>>} /\ {} \subseteq thrown /\ grouped' = grouped \cup {}
        /\ offset' \in [Unit -> Count] /\ offset'[x] = at.cursor
        /\ \A u \in Unit \ {x} : offset'[u] = offset[u]
        /\ pc' \in {"progress", "stat"} /\ pc' # "stat"
        /\ row.status \notin {"queued", "running"}
    BY <1>1, <1>3, <1>5, <1>7, <2>2 DEF TypeOK
  <2> QED
    BY <1>1, <1>2, <1>7, <2>2, <2>3, <2>4, CloseUnit
<1> QED
  BY <1>6, <1>7 DEF ParseUnit

LEMMA RecordStep ==
  ASSUME UnitsInv, RecordFailure
  PROVE  UnitsInv'
<1> DEFINE x == at.unit
           row == Saved(at, "failed")
<1>1. /\ pc = "caught" /\ grouped' = grouped \cup {<<x, at.cursor>>}
      /\ unit' = [unit EXCEPT ![x] = row] /\ pc' = "progress"
      /\ UNCHANGED <<size, stored, thrown, offset, job, todo, at, spent>>
  BY DEF RecordFailure, GroupFailure
<1>2. pc \in Reading
  BY <1>1 DEF Reading
<1>3. TypeOK /\ RunnerInv
  BY DEF UnitsInv
<1>4. at \in Runner /\ x \in Unit /\ x \in Units(UnitStatus)
  BY <1>2, Reads
<1>5. at.cursor = offset[x] /\ <<x, at.cursor>> \in thrown
  BY <1>1, <1>3 DEF RunnerInv
<1>6. "failed" \in UnitStatus
  BY DEF UnitStatus
<1>7. /\ row \in Row /\ row.status = "failed" /\ row.before = unit[x].before
      /\ row.cursor = at.cursor /\ row.processed = at.processed /\ row.imported = at.imported
      /\ row.failed >= at.failed /\ row.failed > 0
  BY <1>3, <1>4, <1>6, SavedRow
<1> HIDE DEF row
<1>8. /\ offset' \in [Unit -> Count] /\ offset'[x] = at.cursor
      /\ \A u \in Unit \ {x} : offset'[u] = offset[u]
      /\ pc' \in {"progress", "stat"} /\ pc' # "stat"
      /\ row.status \notin {"queued", "running"}
      /\ {<<at.unit, at.cursor>>} \in SUBSET {<<at.unit, at.cursor>>}
      /\ {<<at.unit, at.cursor>>} \subseteq thrown
  BY <1>1, <1>3, <1>5, <1>7 DEF TypeOK
<1> QED
  BY <1>1, <1>2, <1>7, <1>8, CloseUnit

LEMMA FinishUnitStep ==
  ASSUME UnitsInv, FinishUnit
  PROVE  UnitsInv'
<1> DEFINE x == at.unit
<1>1. /\ pc = "records" /\ at.cursor = at.to
      /\ UNCHANGED <<size, stored, grouped, thrown, job, todo, spent>>
  BY DEF FinishUnit
<1>2. pc \in Reading
  BY <1>1 DEF Reading
<1>3. TypeOK /\ RunnerInv
  BY DEF UnitsInv
<1>4. /\ at \in Runner /\ x \in Unit /\ x \in Units(UnitStatus) /\ unit[x] \in Row
      /\ Adds(x, unit[x].before, at, stored, thrown, grouped)
      /\ offset[x] <= at.cursor /\ at.cursor <= at.to
  BY <1>2, Reads
<1>5. at.failed \in Nat /\ at.cursor \in Count /\ at.unsaved \in Nat
  BY <1>4, Runners
<1>6. CASE SaveWhenDue(at, TRUE)
  <2>1. stored \subseteq stored' /\ stored' \subseteq Line
    BY <1>1, <1>3 DEF TypeOK
  <2>2. Adds(x, unit[x].before, at, stored', thrown, grouped)
    BY <1>1, <1>4
  <2>3. TRUE \in BOOLEAN
    OBVIOUS
  <2> QED
    BY <1>1, <1>4, <1>6, <2>1, <2>2, <2>3, SaveStep
<1>7. CASE \E repair \in BOOLEAN :
             LET verdict == UnitVerdict(repair) IN
             /\ unit' = [unit EXCEPT ![at.unit] = [Saved(at, verdict) EXCEPT !.failed = at.failed]]
             /\ IF at.unsaved > 0 THEN CursorMoved(at.unit, at.cursor) ELSE UNCHANGED offset
             /\ pc' = IF verdict \in Done THEN "stat" ELSE "progress"
             /\ UNCHANGED at
  <2>1. PICK repair \in BOOLEAN :
          /\ unit' = [unit EXCEPT ![x] = [Saved(at, UnitVerdict(repair)) EXCEPT !.failed = at.failed]]
          /\ IF at.unsaved > 0 THEN CursorMoved(x, at.cursor) ELSE UNCHANGED offset
          /\ pc' = IF UnitVerdict(repair) \in Done THEN "stat" ELSE "progress"
          /\ at' = at
    BY <1>7
  <2> DEFINE v == UnitVerdict(repair)
             row == [Saved(at, v) EXCEPT !.failed = at.failed]
  <2>2. v \in {"succeeded", "succeeded_with_issues", "failed"} /\ (v = "failed" => at.failed # 0)
    BY DEF UnitVerdict
  <2>3. v \in UnitStatus
    BY <2>2 DEF UnitStatus, Done
  <2> HIDE DEF v
  <2>4. /\ Saved(at, v) \in Row /\ Saved(at, v).status = v /\ Saved(at, v).before = unit[x].before
        /\ Saved(at, v).cursor = at.cursor /\ Saved(at, v).processed = at.processed
        /\ Saved(at, v).imported = at.imported
    BY <1>3, <1>4, <2>3, SavedRow
  <2>5. /\ row \in Row /\ row.status = v /\ row.before = unit[x].before
        /\ row.cursor = at.cursor /\ row.processed = at.processed /\ row.imported = at.imported
        /\ row.failed = at.failed
    BY <1>5, <2>4 DEF Row
  <2>6. unit' = [unit EXCEPT ![x] = row] /\ pc' = IF v \in Done THEN "stat" ELSE "progress"
    BY <2>1 DEF v
  <2> HIDE DEF row
  <2>7. /\ offset' \in [Unit -> Count] /\ offset'[x] = at.cursor
        /\ \A u \in Unit \ {x} : offset'[u] = offset[u]
    <3>1. CASE at.unsaved > 0
      BY <1>3, <1>4, <1>5, <2>1, <3>1 DEF CursorMoved, TypeOK
    <3>2. CASE ~(at.unsaved > 0)
      <4>1. at.unsaved = 0 /\ offset' = offset
        BY <1>5, <2>1, <3>2
      <4>2. at.cursor = offset[x]
        BY <1>1, <1>3, <4>1 DEF RunnerInv
      <4> QED
        BY <1>3, <4>1, <4>2 DEF TypeOK
    <3> QED
      BY <3>1, <3>2
  <2>8. /\ {} \in SUBSET {<<at.unit, at.cursor>>} /\ {} \subseteq thrown /\ grouped' = grouped \cup {}
        /\ pc' \in {"progress", "stat"} /\ (pc' = "stat" => row.status \in Done)
        /\ row.status \notin {"queued", "running"}
        /\ row.failed >= at.failed /\ (row.status = "failed" => row.failed > 0)
    BY <1>1, <1>5, <2>2, <2>5, <2>6
  <2> QED
    BY <1>1, <1>2, <2>1, <2>5, <2>6, <2>7, <2>8, CloseUnit
<1> QED
  BY <1>6, <1>7 DEF FinishUnit

LEMMA CursorStep ==
  ASSUME UnitsInv, CursorAfterUnit
  PROVE  UnitsInv'
<1> DEFINE x == at.unit
<1>1. /\ pc = "stat" /\ pc' = "progress" /\ offset' = [offset EXCEPT ![x] = size[x]]
      /\ UNCHANGED <<size, stored, grouped, thrown, unit, job, todo, at, spent>>
  BY DEF CursorAfterUnit, CursorMoved
<1>2. TypeOK /\ LinesInv /\ VisitInv /\ RunnerInv /\ CleanReceipt
  BY DEF UnitsInv
<1>3. pc \in InHand /\ pc' \in InHand /\ pc' \notin Reading
  BY <1>1 DEF InHand, Reading
<1>4. at \in Runner /\ x \in Unit /\ x \in Units(UnitStatus) /\ unit[x].status \in Done
  BY <1>1, <1>2, <1>3, Runners DEF VisitInv, RunnerInv
<1>5. /\ unit[x] \in Row /\ unit[x].cursor \in Nat /\ offset[x] \in Nat /\ size[x] \in Nat
      /\ size[x] \in Count /\ offset[x] <= size[x]
  BY <1>2, <1>4, Rows, Offsets DEF TypeOK, LinesInv
<1>6. RowInv(x)
  BY <1>4 DEF UnitsInv
<1>7. /\ Adds(x, unit[x].before, unit[x], stored, thrown, grouped)
      /\ unit[x].cursor <= offset[x]
      /\ x \notin Permitted => unit[x].cursor = unit[x].before
      /\ unit[x].status = "failed" => unit[x].failed > 0
  BY <1>6 DEF RowInv
<1>8. /\ offset' \in [Unit -> Count] /\ offset'[x] = size[x]
      /\ \A u \in Unit \ {x} : offset'[u] = offset[u]
  BY <1>1, <1>2, <1>4, <1>5 DEF TypeOK
<1>9. unit' = [unit EXCEPT ![x] = unit[x]]
  BY <1>1, <1>2 DEF TypeOK
<1>10. /\ offset[x] <= offset'[x] /\ offset'[x] <= size[x] /\ unit[x].cursor <= offset'[x]
  BY <1>5, <1>7, <1>8
<1>11. Adds(x, unit[x].before, unit[x], stored', thrown', grouped')
  BY <1>1, <1>7
<1>12. /\ {} \in SUBSET LinesTo(x, 0, offset'[x]) /\ {} \in SUBSET {} /\ thrown' = thrown \cup {}
       /\ stored \subseteq stored' /\ (unit[x].status \notin Done => unit[x].cursor = offset'[x])
  BY <1>1, <1>4
<1>13. LinesInv' /\ \A u \in Units(UnitStatus)' : RowInv(u)'
  BY <1>1, <1>4, <1>5, <1>7, <1>8, <1>9, <1>10, <1>11, <1>12, WriteStep
<1>14. TypeOK'
  BY <1>1, <1>2, <1>8 DEF TypeOK
<1>15. VisitInv' /\ CleanReceipt'
  <2>1. unit'[x].status \notin {"queued", "running"} /\ unit'[x] \in Row
    BY <1>1, <1>4, <1>5 DEF Done
  <2> QED
    BY <1>1, <1>3, <1>4, <2>1, StaysInHand
<1>16. RunnerInv'
  BY <1>1, <1>3 DEF RunnerInv
<1> QED
  BY <1>13, <1>14, <1>15, <1>16 DEF UnitsInv

-----------------------------------------------------------------------------
(* The invariant holds                                                      *)

LEMMA UnitsInit == Init => UnitsInv
<1> SUFFICES ASSUME Init PROVE UnitsInv
  OBVIOUS
<1>1. /\ size \in [Unit -> {0, 1}] /\ stored = {} /\ grouped = {} /\ thrown = {}
      /\ offset = [u \in Unit |-> 0] /\ unit = [u \in Unit |-> NoRow]
      /\ job = "absent" /\ pc = "idle" /\ todo = {} /\ at = NoRunner
      /\ spent = [jobs |-> 0, retries |-> 0, crashes |-> 0]
  BY DEF Init
<1>2. {0, 1} \subseteq Count /\ 0 \in Count
  BY ImportLines DEF Count
<1>3. TypeOK
  BY <1>1, <1>2, ImportBounds DEF TypeOK
<1>4. Units(UnitStatus) = {}
  BY <1>1 DEF Units, NoRow, UnitStatus, Done
<1>5. LinesInv
  BY <1>1 DEF LinesInv
<1>6. pc \notin AtWork /\ pc \notin Visiting /\ pc \notin InHand /\ pc \notin Reading
  BY <1>1 DEF AtWork, Visiting, InHand, Reading
<1>7. VisitInv
  BY <1>1, <1>6 DEF VisitInv
<1>8. RunnerInv
  BY <1>1, <1>6 DEF RunnerInv
<1>9. CleanReceipt
  BY <1>1 DEF CleanReceipt
<1> QED
  BY <1>3, <1>4, <1>5, <1>7, <1>8, <1>9 DEF UnitsInv

LEMMA UnitsNext == UnitsInv /\ [Next]_vars => UnitsInv'
<1> SUFFICES ASSUME UnitsInv, [Next]_vars PROVE UnitsInv'
  OBVIOUS
<1>1. CASE \E u \in Unit : AppendLine(u)
  BY <1>1, AppendStep
<1>2. CASE QueueJob
  BY <1>2, QueueStep
<1>3. CASE RetryJob \/ CancelJob \/ StartWorker
  BY <1>3, RequestSteps
<1>4. CASE PlanUnits
  BY <1>4, PlanStep
<1>5. CASE \E u \in Unit : BeginUnit(u)
  BY <1>5, BeginStep
<1>6. CASE ParseUnit
  BY <1>6, ParseStep
<1>7. CASE ImportLine
  BY <1>7, ImportStep
<1>8. CASE IngestThrows
  BY <1>8, ThrowStep
<1>9. CASE RecordFailure
  BY <1>9, RecordStep
<1>10. CASE FinishUnit
  BY <1>10, FinishUnitStep
<1>11. CASE CursorAfterUnit
  BY <1>11, CursorStep
<1>12. CASE ReportProgress
  BY <1>12, ReportStep
<1>13. CASE FinishJob
  BY <1>13, FinishJobStep
<1>14. CASE Recover
  BY <1>14, RecoverStep
<1>15. CASE Crash
  BY <1>15, CrashStep
<1>16. CASE DieWhilePlanning
  BY <1>16, DieStep
<1>17. CASE UNCHANGED vars
  <2>1. /\ UNCHANGED <<size, ledger>> /\ UNCHANGED <<job, pc, todo, at, spent>>
        /\ unit' = unit /\ offset' = offset /\ stored' = stored /\ thrown' = thrown /\ grouped' = grouped
    BY <1>17 DEF vars, worker, ledger
  <2>2. VisitInv' /\ RunnerInv' /\ CleanReceipt'
    BY <2>1 DEF UnitsInv, VisitInv, RunnerInv, CleanReceipt, Units, Covered
  <2> QED
    BY <2>1, <2>2, QuietStep DEF UnitsInv, TypeOK
<1> QED
  BY <1>1, <1>2, <1>3, <1>4, <1>5, <1>6, <1>7, <1>8, <1>9, <1>10, <1>11, <1>12, <1>13, <1>14,
     <1>15, <1>16, <1>17 DEF Next, Work

LEMMA UnitsSpec == Spec => []UnitsInv
  BY UnitsInit, UnitsNext, PTL DEF Spec

-----------------------------------------------------------------------------
(* What the ledger promises                                                 *)

(* Every variable of the import has its type: the counters of a row are     *)
(* natural numbers and its cursors are lines of the file.                   *)
THEOREM UnitTypesHold == Spec => []TypeOK
<1>1. UnitsInv => TypeOK
  BY DEF UnitsInv
<1> QED
  BY <1>1, UnitsSpec, PTL

(* The counters of a row and its cursor describe the same lines, wherever   *)
(* runImportWorkUnit was interrupted: each line between the planned and the *)
(* saved cursor is counted once, and what is counted as imported is stored. *)
THEOREM CheckpointsAlwaysAddUp == Spec => []CheckpointsAddUp
<1>1. UnitsInv => CheckpointsAddUp
  <2> SUFFICES ASSUME UnitsInv, NEW u \in Units(UnitStatus)
               PROVE  LET imported == Covered(u) \ (Malformed \cup Excluded \cup thrown) IN
                      /\ unit[u].processed = unit[u].cursor - unit[u].before
                      /\ unit[u].imported = Cardinality(imported)
                      /\ imported \subseteq stored
                      /\ unit[u].failed >= Cardinality(Covered(u) \cap Malformed)
    BY DEF CheckpointsAddUp
  <2>1. RowInv(u)
    BY DEF UnitsInv
  <2>2. Covered(u) = LinesTo(u, unit[u].before, unit[u].cursor)
    BY DEF Covered, LinesTo
  <2> QED
    BY <2>1, <2>2 DEF RowInv, Adds
<1> QED
  BY <1>1, UnitsSpec, PTL

(* A job that says succeeded read each of its units to its end or deferred  *)
(* it, and none of their lines is malformed or in a failure group.          *)
THEOREM CleanReceiptHolds == Spec => []CleanReceipt
<1>1. UnitsInv => CleanReceipt
  BY DEF UnitsInv
<1> QED
  BY <1>1, UnitsSpec, PTL

(* The runner writes the row of the unit in hand, and never behind the      *)
(* checkpoint it found.                                                     *)
LEMMA RunnerAdvances ==
  ASSUME UnitsInv, pc \in Reading,
         \A u \in Unit \ {at.unit} : unit'[u] = unit[u],
         unit'[at.unit] = unit[at.unit] \/ unit'[at.unit].cursor \in {at.cursor, at.cursor + 1}
  PROVE  \A u \in Units(UnitStatus) :
           /\ unit'[u].cursor >= unit[u].cursor
           /\ unit[u].status \in Done => unit'[u] = unit[u]
<1>1. TypeOK
  BY DEF UnitsInv
<1>2. /\ at \in Runner /\ at.unit \in Unit /\ at.unit \in Units(UnitStatus)
      /\ unit[at.unit].status = "running"
      /\ offset[at.unit] \in Nat /\ offset[at.unit] <= at.cursor
  BY Reads
<1>3. at.cursor \in Nat /\ unit[at.unit].cursor \in Nat
  BY <1>1, <1>2, Runners, Rows
<1>4. unit[at.unit].cursor <= offset[at.unit]
  BY <1>2 DEF UnitsInv, RowInv
<1>5. unit'[at.unit].cursor >= unit[at.unit].cursor
  BY <1>2, <1>3, <1>4
<1> SUFFICES ASSUME NEW u \in Units(UnitStatus)
             PROVE  /\ unit'[u].cursor >= unit[u].cursor
                    /\ unit[u].status \in Done => unit'[u] = unit[u]
  OBVIOUS
<1>6. u \in Unit /\ unit[u].cursor \in Nat
  BY <1>1, Rows DEF Units
<1>7. CASE u = at.unit
  BY <1>2, <1>5, <1>7 DEF Done
<1>8. CASE u # at.unit
  BY <1>6, <1>8
<1> QED
  BY <1>7, <1>8

(* Completed work units are not repeated, and no retry, restart or          *)
(* cancellation takes a unit back behind its checkpoint.                    *)
THEOREM CheckpointsNeverGoBack == Spec => CheckpointsOnlyAdvance
<1> DEFINE Step == \A u \in Units(UnitStatus) :
                     unit'[u] # NoRow => /\ unit'[u].cursor >= unit[u].cursor
                                         /\ unit[u].status \in Done => unit'[u] = unit[u]
<1>1. ASSUME UnitsInv, Next PROVE Step
  <2>1. TypeOK /\ VisitInv
    BY <1>1 DEF UnitsInv
  <2>2. \A u \in Units(UnitStatus) : u \in Unit /\ unit[u] \in Row /\ unit[u].cursor \in Nat
    BY <2>1, Rows DEF Units
  <2>3. ASSUME unit' = unit PROVE Step
    BY <2>2, <2>3
  <2>4. CASE QueueJob
    BY <2>2, <2>4 DEF QueueJob
  <2>5. CASE PlanUnits \/ DieWhilePlanning
    <3>1. unit' = unit \/ NeedsManifest
      BY <2>5 DEF PlanUnits, DieWhilePlanning, Abort, ledger
    <3> QED
      BY <2>3, <3>1 DEF NeedsManifest
  <2>6. CASE \E x \in Unit : BeginUnit(x)
    <3>1. PICK x \in Unit : BeginUnit(x)
      BY <2>6
    <3>2. CASE unit' = unit
      BY <2>3, <3>2
    <3>3. CASE unit' # unit
      <4>1. /\ x \in todo
            /\ \/ unit' = [unit EXCEPT ![x].status = "running"]
               \/ unit' = [unit EXCEPT ![x] = Refused(x)]
        BY <3>1, <3>3 DEF BeginUnit, Abort, ledger
      <4>2. unit[x].status \in Open /\ unit[x].status \notin Done
        BY <2>1, <4>1 DEF VisitInv, Units, Open, Done
      <4>3. ASSUME x \in Units(UnitStatus) PROVE unit'[x].cursor = unit[x].cursor
        <5>1. unit[x] \in Row
          BY <2>2, <4>3
        <5>2. unit'[x] = [unit[x] EXCEPT !.status = "running"] \/ unit'[x] = Refused(x)
          <6>1. unit \in [Unit -> Row \cup {NoRow}] /\ x \in Unit
            BY <2>1, <2>2, <4>3 DEF TypeOK
          <6> QED
            BY <4>1, <6>1
        <5> QED
          BY <5>1, <5>2 DEF Refused, Row
      <4>4. \A u \in Unit \ {x} : unit'[u] = unit[u]
        BY <2>1, <4>1 DEF TypeOK
      <4> QED
        BY <2>2, <4>2, <4>3, <4>4
    <3> QED
      BY <3>2, <3>3
  <2>7. CASE ParseUnit \/ RecordFailure \/ FinishUnit \/ ImportLine \/ IngestThrows
    <3>1. pc \in Reading
      BY <2>7 DEF ParseUnit, RecordFailure, FinishUnit, ImportLine, IngestThrows, Reading
    <3>2. /\ at \in Runner /\ at.unit \in Unit /\ unit[at.unit] \in Row
          /\ at.cursor \in Nat
      BY <1>1, <3>1, Reads, Runners
    <3> DEFINE Written == \E row : /\ unit' = [unit EXCEPT ![at.unit] = row]
                                   /\ row.cursor \in {at.cursor, at.cursor + 1}
    <3>3. ASSUME Written PROVE Step
      <4>1. PICK row : /\ unit' = [unit EXCEPT ![at.unit] = row]
                       /\ row.cursor \in {at.cursor, at.cursor + 1}
        BY <3>3
      <4>2. unit'[at.unit] = row /\ \A u \in Unit \ {at.unit} : unit'[u] = unit[u]
        BY <2>1, <3>2, <4>1 DEF TypeOK
      <4> QED
        BY <1>1, <3>1, <4>1, <4>2, RunnerAdvances
    <3>4. \A r, s : r.unit = at.unit => Saved(r, s).cursor = r.cursor
      BY <3>2 DEF Saved, Row
    <3>5. ASSUME NEW i \in {0, 1}, NEW f \in {0, 1}
          PROVE  Advanced(i, f).cursor = at.cursor + 1 /\ Advanced(i, f).unit = at.unit
      BY <3>2 DEF Advanced, Runner
    <3>6. ASSUME NEW r, NEW s, Checkpoint(r, s), r.unit = at.unit,
                 r.cursor \in {at.cursor, at.cursor + 1}
          PROVE  Written
      BY <3>4, <3>6 DEF Checkpoint
    <3>7. unit' = unit \/ Written
      <4>1. CASE ParseUnit \/ RecordFailure
        <5>1. unit' = unit \/ unit' = [unit EXCEPT ![at.unit] = Saved(at, "failed")]
          BY <4>1 DEF ParseUnit, RecordFailure
        <5>2. Saved(at, "failed").cursor = at.cursor
          BY <3>4
        <5> QED
          BY <5>1, <5>2
      <4>2. CASE ImportLine
        <5> DEFINE r == CASE NextLine \in Malformed -> Advanced(0, 1)
                          [] NextLine \in Excluded -> Advanced(0, 0)
                          [] OTHER -> Advanced(1, 0)
        <5>1. \E i \in {0, 1}, f \in {0, 1} : r = Advanced(i, f)
          BY ImportLines
        <5>2. SaveWhenDue(r, r.unsaved >= CheckpointInterval)
          BY <4>2 DEF ImportLine
        <5> HIDE DEF r, Written
        <5>3. r.cursor = at.cursor + 1 /\ r.unit = at.unit
          BY <3>5, <5>1
        <5>4. unit' = unit \/ \E s : Checkpoint(r, s)
          BY <5>2 DEF SaveWhenDue
        <5> QED
          BY <3>6, <5>3, <5>4
      <4>3. CASE IngestThrows
        <5> DEFINE r == Advanced(0, 0)
        <5>1. Checkpoint(r, "running")
          BY <4>3 DEF IngestThrows
        <5>2. r.cursor = at.cursor + 1 /\ r.unit = at.unit
          BY <3>5
        <5> HIDE DEF r, Written
        <5> QED
          BY <3>6, <5>1, <5>2
      <4>4. CASE FinishUnit
        <5>1. CASE SaveWhenDue(at, TRUE)
          <6>1. \E s : Checkpoint(at, s)
            BY <5>1 DEF SaveWhenDue
          <6> QED
            BY <3>4, <6>1 DEF Checkpoint
        <5>2. CASE \E v : unit' = [unit EXCEPT ![at.unit] = [Saved(at, v) EXCEPT !.failed = at.failed]]
          <6>1. PICK v : unit' = [unit EXCEPT ![at.unit] = [Saved(at, v) EXCEPT !.failed = at.failed]]
            BY <5>2
          <6>2. [Saved(at, v) EXCEPT !.failed = at.failed].cursor = at.cursor
            BY <3>2 DEF Saved, Row
          <6> QED
            BY <6>1, <6>2
        <5> QED
          BY <4>4, <5>1, <5>2 DEF FinishUnit
      <4> QED
        BY <2>7, <4>1, <4>2, <4>3, <4>4
    <3> QED
      BY <2>3, <3>3, <3>7
  <2>8. CASE Recover
    <3>1. ASSUME NEW u \in Units(UnitStatus)
          PROVE  \/ unit'[u] = unit[u]
                 \/ /\ unit[u].status \in {"queued", "running"}
                    /\ \E s : unit'[u] = [unit[u] EXCEPT !.status = s]
      BY <2>2, <2>8 DEF Recover
    <3>2. ASSUME NEW u \in Units(UnitStatus)
          PROVE  /\ unit'[u].cursor >= unit[u].cursor
                 /\ unit[u].status \in Done => unit'[u] = unit[u]
      <4>1. unit[u] \in Row /\ unit[u].cursor \in Nat
        BY <2>2
      <4>2. CASE unit'[u] = unit[u]
        BY <4>1, <4>2
      <4>3. CASE /\ unit[u].status \in {"queued", "running"}
                 /\ \E s : unit'[u] = [unit[u] EXCEPT !.status = s]
        BY <4>1, <4>3 DEF Done, Row
      <4> QED
        BY <3>1, <4>2, <4>3
    <3> QED
      BY <3>2
  <2>9. CASE \/ \E u \in Unit : AppendLine(u)
             \/ RetryJob \/ CancelJob \/ StartWorker \/ CursorAfterUnit \/ ReportProgress
             \/ FinishJob \/ Crash
    <3>1. unit' = unit
      BY <2>9 DEF AppendLine, RetryJob, CancelJob, StartWorker, CursorAfterUnit, ReportProgress,
                  FinishJob, Crash, Abort, ledger
    <3> QED
      BY <2>3, <3>1
  <2> QED
    BY <1>1, <2>4, <2>5, <2>6, <2>7, <2>8, <2>9 DEF Next, Work
<1>2. UnitsInv /\ [Next]_vars => [Step]_vars
  BY <1>1
<1>3. CheckpointsOnlyAdvance <=> [][Step]_vars
  BY DEF CheckpointsOnlyAdvance
<1> HIDE DEF Step
<1> QED
  BY <1>2, <1>3, UnitsSpec, PTL DEF Spec
=============================================================================
