------------------------- MODULE AuthoringV5_proofs -------------------------
(***************************************************************************)
(* Theorems about the authoring V5 service for any number of sessions,      *)
(* requests, evidence pages, failures and crashes, and any batch, chunk and *)
(* pack size, and about the loop that divides a request into packs.         *)
(***************************************************************************)
EXTENDS AuthoringV5Refinement, FixedPacksLoop, FiniteSetTheorems, TLAPS

-----------------------------------------------------------------------------
(* A queue filtered by position, as in LiveIngest_proofs.                   *)

(* A non-empty set of natural numbers has a least element.                  *)
LEMMA LeastElement ==
  ASSUME NEW T \in SUBSET Nat, T # {}
  PROVE  \E x \in T : \A y \in T : x <= y
<1>1. PICK x \in T : \A y \in T : ~ (<<y, x>> \in OpToRel(<, Nat))
  BY NatLessThanWellFounded, WFMin
<1>2. \A y \in T : ~(y < x)
  BY <1>1 DEF OpToRel
<1> QED
  BY <1>2

(* Counting up to a later position counts more.                             *)
LEMMA CountGrows ==
  ASSUME NEW K \in SUBSET Nat, IsFiniteSet(K), NEW i \in K, NEW j \in K, i < j
  PROVE  /\ PositionsUpTo(K, i) \in Nat /\ PositionsUpTo(K, j) \in Nat
         /\ PositionsUpTo(K, i) < PositionsUpTo(K, j)
<1> DEFINE I == {p \in K : p <= i}
           J == {p \in K : p <= j}
<1>1. IsFiniteSet(J) /\ Cardinality(J) \in Nat
  BY FS_Subset, FS_CardinalityType
<1>0. i \in Nat /\ j \in Nat /\ \A p \in K : p \in Nat
  OBVIOUS
<1>2. I \subseteq J /\ j \in J /\ j \notin I
  <2>1. \A p \in K : p <= i => p <= j
    BY <1>0
  <2>2. j <= j /\ ~(j <= i)
    BY <1>0
  <2> QED
    BY <2>1, <2>2
<1>3. IsFiniteSet(I) /\ Cardinality(I) <= Cardinality(J) /\ Cardinality(I) # Cardinality(J)
  BY <1>1, <1>2, FS_Subset
<1>4. Cardinality(I) \in Nat
  BY <1>3, FS_CardinalityType
<1> QED
  BY <1>1, <1>3, <1>4 DEF PositionsUpTo

(* Every position chosen is the k-th one for exactly one k.                 *)
LEMMA KthPositions ==
  ASSUME NEW K \in SUBSET Nat, IsFiniteSet(K)
  PROVE  /\ Cardinality(K) \in Nat
         /\ \A k \in 1 .. Cardinality(K) :
              KthPosition(K, k) \in K /\ PositionsUpTo(K, KthPosition(K, k)) = k
         /\ \A i \in K : \E k \in 1 .. Cardinality(K) : KthPosition(K, k) = i
<1> DEFINE f == [i \in K |-> PositionsUpTo(K, i)]
           UpTo(i) == {j \in K : j <= i}
<1>1. Cardinality(K) \in Nat /\ \A i \in K : i \in Nat
  BY FS_CardinalityType
<1>2. ASSUME NEW i \in K
      PROVE  /\ IsFiniteSet(UpTo(i)) /\ Cardinality(UpTo(i)) \in Nat
             /\ Cardinality(UpTo(i)) <= Cardinality(K) /\ UpTo(i) # {}
  BY <1>1, FS_Subset, FS_CardinalityType
<1>3. ASSUME NEW i \in K PROVE PositionsUpTo(K, i) \in 1 .. Cardinality(K)
  BY <1>1, <1>2, FS_EmptySet DEF PositionsUpTo
<1>4. ASSUME NEW i \in K, NEW j \in K, i < j PROVE PositionsUpTo(K, i) # PositionsUpTo(K, j)
  BY <1>4, CountGrows
<1>5. ASSUME NEW i \in K, NEW j \in K, PositionsUpTo(K, i) = PositionsUpTo(K, j) PROVE i = j
  BY <1>1, <1>4, <1>5
<1>6. f \in Surjection(K, 1 .. Cardinality(K))
  <2>1. f \in Injection(K, 1 .. Cardinality(K))
    BY <1>3, <1>5 DEF Injection, IsInjective
  <2>2. IsFiniteSet(1 .. Cardinality(K)) /\ Cardinality(1 .. Cardinality(K)) = Cardinality(K)
    BY <1>1, FS_Interval
  <2> QED
    BY <2>1, <2>2, FS_Injection
<1>7. ASSUME NEW k \in 1 .. Cardinality(K)
      PROVE  KthPosition(K, k) \in K /\ PositionsUpTo(K, KthPosition(K, k)) = k
  BY <1>6 DEF Surjection, KthPosition
<1>8. ASSUME NEW i \in K PROVE \E k \in 1 .. Cardinality(K) : KthPosition(K, k) = i
  BY <1>3, <1>5, <1>7
<1> QED
  BY <1>1, <1>7, <1>8

(* The elements of a subsequence are those at the positions chosen, and it  *)
(* repeats nothing the sequence does not repeat.                            *)
LEMMA SubsequenceElements ==
  ASSUME NEW S, NEW s \in Seq(S), NEW K \in SUBSET (DOMAIN s)
  PROVE  /\ Subsequence(s, K) \in Seq(S)
         /\ Range(Subsequence(s, K)) = {s[i] : i \in K}
         /\ (\A i, j \in DOMAIN s : s[i] = s[j] => i = j) =>
              \A k, l \in DOMAIN Subsequence(s, K) :
                Subsequence(s, K)[k] = Subsequence(s, K)[l] => k = l
<1>1. K \in SUBSET Nat /\ IsFiniteSet(K)
  BY FS_Interval, FS_Subset
<1>2. /\ Cardinality(K) \in Nat
      /\ \A k \in 1 .. Cardinality(K) :
           KthPosition(K, k) \in K /\ PositionsUpTo(K, KthPosition(K, k)) = k
      /\ \A i \in K : \E k \in 1 .. Cardinality(K) : KthPosition(K, k) = i
  BY <1>1, KthPositions
<1>3. Subsequence(s, K) \in [1 .. Cardinality(K) -> S]
  BY <1>2 DEF Subsequence
<1>4. Range(Subsequence(s, K)) = {s[i] : i \in K}
  BY <1>2 DEF Subsequence, Range
<1> QED
  BY <1>2, <1>3, <1>4 DEF Subsequence

-----------------------------------------------------------------------------
(* The loop of fixedPacks: the closed form of FixedPacks describes it, the  *)
(* packs partition the sessions, and the size check behind it never rejects.*)

(* Division of natural numbers, with the divisor a variable.                *)
LEMMA DivMod ==
  ASSUME NEW a \in Nat, NEW c \in Nat \ {0}
  PROVE  /\ a \div c \in Nat
         /\ a % c \in 0 .. (c - 1)
         /\ a = c * (a \div c) + (a % c)
  BY SMT

(* Math.ceil(n / MAXIMUM_PACK_SIZE): enough packs of the maximum size, and  *)
(* one pack less would not do.                                              *)
LEMMA PackCountBounds ==
  ASSUME NEW k \in Nat \ {0}
  PROVE  /\ PackCount(k) \in Nat \ {0}
         /\ k <= PackCount(k) * MaximumPackSize
         /\ (PackCount(k) - 1) * MaximumPackSize < k
<1> DEFINE a == k + MaximumPackSize - 1
           q == a \div MaximumPackSize
<1>1. MaximumPackSize \in Nat \ {0} /\ a \in Nat
  BY PackSizeAssumption
<1>2. /\ q \in Nat
      /\ a % MaximumPackSize \in 0 .. (MaximumPackSize - 1)
      /\ a = MaximumPackSize * q + (a % MaximumPackSize)
  BY <1>1, DivMod
<1> HIDE DEF q
<1>3. k <= q * MaximumPackSize /\ (q - 1) * MaximumPackSize < k
  BY <1>1, <1>2
<1>4. q # 0
  BY <1>1, <1>2, <1>3
<1> QED
  BY <1>2, <1>3, <1>4 DEF PackCount, q

(* The base size and the remainder divide the sessions among the packs.     *)
LEMMA Division ==
  ASSUME NEW k \in Nat \ {0}
  PROVE  /\ BaseSize(k) \in Nat
         /\ Remainder(k) \in 0 .. (PackCount(k) - 1)
         /\ k = PackCount(k) * BaseSize(k) + Remainder(k)
  BY PackCountBounds, DivMod DEF BaseSize, Remainder

(* Sizes and offsets are natural numbers, and sizes differ by one at most.  *)
LEMMA PackSizeType ==
  ASSUME NEW k \in Nat \ {0}, NEW o \in Nat
  PROVE  /\ PackSize(k, o) \in Nat
         /\ PackOffset(k, o) \in Nat
         /\ PackSize(k, o) \in BaseSize(k) .. (BaseSize(k) + 1)
<1>1. BaseSize(k) \in Nat /\ Remainder(k) \in Nat
  BY Division, PackCountBounds
<1>2. o * BaseSize(k) \in Nat
  BY <1>1
<1> QED
  BY <1>1, <1>2 DEF PackSize, PackOffset

(* The closed form obeys the recurrence of the loop and ends at the last    *)
(* session.                                                                 *)
LEMMA OffsetRecurrence ==
  ASSUME NEW k \in Nat \ {0}
  PROVE  /\ PackOffset(k, 0) = 0
         /\ \A o \in Nat : PackOffset(k, o + 1) = PackOffset(k, o) + PackSize(k, o)
         /\ PackOffset(k, PackCount(k)) = k
<1>1. /\ BaseSize(k) \in Nat /\ Remainder(k) \in Nat
      /\ PackCount(k) \in Nat \ {0}
      /\ Remainder(k) < PackCount(k)
      /\ k = PackCount(k) * BaseSize(k) + Remainder(k)
  BY Division, PackCountBounds
<1>2. PackOffset(k, 0) = 0
  BY <1>1 DEF PackOffset
<1>3. ASSUME NEW o \in Nat
      PROVE  PackOffset(k, o + 1) = PackOffset(k, o) + PackSize(k, o)
  <2>1. (o + 1) * BaseSize(k) = o * BaseSize(k) + BaseSize(k)
    BY <1>1
  <2>2. o * BaseSize(k) \in Nat
    BY <1>1
  <2> QED
    BY <1>1, <2>1, <2>2 DEF PackOffset, PackSize
<1>4. PackOffset(k, PackCount(k)) = k
  BY <1>1 DEF PackOffset
<1> QED
  BY <1>2, <1>3, <1>4

(* No pack starts behind the last session.                                   *)
LEMMA OffsetBounded ==
  ASSUME NEW k \in Nat \ {0}, NEW o \in 0 .. PackCount(k)
  PROVE  PackOffset(k, o) <= k
<1>1. /\ BaseSize(k) \in Nat /\ Remainder(k) \in Nat
      /\ PackCount(k) \in Nat \ {0}
      /\ k = PackCount(k) * BaseSize(k) + Remainder(k)
  BY Division, PackCountBounds
<1>2. o \in Nat /\ o <= PackCount(k)
  BY <1>1
<1>3. o * BaseSize(k) <= PackCount(k) * BaseSize(k) /\ o * BaseSize(k) \in Nat
  BY <1>1, <1>2
<1> QED
  BY <1>1, <1>2, <1>3 DEF PackOffset

(* The check at the end of fixedPacks passes: a second pack exists only     *)
(* when there are more sessions than one pack may hold, and half of what    *)
(* exceeds the maximum by one is still the minimum.                         *)
THEOREM PacksAreValid ==
  ASSUME NEW k \in Nat \ {0}
  PROVE  PackSizesValid(k)
<1> DEFINE c == PackCount(k)
           b == BaseSize(k)
           r == Remainder(k)
<1>1. /\ c \in Nat \ {0}
      /\ k <= c * MaximumPackSize
      /\ (c - 1) * MaximumPackSize < k
  BY PackCountBounds
<1>2. b \in Nat /\ r \in 0 .. (c - 1) /\ k = c * b + r
  BY Division
<1>3. MaximumPackSize \in Nat \ {0} /\ MinimumPackSize \in Nat \ {0}
      /\ 2 * MinimumPackSize <= MaximumPackSize + 1
  BY PackSizeAssumption
<1> HIDE DEF c, b, r
<1>4. b <= MaximumPackSize
  <2>1. c * b <= c * MaximumPackSize
    BY <1>1, <1>2, <1>3
  <2> QED
    BY <2>1, <1>1, <1>2, <1>3
<1>5. r # 0 => b + 1 <= MaximumPackSize
  <2> SUFFICES ASSUME r # 0, b >= MaximumPackSize PROVE FALSE
    BY <1>2, <1>3
  <2>1. b = MaximumPackSize
    BY <1>2, <1>3, <1>4
  <2> QED
    BY <2>1, <1>1, <1>2
<1>6. k > MaximumPackSize => b >= MinimumPackSize
  <2> SUFFICES ASSUME k > MaximumPackSize, b <= MinimumPackSize - 1 PROVE FALSE
    BY <1>2, <1>3
  <2>1. c >= 2
    BY <1>1, <1>3
  <2>2. k <= c * b + c - 1
    BY <1>1, <1>2
  <2>3. c * b <= c * (MinimumPackSize - 1)
    BY <1>1, <1>2, <1>3
  <2>4. (c - 1) * (2 * MinimumPackSize - 1) <= (c - 1) * MaximumPackSize
    BY <1>1, <1>3
  <2>5. (c - 1) * (2 * MinimumPackSize - 1)
          = 2 * (c * MinimumPackSize) - 2 * MinimumPackSize - c + 1
    BY <1>1, <1>3
  <2>6. c * (MinimumPackSize - 1) = c * MinimumPackSize - c
    BY <1>1, <1>3
  <2>7. (c - 2) * (MinimumPackSize - 1) >= 0
    BY <1>1, <1>3, <2>1
  <2>8. (c - 2) * (MinimumPackSize - 1) = c * MinimumPackSize - c - 2 * MinimumPackSize + 2
    BY <1>1, <1>3
  <2>9. c * MinimumPackSize \in Int /\ (c - 1) * MaximumPackSize \in Int /\ c * b \in Int
    BY <1>1, <1>2, <1>3
  <2> QED
    BY <1>1, <1>2, <1>3, <2>1, <2>2, <2>3, <2>4, <2>5, <2>6, <2>7, <2>8, <2>9
<1> QED
  BY <1>1, <1>2, <1>3, <1>4, <1>5, <1>6 DEF PackSizesValid, PackSize, c, b, r

(* The invariant of the loop: the packs sliced so far partition the ranks   *)
(* below the offset, and fixedPacks returns only after the last iteration.  *)
LoopInv ==
  /\ LoopTypeOK
  /\ LoopMatchesClosedForm
  /\ \A r \in 0 .. (offset - 1) : \E o \in 0 .. (ordinal - 1) : r \in slices[o]
  /\ \A o \in 0 .. (ordinal - 1) : slices[o] \subseteq 0 .. (offset - 1)
  /\ \A o1, o2 \in 0 .. (ordinal - 1) : o1 # o2 => slices[o1] \cap slices[o2] = {}
  /\ result # "running" => ordinal = PackCount(total)
  /\ SizesNeverRejected

(* The invariant holds before the first iteration of the for loop.          *)
LEMMA InitLoopInv == LoopInit => LoopInv
<1> SUFFICES ASSUME LoopInit PROVE LoopInv
  OBVIOUS
<1>1. total \in Nat \ {0}
  BY MaxSessionsAssumption DEF LoopInit
<1>2. PackCount(total) \in Nat \ {0} /\ PackOffset(total, 0) = 0
  BY <1>1, PackCountBounds, OffsetRecurrence
<1> QED
  BY <1>1, <1>2 DEF LoopInit, LoopInv, LoopTypeOK, LoopMatchesClosedForm, SizesNeverRejected

(* One iteration of the for loop of fixedPacks keeps the invariant.         *)
LEMMA SliceKeepsLoopInv ==
  ASSUME LoopInv, Slice PROVE LoopInv'
<1> DEFINE size == PackSize(total, ordinal)
<1>1. total \in Nat \ {0} /\ ordinal \in Nat /\ offset \in Nat /\ ordinal < PackCount(total)
  BY MaxSessionsAssumption DEF LoopInv, LoopTypeOK, Slice, MorePacks
<1>2. PackCount(total) \in Nat \ {0} /\ size \in Nat
  BY <1>1, PackCountBounds, PackSizeType
<1>3. ordinal' = ordinal + 1 /\ offset' = offset + size /\ total' = total /\ result' = result
      /\ result = "running"
  BY DEF Slice
<1>4. offset' = PackOffset(total, ordinal + 1) /\ offset = PackOffset(total, ordinal)
  BY <1>1, <1>3, OffsetRecurrence DEF LoopInv, LoopMatchesClosedForm
<1> DEFINE new == {r \in 0 .. (total - 1) : offset <= r /\ r < offset + size}
<1>5. slices' = [o \in 0 .. ordinal |-> IF o = ordinal THEN new ELSE slices[o]]
  BY DEF Slice
<1>6. offset' <= total
  <2>1. ordinal + 1 \in 0 .. PackCount(total)
    BY <1>1, <1>2
  <2> QED
    BY <2>1, <1>1, <1>4, OffsetBounded
<1>7. new = offset .. (offset' - 1)
  BY <1>1, <1>2, <1>3, <1>6
<1>8. \A o \in 0 .. (ordinal - 1) : slices'[o] = slices[o]
  BY <1>1, <1>5
<1>9. slices'[ordinal] = new
  BY <1>1, <1>5
<1>10. LoopTypeOK'
  BY <1>1, <1>2, <1>3, <1>5, <1>7 DEF LoopInv, LoopTypeOK
<1>11. LoopMatchesClosedForm'
  <2>1. new = PackRanks(total, ordinal)
    BY <1>1, <1>2, <1>3, <1>4, <1>7 DEF PackRanks
  <2>2. \A o \in 0 .. ordinal : slices'[o] = PackRanks(total, o)
    <3> SUFFICES ASSUME NEW o \in 0 .. ordinal PROVE slices'[o] = PackRanks(total, o)
      OBVIOUS
    <3>1. CASE o = ordinal
      BY <1>9, <2>1, <3>1
    <3>2. CASE o # ordinal
      <4>1. o \in 0 .. (ordinal - 1)
        BY <1>1, <3>2
      <4> QED
        BY <4>1, <1>8 DEF LoopInv, LoopMatchesClosedForm
    <3> QED
      BY <3>1, <3>2
  <2> QED
    BY <1>1, <1>3, <1>4, <2>2 DEF LoopMatchesClosedForm
<1>12. \A r \in 0 .. (offset' - 1) : \E o \in 0 .. (ordinal' - 1) : r \in slices'[o]
  <2> SUFFICES ASSUME NEW r \in 0 .. (offset' - 1)
               PROVE  \E o \in 0 .. ordinal : r \in slices'[o]
    BY <1>1, <1>3
  <2>1. CASE r < offset
    <3>1. r \in 0 .. (offset - 1)
      BY <1>1, <1>2, <1>3, <2>1
    <3>2. PICK o \in 0 .. (ordinal - 1) : r \in slices[o]
      BY <3>1 DEF LoopInv
    <3> QED
      BY <1>1, <1>8, <3>2
  <2>2. CASE offset <= r
    BY <1>1, <1>2, <1>3, <1>7, <1>9, <2>2
  <2> QED
    BY <1>1, <1>2, <1>3, <2>1, <2>2
<1>13. \A o \in 0 .. (ordinal' - 1) : slices'[o] \subseteq 0 .. (offset' - 1)
  <2> SUFFICES ASSUME NEW o \in 0 .. ordinal
               PROVE  slices'[o] \subseteq 0 .. (offset' - 1)
    BY <1>1, <1>3
  <2>1. CASE o = ordinal
    BY <1>1, <1>2, <1>3, <1>7, <1>9, <2>1
  <2>2. CASE o # ordinal
    <3>1. o \in 0 .. (ordinal - 1)
      BY <1>1, <2>2
    <3>2. slices'[o] \subseteq 0 .. (offset - 1)
      BY <3>1, <1>8 DEF LoopInv
    <3> QED
      BY <3>2, <1>1, <1>2, <1>3
  <2> QED
    BY <2>1, <2>2
<1>14. \A o1, o2 \in 0 .. (ordinal' - 1) : o1 # o2 => slices'[o1] \cap slices'[o2] = {}
  <2>1. \A o \in 0 .. (ordinal - 1) : slices'[o] \cap new = {}
    <3> SUFFICES ASSUME NEW o \in 0 .. (ordinal - 1) PROVE slices'[o] \cap new = {}
      OBVIOUS
    <3>1. slices'[o] \subseteq 0 .. (offset - 1)
      BY <1>8 DEF LoopInv
    <3> QED
      BY <3>1, <1>1, <1>2
  <2>2. \A o1, o2 \in 0 .. (ordinal - 1) : o1 # o2 => slices'[o1] \cap slices'[o2] = {}
    BY <1>8 DEF LoopInv
  <2> HIDE DEF new
  <2> QED
    BY <1>1, <1>3, <1>9, <2>1, <2>2
<1> QED
  BY <1>3, <1>10, <1>11, <1>12, <1>13, <1>14 DEF LoopInv, SizesNeverRejected

(* The size check behind the loop of fixedPacks keeps the invariant.        *)
LEMMA CheckKeepsLoopInv ==
  ASSUME LoopInv, Check PROVE LoopInv'
<1>1. total \in Nat \ {0} /\ ordinal \in Nat
  BY MaxSessionsAssumption DEF LoopInv, LoopTypeOK
<1>2. PackCount(total) \in Nat \ {0} /\ PackSizesValid(total)
  BY <1>1, PackCountBounds, PacksAreValid
<1>3. ordinal = PackCount(total)
  BY <1>1, <1>2 DEF Check, MorePacks, LoopInv, LoopTypeOK
<1>4. result' = "returned"
  BY <1>2 DEF Check
<1> QED
  BY <1>3, <1>4 DEF Check, LoopInv, LoopTypeOK, LoopMatchesClosedForm, SizesNeverRejected

(* The loop keeps its invariant.                                            *)
THEOREM LoopInvariant == LoopSpec => []LoopInv
<1>1. LoopInv /\ [LoopNext]_loopVars => LoopInv'
  <2> SUFFICES ASSUME LoopInv, [LoopNext]_loopVars PROVE LoopInv'
    OBVIOUS
  <2>1. CASE Slice
    BY <2>1, SliceKeepsLoopInv
  <2>2. CASE Check
    BY <2>2, CheckKeepsLoopInv
  <2>3. CASE UNCHANGED loopVars
    BY <2>3 DEF loopVars, LoopInv, LoopTypeOK, LoopMatchesClosedForm, SizesNeverRejected
  <2> QED
    BY <2>1, <2>2, <2>3 DEF LoopNext
<1> QED
  BY <1>1, InitLoopInv, PTL DEF LoopSpec

(* The variables of the fixedPacks loop keep their types; ordinal never     *)
(* passes the number of packs.                                              *)
THEOREM LoopTyped == LoopSpec => []LoopTypeOK
<1>1. LoopInv => LoopTypeOK
  BY DEF LoopInv
<1> QED
  BY <1>1, LoopInvariant, PTL

(* The other modules may use the closed form in place of the loop.          *)
THEOREM ClosedFormIsTheLoop == LoopSpec => []LoopMatchesClosedForm
<1>1. LoopInv => LoopMatchesClosedForm
  BY DEF LoopInv
<1> QED
  BY <1>1, LoopInvariant, PTL

(* When fixedPacks returns, every eligible session is in exactly one pack,  *)
(* whatever the limits and the number of sessions.                          *)
THEOREM PacksPartitionSessions == LoopSpec => []EverySessionPackedOnce
<1>1. LoopInv => EverySessionPackedOnce
  <2> SUFFICES ASSUME LoopInv, result = "returned" PROVE EverySessionPackedOnce
    BY DEF EverySessionPackedOnce
  <2>1. total \in Nat \ {0} /\ ordinal = PackCount(total)
    BY MaxSessionsAssumption DEF LoopInv, LoopTypeOK
  <2>2. offset = total
    BY <2>1, OffsetRecurrence DEF LoopInv, LoopMatchesClosedForm
  <2> QED
    BY <2>2 DEF LoopInv, EverySessionPackedOnce
<1> QED
  BY <1>1, LoopInvariant, PTL

(* authoring_v5_pack_size_invalid is never thrown.                          *)
THEOREM SizeCheckIsDead == LoopSpec => []SizesNeverRejected
<1>1. LoopInv => SizesNeverRejected
  BY DEF LoopInv
<1> QED
  BY <1>1, LoopInvariant, PTL

(* The three together, as the run checks them.                              *)
THEOREM PacksExact == LoopSpec => []PacksAreExact
<1>1. (LoopMatchesClosedForm /\ EverySessionPackedOnce /\ SizesNeverRejected) => PacksAreExact
  BY DEF PacksAreExact
<1> QED
  BY <1>1, ClosedFormIsTheLoop, PacksPartitionSessions, SizeCheckIsDead, PTL

-----------------------------------------------------------------------------
(* Rows                                                                     *)

(* Whatever a transition is applied to, the derived columns fit the row.    *)
LEMMA RefreshedRow ==
  ASSUME NEW x \in Row PROVE Refreshed(x) \in Row
<1>1. ResolutionFor(x) \in Resolution
  BY DEF ResolutionFor, Resolution
<1>2. NextActionFor(x) \in NextAction
  BY DEF NextActionFor, NextAction
<1> QED
  BY <1>1, <1>2 DEF Refreshed, Row

(* Every transition of workbench_session_state used here yields a row.      *)
LEMMA RowTransitions ==
  ASSUME NEW x \in Row
  PROVE  /\ FreshRow \in Row
         /\ WithTranscript(x, "imported") \in Row
         /\ \A source \in Source, revision \in Int : QualityPassed(x, source, revision) \in Row
         /\ \A source \in Source, suppression \in Suppression, revision \in Int :
              QualityFailed(x, source, suppression, revision) \in Row
         /\ Published(DossierApplied(EnrichmentSatisfied(x))) \in Row
<1>1. FreshRow \in Row
  BY DEF FreshRow, Row, Publication, NextAction, Transcript, Quality, Requirement, Package,
         Resolution, Suppression, Source, NoRevision
<1>2. WithTranscript(x, "imported") \in Row
  <2>1. [x EXCEPT !.transcript = "imported"] \in Row
    BY DEF Row, Transcript
  <2> QED
    BY <2>1, RefreshedRow DEF WithTranscript
<1>3. ASSUME NEW source \in Source, NEW revision \in Int
      PROVE  QualityPassed(x, source, revision) \in Row
  <2> DEFINE passed == [x EXCEPT !.quality = "passed", !.suppression = "none",
                                 !.source = source, !.revision = revision]
  <2>1. passed \in Row
    BY DEF Row, Quality, Suppression
  <2>2. [passed EXCEPT !.publication = "publish_path"] \in Row
    BY <2>1 DEF Row, Publication
  <2> QED
    BY <2>1, <2>2, RefreshedRow DEF QualityPassed
<1>4. ASSUME NEW source \in Source, NEW suppression \in Suppression, NEW revision \in Int
      PROVE  QualityFailed(x, source, suppression, revision) \in Row
  BY DEF QualityFailed, Row, Quality, Publication, NextAction
<1>5. EnrichmentSatisfied(x) \in Row
  <2>1. [x EXCEPT !.enrichment = "satisfied",
           !.package = IF x.publication = "published" THEN "published"
                       ELSE IF x.dossier = "satisfied" THEN "applied" ELSE @] \in Row
    BY DEF Row, Requirement, Package
  <2> QED
    BY <2>1, RefreshedRow DEF EnrichmentSatisfied
<1>6. ASSUME NEW y \in Row PROVE DossierApplied(y) \in Row
  <2>1. [y EXCEPT !.dossier = "satisfied",
           !.package = IF y.publication = "published" THEN "published"
                       ELSE IF y.enrichment = "satisfied" THEN "applied" ELSE @] \in Row
    BY DEF Row, Requirement, Package
  <2> QED
    BY <2>1, RefreshedRow DEF DossierApplied
<1>7. ASSUME NEW y \in Row PROVE Published(y) \in Row
  <2>1. [y EXCEPT !.publication = "published", !.package = "published"] \in Row
    BY DEF Row, Publication, Package
  <2> QED
    BY <2>1, RefreshedRow DEF Published
<1> QED
  BY <1>1, <1>2, <1>3, <1>4, <1>5, <1>6, <1>7

-----------------------------------------------------------------------------
(* Types                                                                    *)

(* A preparation never has more outcomes than sessions, which makes every   *)
(* eligible ordinal an index of the selection.                              *)
OutcomesFit == \A r \in Request : Len(outcome[r]) <= Len(Selection[r])

TypeInv == TypeOK /\ OutcomesFit

(* Functions on an initial interval are sequences.                          *)
LEMMA IntervalFunction ==
  ASSUME NEW S, NEW k \in Nat, NEW f \in [1 .. k -> S]
  PROVE  f \in Seq(S) /\ Len(f) = k /\ DOMAIN f = 1 .. k
  OBVIOUS

(* The sessions of a selection and of its packs are sessions.               *)
LEMMA SessionsOfSelection ==
  ASSUME TypeInv, NEW r \in Request
  PROVE  /\ Selection[r] \in Seq(Session)
         /\ Selected(r) \subseteq Session
         /\ EligibleOrdinals(r) \subseteq DOMAIN Selection[r]
         /\ \A ranks : SessionsAtRanks(r, ranks) \subseteq Session
<1>1. Selection[r] \in Seq(Session)
  BY SelectionAssumption
<1>2. Selected(r) \subseteq Session
  BY <1>1 DEF Selected
<1>3. EligibleOrdinals(r) \subseteq DOMAIN Selection[r]
  <2>1. outcome[r] \in Seq({"eligible", "excluded"}) /\ Len(outcome[r]) <= Len(Selection[r])
    BY DEF TypeInv, TypeOK, OutcomesFit
  <2> QED
    BY <1>1, <2>1 DEF EligibleOrdinals
<1> QED
  BY <1>1, <1>2, <1>3 DEF SessionsAtRanks

(* One preparation transaction settles an interval of ordinals that starts  *)
(* where the one before stopped.                                            *)
LEMMA SettledInterval ==
  ASSUME TypeInv, NEW r \in Request
  PROVE  \E top \in Nat :
           /\ Len(outcome[r]) <= top /\ top <= Len(Selection[r])
           /\ Settled(r) = (Len(outcome[r]) + 1) .. top
           /\ DOMAIN outcome[r] \cup Settled(r) = 1 .. top
<1> DEFINE L == Len(outcome[r])
           N == Len(Selection[r])
           B == L + PreparationBatch
<1>1. /\ outcome[r] \in Seq({"eligible", "excluded"}) /\ L \in Nat /\ L <= N
      /\ DOMAIN outcome[r] = 1 .. L
      /\ Selection[r] \in Seq(Session) /\ N \in Nat /\ DOMAIN Selection[r] = 1 .. N
      /\ PreparationBatch \in Nat \ {0}
  <2>1. outcome[r] \in Seq({"eligible", "excluded"}) /\ L <= N
    BY DEF TypeInv, TypeOK, OutcomesFit
  <2>2. Selection[r] \in Seq(Session)
    BY SessionsOfSelection
  <2> QED
    BY <2>1, <2>2, BoundAssumption
<1>2. BatchOrdinals(r) = {k \in 1 .. N : L + 1 <= k /\ k < L + 1 + PreparationBatch}
  BY <1>1 DEF BatchOrdinals, BatchStart
<1>3. CASE Stops(r) = {}
  <2>1. Settled(r) = {k \in 1 .. N : L + 1 <= k /\ k < L + 1 + PreparationBatch}
    BY <1>2, <1>3 DEF Settled
  <2> DEFINE top == IF N < B THEN N ELSE B
  <2>2. top \in Nat /\ L <= top /\ top <= N
    BY <1>1
  <2>3. Settled(r) = (L + 1) .. top
    BY <1>1, <2>1
  <2>4. (1 .. L) \cup ((L + 1) .. top) = 1 .. top
    BY <1>1, <2>2
  <2> QED
    BY <1>1, <2>2, <2>3, <2>4
<1>4. CASE Stops(r) # {}
  <2>1. Stops(r) \subseteq Nat /\ Stops(r) \subseteq BatchOrdinals(r)
    BY <1>1, <1>2 DEF Stops
  <2>2. PICK x \in Stops(r) : \A y \in Stops(r) : x <= y
    BY <1>4, <2>1, LeastElement
  <2>3. x \in Nat /\ L + 1 <= x /\ x <= N /\ x < L + 1 + PreparationBatch
    BY <1>1, <1>2, <2>1
  <2>4. \A k \in BatchOrdinals(r) : (\A j \in Stops(r) : k < j) <=> k < x
    BY <1>1, <1>2, <2>1, <2>2
  <2>5. Settled(r) = {k \in BatchOrdinals(r) : k < x}
    BY <2>4 DEF Settled
  <2>6. Settled(r) = (L + 1) .. (x - 1)
    BY <1>1, <1>2, <2>3, <2>5
  <2>7. (1 .. L) \cup ((L + 1) .. (x - 1)) = 1 .. (x - 1)
    BY <1>1, <2>3
  <2>8. x - 1 \in Nat /\ L <= x - 1 /\ x - 1 <= N
    BY <1>1, <2>3
  <2> QED
    BY <1>1, <2>6, <2>7, <2>8
<1> QED
  BY <1>3, <1>4

(* A draft's verdict on a session it names is a disposition.                *)
LEMMA VerdictOf ==
  ASSUME NEW d \in Draft, NEW s \in DOMAIN d.verdict
  PROVE  d.verdict[s] \in Disposition
  BY DEF Draft, Verdicts

(* No draft is a draft.                                                     *)
LEMMA NoDraftIsDraft == NoDraft \in Draft
<1>1. [s \in {} |-> "publish"] \in [{} -> Disposition]
  OBVIOUS
<1>2. [s \in {} |-> "publish"] \in Verdicts
  BY <1>1 DEF Verdicts
<1> QED
  BY <1>2 DEF NoDraft, Draft

(* A pack that is replaced by a pack leaves a sequence of packs.            *)
LEMMA PackReplaced ==
  ASSUME TypeOK, NEW r \in Request, NEW o \in DOMAIN pack[r], NEW p \in Pack,
         pack' = [pack EXCEPT ![r][o] = p]
  PROVE  pack' \in [Request -> Seq(Pack)]
<1>1. pack \in [Request -> Seq(Pack)]
  BY DEF TypeOK
<1>2. [pack[r] EXCEPT ![o] = p] \in Seq(Pack)
  BY <1>1
<1> QED
  BY <1>1, <1>2

(* The types hold at first.                                                 *)
LEMMA InitTypeInv == Init => TypeInv
<1> SUFFICES ASSUME Init PROVE TypeInv
  OBVIOUS
<1>1. \A r \in Request : Len(Selection[r]) \in Nat
  BY SelectionAssumption
<1>2. OutcomesFit
  BY <1>1 DEF Init, OutcomesFit
<1>3. TypeOK
  BY EvidenceAssumption
  DEF Init, TypeOK, PrepStatus, ErrorCode, MemberState
<1> QED
  BY <1>2, <1>3 DEF TypeInv

(* Creating, failing and retrying a preparation keep the types.             *)
LEMMA StatusStepsTyped ==
  ASSUME TypeInv, NEW r \in Request,
         Create(r) \/ FinalizeNoEligible(r) \/ StepFails(r) \/ Retry(r)
  PROVE  TypeInv'
<1>1. UNCHANGED <<outcome, pages, requestVars, up, crashes, sessionVars>>
  BY DEF Create, FinalizeNoEligible, StepFails, Retry
<1>2. OutcomesFit'
  BY <1>1 DEF TypeInv, OutcomesFit
<1>3. status' \in [Request -> PrepStatus] /\ error' \in [Request -> ErrorCode]
  BY DEF Create, FinalizeNoEligible, StepFails, Retry, TypeInv, TypeOK, PrepStatus, ErrorCode
<1>4. ready' \in [Request -> SUBSET Session]
  <2>1. CASE Create(r)
    <3>1. Selected(r) \subseteq Session
      BY SessionsOfSelection
    <3> QED
      BY <2>1, <3>1 DEF Create, TypeInv, TypeOK
  <2> QED
    BY <2>1 DEF FinalizeNoEligible, StepFails, Retry, TypeInv, TypeOK
<1>5. created' \in Seq(Request)
  <2>1. created \in Seq(Request)
    BY DEF TypeInv, TypeOK
  <2>2. created' = created \/ created' = Append(created, r)
    BY DEF Create, FinalizeNoEligible, StepFails, Retry
  <2> QED
    BY <2>1, <2>2
<1>6. queue' \in Seq(Request)
  <2>1. queue \in Seq(Request)
    BY DEF TypeInv, TypeOK
  <2>2. queue' = Append(queue, r) \/ (queue # <<>> /\ queue' = Tail(queue))
    BY DEF Create, Retry, FinalizeNoEligible, Finalizing, StepFails, AtHead
  <2> QED
    BY <2>1, <2>2
<1>7. failures' \in Nat
  <2>1. failures \in Nat
    BY DEF TypeInv, TypeOK
  <2>2. failures' = failures \/ failures' = failures + 1
    BY DEF Create, FinalizeNoEligible, StepFails, Retry
  <2> QED
    BY <2>1, <2>2
<1> QED
  BY <1>1, <1>2, <1>3, <1>4, <1>5, <1>6, <1>7
  DEF TypeInv, TypeOK, requestVars, sessionVars

(* A preparation batch disposes of rows and appends outcomes.               *)
LEMMA PrepareBatchTyped ==
  ASSUME TypeInv, NEW r \in Request, PrepareBatch(r)
  PROVE  TypeInv'
<1>1. UNCHANGED <<stored, status, error, ready, created, requestVars, daemonVars>>
  BY DEF PrepareBatch
<1>2. row' \in [Session -> Row]
  <2>1. PICK precheck :
          row' = [s \in Session |-> IF s \in DOMAIN precheck THEN Disposed(row[s], precheck[s], 0) ELSE row[s]]
    BY DEF PrepareBatch
  <2>2. ASSUME NEW x \in Row, NEW c PROVE Disposed(x, c, 0) \in Row
    <3>1. 0 \in Int /\ "automatic" \in Source
          /\ "insufficient_evidence" \in Suppression /\ "confirmed_noise" \in Suppression
      BY DEF Source, Suppression
    <3> QED
      BY <3>1, RowTransitions DEF Disposed
  <2>3. row \in [Session -> Row]
    BY DEF TypeInv, TypeOK
  <2> QED
    BY <2>1, <2>2, <2>3
<1>3. pages' \in [Request -> Nat]
  <2>1. pages \in [Request -> Nat]
    BY DEF TypeInv, TypeOK
  <2>2. \A k : PagesBefore(r, k) \in Nat
    BY <2>1 DEF PagesBefore
  <2>3. PagesAfter(r) \in Nat
    BY <2>2 DEF PagesAfter
  <2>4. pages' = [pages EXCEPT ![r] = PagesAfter(r)]
    BY DEF PrepareBatch
  <2> QED
    BY <2>1, <2>3, <2>4
<1>4. PICK top \in Nat :
           /\ Len(outcome[r]) <= top /\ top <= Len(Selection[r])
           /\ Settled(r) = (Len(outcome[r]) + 1) .. top
           /\ DOMAIN outcome[r] \cup Settled(r) = 1 .. top
  BY SettledInterval
<1> DEFINE f == [k \in DOMAIN outcome[r] \cup Settled(r) |->
                   IF k \in Settled(r) THEN SettledOutcome(r, k) ELSE outcome[r][k]]
<1>5. outcome \in [Request -> Seq({"eligible", "excluded"})]
  BY DEF TypeInv, TypeOK
<1>6. f \in [1 .. top -> {"eligible", "excluded"}]
  <2>1. \A k : SettledOutcome(r, k) \in {"eligible", "excluded"}
    BY DEF SettledOutcome
  <2>2. \A k \in DOMAIN outcome[r] : outcome[r][k] \in {"eligible", "excluded"}
    BY <1>5
  <2> QED
    BY <1>4, <2>1, <2>2
<1>7. f \in Seq({"eligible", "excluded"}) /\ Len(f) = top
  BY <1>6, IntervalFunction
<1>8. outcome' = [outcome EXCEPT ![r] = f]
  BY DEF PrepareBatch, WithSettled
<1>9. outcome' \in [Request -> Seq({"eligible", "excluded"})]
  BY <1>5, <1>7, <1>8
<1>10. OutcomesFit'
  BY <1>4, <1>5, <1>7, <1>8 DEF TypeInv, OutcomesFit
<1> QED
  BY <1>1, <1>2, <1>3, <1>9, <1>10 DEF TypeInv, TypeOK, requestVars, daemonVars

(* The transactions that write the request, its members and its packs.      *)
LEMMA FinalizeStepsTyped ==
  ASSUME TypeInv, NEW r \in Request,
         FinalizeShell(r) \/ FinalizeMembers(r) \/ FinalizePack(r) \/ FinalizeRelease(r)
  PROVE  TypeInv'
<1>1. UNCHANGED <<sessionVars, ready, outcome, pages, created, receipt, up, failures, crashes>>
  BY DEF FinalizeShell, FinalizeMembers, FinalizePack, FinalizeRelease, prepVars, daemonVars
<1>2. OutcomesFit'
  BY <1>1 DEF TypeInv, OutcomesFit
<1>3. status' \in [Request -> PrepStatus] /\ error' \in [Request -> ErrorCode]
  BY DEF FinalizeShell, FinalizeMembers, FinalizePack, FinalizeRelease, prepVars, TypeInv, TypeOK,
         PrepStatus, ErrorCode
<1>4. queue' \in Seq(Request)
  <2>1. queue \in Seq(Request)
    BY DEF TypeInv, TypeOK
  <2>2. queue' = queue \/ (queue # <<>> /\ queue' = Tail(queue))
    BY DEF FinalizeShell, FinalizeMembers, FinalizePack, FinalizeRelease, Building, Finalizing,
           AtHead, daemonVars
  <2> QED
    BY <2>1, <2>2
<1>5. reqStatus' \in [Request -> {"none", "open", "active", "completed"}]
  BY DEF FinalizeShell, FinalizeMembers, FinalizePack, FinalizeRelease, TypeInv, TypeOK
<1>6. member' \in [Request -> [Session -> MemberState]]
  <2>1. member \in [Request -> [Session -> MemberState]] /\ "pending" \in MemberState
    BY DEF TypeInv, TypeOK, MemberState
  <2>2. CASE FinalizeMembers(r)
    <3> DEFINE f == [s \in Session |-> IF s \in MemberSlice(r) /\ member[r][s] = "none"
                                         THEN "pending" ELSE member[r][s]]
    <3>1. f \in [Session -> MemberState]
      BY <2>1
    <3>2. member' = [member EXCEPT ![r] = f]
      BY <2>2 DEF FinalizeMembers
    <3> QED
      BY <2>1, <3>1, <3>2
  <2> QED
    BY <2>1, <2>2 DEF FinalizeShell, FinalizePack, FinalizeRelease
<1>7. pack' \in [Request -> Seq(Pack)]
  <2>0. pack \in [Request -> Seq(Pack)]
    BY DEF TypeInv, TypeOK
  <2>1. CASE FinalizeShell(r) \/ FinalizeMembers(r)
    BY <2>0, <2>1 DEF FinalizeShell, FinalizeMembers
  <2>2. CASE FinalizePack(r)
    <3>1. InsertedPack(r, Len(pack[r]) + 1) \in Pack
      <4>1. PlannedMembers(r, Len(pack[r]) + 1 - 1) \subseteq Session
        BY SessionsOfSelection DEF PlannedMembers
      <4> QED
        BY <4>1, NoDraftIsDraft DEF InsertedPack, Pack, PackStatus
    <3> QED
      BY <2>0, <2>2, <3>1 DEF FinalizePack
  <2>3. CASE FinalizeRelease(r)
    <3> DEFINE f == [o \in DOMAIN pack[r] |->
                       IF pack[r][o].status = "pending"
                         THEN [pack[r][o] EXCEPT !.status = "available"] ELSE pack[r][o]]
    <3>1. \A o \in DOMAIN pack[r] : pack[r][o] \in Pack
      BY <2>0
    <3>2. \A p \in Pack : [p EXCEPT !.status = "available"] \in Pack
      BY DEF Pack, PackStatus
    <3>3. f \in [DOMAIN pack[r] -> Pack]
      BY <3>1, <3>2
    <3>4. f \in Seq(Pack)
      BY <2>0, <3>3, IntervalFunction
    <3>5. pack' = [pack EXCEPT ![r] = f]
      BY <2>3 DEF FinalizeRelease, Released
    <3> QED
      BY <2>0, <3>4, <3>5
  <2> QED
    BY <2>1, <2>2, <2>3
<1> QED
  BY <1>1, <1>2, <1>3, <1>4, <1>5, <1>6, <1>7 DEF TypeInv, TypeOK, sessionVars

(* Claiming a pack and saving a draft for it.                               *)
LEMMA AuthoringStepsTyped ==
  ASSUME TypeInv, NEW r \in Request,
         ClaimPack(r) \/ \E o \in DOMAIN pack[r] : SaveDraft(r, o)
  PROVE  TypeInv'
<1>1. UNCHANGED <<sessionVars, prepVars, receipt, daemonVars>>
  BY DEF ClaimPack, SaveDraft
<1>2. OutcomesFit'
  BY <1>1 DEF TypeInv, OutcomesFit, prepVars
<1>3. reqStatus' \in [Request -> {"none", "open", "active", "completed"}]
  BY DEF ClaimPack, SaveDraft, TypeInv, TypeOK
<1>4. member' \in [Request -> [Session -> MemberState]]
  <2>1. member \in [Request -> [Session -> MemberState]] /\ "assigned" \in MemberState
    BY DEF TypeInv, TypeOK, MemberState
  <2>2. CASE ClaimPack(r)
    <3>1. \A o : PackAssigned(r, o) \in [Session -> MemberState]
      BY <2>1 DEF PackAssigned
    <3> QED
      BY <2>1, <2>2, <3>1 DEF ClaimPack
  <2> QED
    BY <2>1, <2>2 DEF SaveDraft
<1>5. pack' \in [Request -> Seq(Pack)]
  <2>0. pack \in [Request -> Seq(Pack)] /\ \A o \in DOMAIN pack[r] : pack[r][o] \in Pack
    BY DEF TypeInv, TypeOK
  <2>1. CASE ClaimPack(r)
    <3>1. PICK o \in DOMAIN pack[r] : pack' = [pack EXCEPT ![r][o].status = "active"]
      BY <2>1 DEF ClaimPack, PacksWith
    <3>2. [pack[r][o] EXCEPT !.status = "active"] \in Pack
      BY <2>0 DEF Pack, PackStatus
    <3>3. pack' = [pack EXCEPT ![r][o] = [pack[r][o] EXCEPT !.status = "active"]]
      BY <3>1
    <3> QED
      BY <3>2, <3>3, PackReplaced DEF TypeInv
  <2>2. ASSUME NEW o \in DOMAIN pack[r], SaveDraft(r, o)
        PROVE  pack' \in [Request -> Seq(Pack)]
    <3>1. PICK verdict \in [pack[r][o].members -> Disposition] :
            pack' = [pack EXCEPT
              ![r][o].draft = [revision |-> @.revision + 1, verdict |-> verdict],
              ![r][o].status = "saved"]
      BY <2>2 DEF SaveDraft
    <3> DEFINE d == [revision |-> pack[r][o].draft.revision + 1, verdict |-> verdict]
               p == [pack[r][o] EXCEPT !.draft = d, !.status = "saved"]
    <3>2. verdict \in Verdicts
      BY <2>0 DEF Verdicts, Pack
    <3>3. d \in Draft
      BY <2>0, <3>2 DEF Draft, Pack
    <3>4. p \in Pack
      BY <2>0, <3>3 DEF Pack, PackStatus
    <3>5. pack' = [pack EXCEPT ![r][o] = p]
      BY <2>0, <3>1
    <3> QED
      BY <3>4, <3>5, PackReplaced DEF TypeInv
  <2> QED
    BY <2>1, <2>2
<1> QED
  BY <1>1, <1>2, <1>3, <1>4, <1>5 DEF TypeInv, TypeOK, sessionVars, prepVars, daemonVars

(* The receipt of a request names a pack and a draft for each of its packs. *)
LEMMA RequestReceiptTyped ==
  ASSUME TypeInv, NEW r \in Request, NEW o \in DOMAIN pack[r]
  PROVE  RequestReceipt(r, o) \in Seq([pack : Nat \ {0}, receipt : Draft])
<1>1. /\ pack[r] \in Seq(Pack) /\ Len(pack[r]) \in Nat /\ DOMAIN pack[r] = 1 .. Len(pack[r])
      /\ \A q \in DOMAIN pack[r] : pack[r][q] \in Pack
  BY DEF TypeInv, TypeOK
<1> DEFINE at(k) == IF k = Len(pack[r]) THEN o ELSE IF k < o THEN k ELSE k + 1
           entry(k) == [pack |-> at(k),
                        receipt |-> IF at(k) = o THEN pack[r][o].draft ELSE pack[r][at(k)].receipt]
<1>2. \A k \in DOMAIN pack[r] : at(k) \in DOMAIN pack[r] /\ at(k) \in Nat \ {0}
  BY <1>1
<1>3. \A q \in DOMAIN pack[r] : pack[r][q].draft \in Draft /\ pack[r][q].receipt \in Draft
  BY <1>1 DEF Pack
<1> HIDE DEF at
<1>4. \A k \in DOMAIN pack[r] : entry(k) \in [pack : Nat \ {0}, receipt : Draft]
  BY <1>2, <1>3
<1>5. RequestReceipt(r, o) = [k \in DOMAIN pack[r] |-> entry(k)]
  BY DEF RequestReceipt, at
<1> HIDE DEF entry
<1> QED
  BY <1>1, <1>4, <1>5, IntervalFunction

(* Finishing a pack publishes or rejects its sessions and releases receipts.*)
LEMMA FinishPackTyped ==
  ASSUME TypeInv, NEW r \in Request, NEW o \in DOMAIN pack[r], FinishPack(r, o)
  PROVE  TypeInv'
<1> DEFINE p == pack[r][o]
           done == [p EXCEPT !.status = "completed", !.receipt = p.draft]
           f == [q \in DOMAIN pack[r] |->
                   IF q = o THEN done
                   ELSE IF pack[r][q].status = "pending"
                     THEN [pack[r][q] EXCEPT !.status = "available"] ELSE pack[r][q]]
           g == [s \in Session |-> IF s \in p.members /\ member[r][s] = "assigned"
                                     THEN MemberStateFor(p.draft.verdict[s]) ELSE member[r][s]]
<1>1. UNCHANGED <<stored, prepVars, daemonVars>>
  BY DEF FinishPack
<1>2. OutcomesFit'
  BY <1>1 DEF TypeInv, OutcomesFit, prepVars
<1>3. /\ pack \in [Request -> Seq(Pack)]
      /\ \A q \in DOMAIN pack[r] : pack[r][q] \in Pack
  BY DEF TypeInv, TypeOK
<1>4. \A s \in p.members : p.draft.verdict[s] \in Disposition
  <2>1. p.draft \in Draft
    BY <1>3 DEF Pack
  <2>2. DOMAIN p.draft.verdict = p.members
    BY DEF FinishPack, CanFinish
  <2> QED
    BY <2>1, <2>2, VerdictOf
<1>5. row' \in [Session -> Row]
  <2>1. row \in [Session -> Row]
    BY DEF TypeInv, TypeOK
  <2>2. ASSUME NEW x \in Row, NEW c PROVE FinishedRow(x, c) \in Row
    <3>1. NoRevision \in Int /\ "automatic" \in Source /\ "confirmed_noise" \in Suppression
      BY DEF Source, Suppression, NoRevision
    <3> QED
      BY <3>1, RowTransitions DEF FinishedRow
  <2>3. row' = [s \in Session |->
                  IF s \in p.members THEN FinishedRow(row[s], p.draft.verdict[s]) ELSE row[s]]
    BY DEF FinishPack
  <2> QED
    BY <2>1, <2>2, <2>3
<1>6. member' \in [Request -> [Session -> MemberState]]
  <2>1. member \in [Request -> [Session -> MemberState]]
    BY DEF TypeInv, TypeOK
  <2>2. \A d \in Disposition : MemberStateFor(d) \in MemberState
    BY DEF Disposition, MemberStateFor, MemberState
  <2>3. g \in [Session -> MemberState]
    BY <1>4, <2>1, <2>2
  <2>4. member' = [member EXCEPT ![r] = g]
    BY DEF FinishPack
  <2> QED
    BY <2>1, <2>3, <2>4
<1>7. pack' \in [Request -> Seq(Pack)]
  <2>1. done \in Pack
    BY <1>3 DEF Pack, PackStatus
  <2>2. \A x \in Pack : [x EXCEPT !.status = "available"] \in Pack
    BY DEF Pack, PackStatus
  <2> HIDE DEF done
  <2>3. f \in [DOMAIN pack[r] -> Pack]
    BY <1>3, <2>1, <2>2
  <2>4. f \in Seq(Pack)
    <3>1. Len(pack[r]) \in Nat /\ DOMAIN pack[r] = 1 .. Len(pack[r])
      BY <1>3
    <3> HIDE DEF f
    <3> QED
      BY <2>3, <3>1, IntervalFunction
  <2>5. pack' = [pack EXCEPT ![r] = f]
    BY DEF FinishPack, Released, done
  <2> QED
    BY <1>3, <2>4, <2>5
<1>8. reqStatus' \in [Request -> {"none", "open", "active", "completed"}]
  BY DEF FinishPack, TypeInv, TypeOK
<1>9. receipt' \in [Request -> Seq([pack : Nat \ {0}, receipt : Draft])]
  <2>1. receipt \in [Request -> Seq([pack : Nat \ {0}, receipt : Draft])]
    BY DEF TypeInv, TypeOK
  <2>2. RequestReceipt(r, o) \in Seq([pack : Nat \ {0}, receipt : Draft])
    BY RequestReceiptTyped
  <2>3. receipt' = receipt \/ receipt' = [receipt EXCEPT ![r] = RequestReceipt(r, o)]
    BY DEF FinishPack
  <2> HIDE DEF p, done, f, g
  <2> QED
    BY <2>1, <2>2, <2>3
<1> QED
  BY <1>1, <1>2, <1>5, <1>6, <1>7, <1>8, <1>9 DEF TypeInv, TypeOK, prepVars, daemonVars

(* The decisions of the user, the import and the deletion of a session.     *)
LEMMA SessionStepsTyped ==
  ASSUME TypeInv, NEW s \in Session, SessionStep(s)
  PROVE  TypeInv'
<1>1. UNCHANGED <<prepVars, reqStatus, receipt, daemonVars>>
  BY DEF SessionStep, UserExcludes, UserAccepts, TranscriptImported, DeleteSession, requestVars
<1>2. OutcomesFit'
  BY <1>1 DEF TypeInv, OutcomesFit, prepVars
<1>3. stored' \subseteq Session
  BY DEF SessionStep, UserExcludes, UserAccepts, TranscriptImported, DeleteSession, TypeInv, TypeOK
<1>4. row' \in [Session -> Row]
  <2>1. row \in [Session -> Row] /\ row[s] \in Row
    BY DEF TypeInv, TypeOK
  <2>2. PICK x : row' = [row EXCEPT ![s] = x] /\ x \in Row
    <3>1. CASE UserExcludes(s)
      <4>1. NoRevision \in Int /\ "user" \in Source /\ "manual_exclusion" \in Suppression
        BY DEF NoRevision, Source, Suppression
      <4> QED
        BY <2>1, <3>1, <4>1, RowTransitions DEF UserExcludes
    <3>2. CASE UserAccepts(s)
      <4>1. row[s].source \in Source /\ row[s].revision \in Int
        BY <2>1 DEF Row
      <4> QED
        BY <2>1, <3>2, <4>1, RowTransitions DEF UserAccepts
    <3>3. CASE TranscriptImported(s)
      <4> DEFINE imported == WithTranscript(row[s], "imported")
      <4>1. imported \in Row
        BY <2>1, RowTransitions
      <4>2. QualityPassed(imported, "automatic", 0) \in Row
        <5>1. "automatic" \in Source /\ 0 \in Int
          BY DEF Source
        <5> HIDE DEF imported
        <5> QED
          BY <4>1, <5>1, RowTransitions
      <4> QED
        BY <3>3, <4>1, <4>2 DEF TranscriptImported
    <3>4. CASE DeleteSession(s)
      BY <2>1, <3>4, RowTransitions DEF DeleteSession
    <3> QED
      BY <3>1, <3>2, <3>3, <3>4 DEF SessionStep
  <2> QED
    BY <2>1, <2>2
<1>5. member' \in [Request -> [Session -> MemberState]]
  <2>1. member \in [Request -> [Session -> MemberState]] /\ "none" \in MemberState
    BY DEF TypeInv, TypeOK, MemberState
  <2>2. member' = member \/ member' = [r \in Request |-> [member[r] EXCEPT ![s] = "none"]]
    BY DEF SessionStep, UserExcludes, UserAccepts, TranscriptImported, DeleteSession, requestVars
  <2> QED
    BY <2>1, <2>2
<1>6. pack' \in [Request -> Seq(Pack)]
  <2>1. pack \in [Request -> Seq(Pack)]
    BY DEF TypeInv, TypeOK
  <2>2. CASE pack' = pack
    BY <2>1, <2>2
  <2>3. CASE pack' = [r \in Request |->
                        [o \in DOMAIN pack[r] |-> MembershipDeleted(pack[r][o], s)]]
    <3>1. \A p \in Pack : MembershipDeleted(p, s) \in Pack
      BY DEF MembershipDeleted, Pack
    <3>2. ASSUME NEW r \in Request
          PROVE  [o \in DOMAIN pack[r] |-> MembershipDeleted(pack[r][o], s)] \in Seq(Pack)
      BY <2>1, <3>1, IntervalFunction
    <3> QED
      BY <2>3, <3>2
  <2> QED
    BY <2>2, <2>3
    DEF SessionStep, UserExcludes, UserAccepts, TranscriptImported, DeleteSession, requestVars
<1> QED
  BY <1>1, <1>2, <1>3, <1>4, <1>5, <1>6 DEF TypeInv, TypeOK, prepVars, daemonVars

(* A crash empties the queue; the restart rebuilds it from what SQLite has. *)
LEMMA CrashStepsTyped ==
  ASSUME TypeInv, Crash \/ Restart
  PROVE  TypeInv'
<1>1. UNCHANGED <<sessionVars, prepVars, requestVars, failures>>
  BY DEF Crash, Restart
<1>2. OutcomesFit'
  BY <1>1 DEF TypeInv, OutcomesFit, prepVars
<1>3. queue' \in Seq(Request)
  <2>1. CASE Crash
    BY <2>1 DEF Crash
  <2>2. CASE Restart
    <3>1. created \in Seq(Request)
      BY DEF TypeInv, TypeOK
    <3>2. ResumedQueue \in Seq(Request)
      BY <3>1, SubsequenceElements DEF ResumedQueue
    <3> QED
      BY <2>2, <3>2 DEF Restart
  <2> QED
    BY <2>1, <2>2
<1>4. up' \in BOOLEAN /\ crashes' \in Nat
  <2>1. up \in BOOLEAN /\ crashes \in Nat
    BY DEF TypeInv, TypeOK
  <2>2. up' \in BOOLEAN
    BY <2>1 DEF Crash, Restart
  <2>3. crashes' = crashes + 1 \/ crashes' = crashes
    BY DEF Crash, Restart
  <2> QED
    BY <2>1, <2>2, <2>3
<1> QED
  BY <1>1, <1>2, <1>3, <1>4 DEF TypeInv, TypeOK, sessionVars, prepVars, requestVars

(* Every step keeps the types.                                              *)
LEMMA TypesKept ==
  ASSUME TypeInv, [Next]_vars PROVE TypeInv'
<1>1. ASSUME NEW r \in Request, RequestStep(r) PROVE TypeInv'
  BY <1>1, StatusStepsTyped, PrepareBatchTyped, FinalizeStepsTyped, AuthoringStepsTyped,
     FinishPackTyped
  DEF RequestStep, PreparationStep
<1>2. CASE UNCHANGED vars
  BY <1>2
  DEF vars, sessionVars, prepVars, requestVars, daemonVars, TypeInv, TypeOK, OutcomesFit
<1> QED
  BY <1>1, <1>2, SessionStepsTyped, CrashStepsTyped DEF Next

(* Type correctness, for any number of sessions, requests, packs, failures  *)
(* and crashes: in particular a finish stores a member state for every      *)
(* disposition, and no preparation runs past its selection.                 *)
THEOREM TypesHold == Spec => []TypeOK
<1>1. Init => TypeInv
  BY InitTypeInv
<1>2. TypeInv /\ [Next]_vars => TypeInv'
  BY TypesKept
<1>3. TypeInv => TypeOK
  BY DEF TypeInv
<1> QED
  BY <1>1, <1>2, <1>3, PTL DEF Spec

-----------------------------------------------------------------------------
(* Stages                                                                   *)

(* A request row exists only once every outcome is known, so the number of  *)
(* packs is fixed while they are inserted; packs stay pending until the     *)
(* preparation is ready, and by then all of them are there.                 *)
Staged(r) ==
  /\ reqStatus[r] = "none" => pack[r] = <<>>
  /\ reqStatus[r] # "none" => AllPrepared(r) /\ Len(pack[r]) <= PackCount(EligibleCount(r))
  /\ status[r] # "ready" => \A o \in DOMAIN pack[r] : pack[r][o].status = "pending"
  /\ status[r] = "ready" =>
       /\ reqStatus[r] # "none"
       /\ Len(pack[r]) = PackCount(EligibleCount(r))
       /\ \A o \in DOMAIN pack[r] : pack[r][o].status # "pending"

StageInv == TypeInv /\ \A r \in Request : Staged(r)

(* The number of packs is a natural number.                                 *)
LEMMA PackCountIsNatural ==
  ASSUME TypeInv, NEW r \in Request
  PROVE  EligibleCount(r) \in Nat /\ PackCount(EligibleCount(r)) \in Nat
<1>1. outcome[r] \in Seq({"eligible", "excluded"}) /\ Len(outcome[r]) \in Nat
      /\ EligibleOrdinals(r) \subseteq 1 .. Len(outcome[r])
  BY DEF TypeInv, TypeOK, EligibleOrdinals
<1>2. IsFiniteSet(1 .. Len(outcome[r]))
  BY <1>1, FS_Interval
<1>3. IsFiniteSet(EligibleOrdinals(r))
  BY <1>1, <1>2, FS_Subset
<1>4. EligibleCount(r) \in Nat
  BY <1>3, FS_CardinalityType DEF EligibleCount
<1>5. MaximumPackSize \in Nat \ {0}
  BY PackSizeAssumption
<1> QED
  BY <1>4, <1>5, SMT DEF PackCount

(* What a request's stage depends on.                                       *)
LEMMA StageFrame ==
  ASSUME NEW r \in Request, Staged(r),
         status'[r] = status[r], reqStatus'[r] = reqStatus[r], outcome'[r] = outcome[r],
         DOMAIN pack'[r] = DOMAIN pack[r], Len(pack'[r]) = Len(pack[r]),
         pack[r] = <<>> => pack'[r] = <<>>,
         \A o \in DOMAIN pack[r] : pack'[r][o].status = pack[r][o].status
  PROVE  Staged(r)'
<1>1. EligibleCount(r)' = EligibleCount(r) /\ AllPrepared(r)' = AllPrepared(r)
  BY DEF EligibleCount, EligibleOrdinals, AllPrepared
<1>2. PackCount(EligibleCount(r))' = PackCount(EligibleCount(r))
  BY <1>1 DEF PackCount
<1> QED
  BY <1>1, <1>2 DEF Staged

(* Preparing, failing and retrying: no pack is touched, and outcomes only   *)
(* grow before the request row exists.                                      *)
LEMMA StageOfStatusSteps ==
  ASSUME StageInv, NEW r \in Request,
         Create(r) \/ PrepareBatch(r) \/ FinalizeNoEligible(r) \/ StepFails(r) \/ Retry(r)
  PROVE  Staged(r)'
<1>1. status[r] # "ready" /\ UNCHANGED <<pack, reqStatus>>
  BY DEF Create, PrepareBatch, FinalizeNoEligible, Finalizing, StepFails, Retry, AtHead, Preparing,
         requestVars
<1>2. status'[r] # "ready"
  BY DEF Create, PrepareBatch, FinalizeNoEligible, Finalizing, StepFails, Retry, AtHead, Preparing,
         StageInv, TypeInv, TypeOK
<1>3. reqStatus[r] # "none" => outcome'[r] = outcome[r]
  BY DEF Create, PrepareBatch, FinalizeNoEligible, StepFails, Retry, StageInv, Staged
<1>4. reqStatus[r] # "none" => AllPrepared(r)' /\ PackCount(EligibleCount(r))' = PackCount(EligibleCount(r))
  BY <1>3 DEF EligibleCount, EligibleOrdinals, AllPrepared, PackCount, StageInv, Staged
<1> QED
  BY <1>1, <1>2, <1>4 DEF StageInv, Staged

(* The transactions of the finalisation.                                    *)
LEMMA StageOfFinalizeSteps ==
  ASSUME StageInv, NEW r \in Request,
         FinalizeShell(r) \/ FinalizeMembers(r) \/ FinalizePack(r) \/ FinalizeRelease(r)
  PROVE  Staged(r)'
<1>1. /\ status[r] = "preparing" /\ AllPrepared(r) /\ UNCHANGED outcome
      /\ Staged(r)
  BY DEF FinalizeShell, FinalizeMembers, FinalizePack, FinalizeRelease, Building, Finalizing,
         AtHead, Preparing, StageInv, prepVars
<1>2. /\ AllPrepared(r)'
      /\ PackCount(EligibleCount(r))' = PackCount(EligibleCount(r))
  BY <1>1 DEF AllPrepared, EligibleCount, EligibleOrdinals, PackCount
<1>3. PackCount(EligibleCount(r)) \in Nat
  BY PackCountIsNatural DEF StageInv
<1>4. /\ pack \in [Request -> Seq(Pack)] /\ pack[r] \in Seq(Pack)
      /\ status \in [Request -> PrepStatus]
      /\ reqStatus \in [Request -> {"none", "open", "active", "completed"}]
  BY DEF StageInv, TypeInv, TypeOK
<1>5. CASE FinalizeShell(r)
  <2>1. status'[r] = "preparing" /\ pack' = pack /\ pack[r] = <<>> /\ reqStatus'[r] = "open"
    BY <1>1, <1>4, <1>5 DEF FinalizeShell, prepVars, Staged
  <2> QED
    BY <1>2, <1>3, <2>1 DEF Staged
<1>6. CASE FinalizeMembers(r)
  BY <1>1, <1>2, <1>6 DEF FinalizeMembers, prepVars, Staged
<1>7. CASE FinalizePack(r)
  <2> DEFINE p == InsertedPack(r, Len(pack[r]) + 1)
  <2>1. p.status = "pending"
    BY DEF InsertedPack
  <2> HIDE DEF p
  <2>2. pack'[r] = Append(pack[r], p)
    BY <1>4, <1>7 DEF FinalizePack, p
  <2>3. /\ Len(pack'[r]) = Len(pack[r]) + 1
        /\ DOMAIN pack'[r] = DOMAIN pack[r] \cup {Len(pack[r]) + 1}
        /\ \A o \in DOMAIN pack[r] : pack'[r][o] = pack[r][o]
        /\ pack'[r][Len(pack[r]) + 1] = p
    BY <1>4, <2>2
  <2>4. status'[r] = "preparing" /\ reqStatus[r] # "none" /\ reqStatus' = reqStatus
    BY <1>1, <1>7 DEF FinalizePack, prepVars
  <2>5. Len(pack'[r]) <= PackCount(EligibleCount(r))
    BY <1>3, <1>4, <1>7, <2>3 DEF FinalizePack
  <2>6. \A o \in DOMAIN pack'[r] : pack'[r][o].status = "pending"
    BY <1>1, <2>1, <2>3 DEF Staged
  <2> QED
    BY <1>2, <2>4, <2>5, <2>6 DEF Staged
<1>8. CASE FinalizeRelease(r)
  <2> DEFINE f == [o \in DOMAIN pack[r] |->
                     IF pack[r][o].status = "pending"
                       THEN [pack[r][o] EXCEPT !.status = "available"] ELSE pack[r][o]]
  <2>1. pack'[r] = f /\ status'[r] = "ready" /\ reqStatus' = reqStatus /\ reqStatus[r] # "none"
    BY <1>4, <1>8 DEF FinalizeRelease, Released
  <2>2. f \in [DOMAIN pack[r] -> Pack]
    <3>1. \A o \in DOMAIN pack[r] : pack[r][o] \in Pack
      BY <1>4
    <3>2. \A p \in Pack : [p EXCEPT !.status = "available"] \in Pack
      BY DEF Pack, PackStatus
    <3> QED
      BY <3>1, <3>2
  <2>3. Len(f) = Len(pack[r]) /\ DOMAIN f = DOMAIN pack[r]
    <3>1. Len(pack[r]) \in Nat /\ DOMAIN pack[r] = 1 .. Len(pack[r])
      BY <1>4
    <3> HIDE DEF f
    <3> QED
      BY <2>2, <3>1, IntervalFunction
  <2>4. Len(pack[r]) = PackCount(EligibleCount(r))
    BY <1>1, <1>3, <1>4, <1>8 DEF FinalizeRelease, Staged
  <2>5. \A o \in DOMAIN pack[r] : f[o].status # "pending"
    BY <1>4 DEF Pack
  <2> HIDE DEF f
  <2> QED
    BY <1>2, <2>1, <2>3, <2>4, <2>5 DEF Staged
<1> QED
  BY <1>5, <1>6, <1>7, <1>8

(* Agents claim, save and finish packs of requests that are ready.          *)
LEMMA StageOfPackSteps ==
  ASSUME StageInv, NEW r \in Request,
         ClaimPack(r) \/ \E o \in DOMAIN pack[r] : SaveDraft(r, o) \/ FinishPack(r, o)
  PROVE  Staged(r)'
<1>1. UNCHANGED <<status, outcome>>
  BY DEF ClaimPack, SaveDraft, FinishPack, prepVars
<1>2. /\ AllPrepared(r)' = AllPrepared(r)
      /\ PackCount(EligibleCount(r))' = PackCount(EligibleCount(r))
  BY <1>1 DEF AllPrepared, EligibleCount, EligibleOrdinals, PackCount
<1>3. /\ pack \in [Request -> Seq(Pack)] /\ pack[r] \in Seq(Pack)
      /\ \A o \in DOMAIN pack[r] : pack[r][o] \in Pack
      /\ reqStatus \in [Request -> {"none", "open", "active", "completed"}]
      /\ Staged(r)
  BY DEF StageInv, TypeInv, TypeOK
<1>4. status[r] = "ready"
  <2>1. CASE ClaimPack(r)
    BY <2>1 DEF ClaimPack
  <2>2. CASE \E o \in DOMAIN pack[r] : SaveDraft(r, o) \/ FinishPack(r, o)
    BY <1>3, <2>2 DEF SaveDraft, Saveable, FinishPack, CanFinish, Staged
  <2> QED
    BY <2>1, <2>2
<1>5. reqStatus'[r] # "none"
  BY <1>3, <1>4 DEF ClaimPack, SaveDraft, FinishPack, Staged
<1>6. /\ DOMAIN pack'[r] = DOMAIN pack[r] /\ Len(pack'[r]) = Len(pack[r])
      /\ \A q \in DOMAIN pack[r] : pack'[r][q].status # "pending"
  <2>1. CASE ClaimPack(r)
    <3>1. PICK o \in DOMAIN pack[r] : pack' = [pack EXCEPT ![r][o].status = "active"]
      BY <2>1 DEF ClaimPack, PacksWith
    <3>2. pack'[r] = [pack[r] EXCEPT ![o] = [pack[r][o] EXCEPT !.status = "active"]]
      BY <1>3, <3>1
    <3> QED
      BY <1>3, <1>4, <3>2 DEF Staged, Pack
  <2>2. ASSUME NEW o \in DOMAIN pack[r], SaveDraft(r, o)
        PROVE  /\ DOMAIN pack'[r] = DOMAIN pack[r] /\ Len(pack'[r]) = Len(pack[r])
               /\ \A q \in DOMAIN pack[r] : pack'[r][q].status # "pending"
    <3>1. PICK d : pack' = [pack EXCEPT ![r][o].draft = d, ![r][o].status = "saved"]
      BY <2>2 DEF SaveDraft
    <3>2. pack'[r] = [pack[r] EXCEPT ![o] = [pack[r][o] EXCEPT !.draft = d, !.status = "saved"]]
      BY <1>3, <3>1
    <3> QED
      BY <1>3, <1>4, <3>2 DEF Staged, Pack
  <2>3. ASSUME NEW o \in DOMAIN pack[r], FinishPack(r, o)
        PROVE  /\ DOMAIN pack'[r] = DOMAIN pack[r] /\ Len(pack'[r]) = Len(pack[r])
               /\ \A q \in DOMAIN pack[r] : pack'[r][q].status # "pending"
    <3> DEFINE done == [pack[r][o] EXCEPT !.status = "completed", !.receipt = pack[r][o].draft]
               f == [q \in DOMAIN pack[r] |->
                       IF q = o THEN done
                       ELSE IF pack[r][q].status = "pending"
                         THEN [pack[r][q] EXCEPT !.status = "available"] ELSE pack[r][q]]
    <3>1. pack'[r] = f
      BY <1>3, <2>3 DEF FinishPack, Released
    <3>2. done \in Pack /\ done.status = "completed"
      BY <1>3 DEF Pack, PackStatus
    <3> HIDE DEF done
    <3>3. f \in [DOMAIN pack[r] -> Pack] /\ \A q \in DOMAIN pack[r] : f[q].status # "pending"
      BY <1>3, <3>2 DEF Pack, PackStatus
    <3>4. Len(pack[r]) \in Nat /\ DOMAIN pack[r] = 1 .. Len(pack[r])
      BY <1>3
    <3> HIDE DEF f
    <3>5. DOMAIN f = DOMAIN pack[r] /\ Len(f) = Len(pack[r])
      BY <3>3, <3>4, IntervalFunction
    <3> QED
      BY <3>1, <3>3, <3>5
  <2> QED
    BY <2>1, <2>2, <2>3
<1> QED
  BY <1>1, <1>2, <1>3, <1>4, <1>5, <1>6 DEF Staged

(* Deleting a session empties its memberships, not its packs.               *)
LEMMA StageOfSessionSteps ==
  ASSUME StageInv, NEW s \in Session, SessionStep(s), NEW r \in Request
  PROVE  Staged(r)'
<1>1. UNCHANGED <<status, outcome, reqStatus>>
  BY DEF SessionStep, UserExcludes, UserAccepts, TranscriptImported, DeleteSession, prepVars,
         requestVars
<1>2. Staged(r) /\ pack[r] \in Seq(Pack) /\ \A o \in DOMAIN pack[r] : pack[r][o] \in Pack
  BY DEF StageInv, TypeInv, TypeOK
<1>3. CASE pack' = pack
  BY <1>1, <1>2, <1>3, StageFrame
<1>4. CASE pack' = [q \in Request |->
                      [o \in DOMAIN pack[q] |-> MembershipDeleted(pack[q][o], s)]]
  <2> DEFINE f == [o \in DOMAIN pack[r] |-> MembershipDeleted(pack[r][o], s)]
  <2>1. pack'[r] = f
    BY <1>4
  <2>2. \A p \in Pack : MembershipDeleted(p, s) \in Pack /\ MembershipDeleted(p, s).status = p.status
    BY DEF MembershipDeleted, Pack
  <2>3. f \in [DOMAIN pack[r] -> Pack] /\ \A o \in DOMAIN pack[r] : f[o].status = pack[r][o].status
    BY <1>2, <2>2
  <2>4. Len(pack[r]) \in Nat /\ DOMAIN pack[r] = 1 .. Len(pack[r])
    BY <1>2
  <2> HIDE DEF f
  <2>5. f \in Seq(Pack) /\ DOMAIN f = DOMAIN pack[r] /\ Len(f) = Len(pack[r])
    BY <2>3, <2>4, IntervalFunction
  <2>6. pack[r] = <<>> => f = <<>>
    BY <1>2, <2>5
  <2> QED
    BY <1>1, <1>2, <2>1, <2>3, <2>5, <2>6, StageFrame
<1> QED
  BY <1>3, <1>4
  DEF SessionStep, UserExcludes, UserAccepts, TranscriptImported, DeleteSession, requestVars

(* A step of one request leaves the others where they are.                  *)
LEMMA OtherRequests ==
  ASSUME StageInv, NEW r \in Request, RequestStep(r), NEW q \in Request \ {r}
  PROVE  /\ status'[q] = status[q] /\ reqStatus'[q] = reqStatus[q]
         /\ outcome'[q] = outcome[q] /\ pack'[q] = pack[q]
<1>1. /\ status \in [Request -> PrepStatus] /\ outcome \in [Request -> Seq({"eligible", "excluded"})]
      /\ reqStatus \in [Request -> {"none", "open", "active", "completed"}]
      /\ pack \in [Request -> Seq(Pack)]
  BY DEF StageInv, TypeInv, TypeOK
<1>2. CASE Create(r) \/ StepFails(r) \/ Retry(r) \/ FinalizeNoEligible(r)
  BY <1>1, <1>2 DEF Create, StepFails, Retry, FinalizeNoEligible, requestVars
<1>3. CASE PrepareBatch(r) \/ FinalizeShell(r) \/ FinalizeMembers(r)
  BY <1>1, <1>3 DEF PrepareBatch, FinalizeShell, FinalizeMembers, requestVars, prepVars
<1>4. CASE FinalizePack(r) \/ FinalizeRelease(r) \/ ClaimPack(r)
  BY <1>1, <1>4 DEF FinalizePack, FinalizeRelease, ClaimPack, requestVars, prepVars
<1>5. CASE \E o \in DOMAIN pack[r] : SaveDraft(r, o) \/ FinishPack(r, o)
  BY <1>1, <1>5 DEF SaveDraft, FinishPack, prepVars
<1> QED
  BY <1>2, <1>3, <1>4, <1>5 DEF RequestStep, PreparationStep

(* Every step keeps the stages.                                             *)
LEMMA StagesKept ==
  ASSUME StageInv, [Next]_vars PROVE StageInv'
<1>1. TypeInv'
  BY TypesKept DEF StageInv
<1>2. ASSUME NEW r \in Request, RequestStep(r), NEW q \in Request PROVE Staged(q)'
  <2>1. CASE q = r
    BY <1>2, <2>1, StageOfStatusSteps, StageOfFinalizeSteps, StageOfPackSteps
    DEF RequestStep, PreparationStep
  <2>2. CASE q # r
    BY <1>2, <2>2, OtherRequests, StageFrame DEF StageInv
  <2> QED
    BY <2>1, <2>2
<1>3. ASSUME UNCHANGED <<status, reqStatus, outcome, pack>>, NEW q \in Request PROVE Staged(q)'
  BY <1>3, StageFrame DEF StageInv
<1>4. (Crash \/ Restart \/ UNCHANGED vars) => UNCHANGED <<status, reqStatus, outcome, pack>>
  BY DEF Crash, Restart, vars, prepVars, requestVars
<1> QED
  BY <1>1, <1>2, <1>3, <1>4, StageOfSessionSteps DEF Next, StageInv

(* Nothing is staged at first.                                              *)
LEMMA InitStageInv == Init => StageInv
<1> SUFFICES ASSUME Init PROVE StageInv
  OBVIOUS
<1>1. TypeInv
  BY InitTypeInv
<1>2. \A r \in Request : Staged(r)
  BY DEF Init, Staged
<1> QED
  BY <1>1, <1>2 DEF StageInv

(* Nothing of a request can be claimed before all of it is there.           *)
THEOREM StagedUntilReadyHolds == Spec => []StagedUntilReady
<1>1. Init => StageInv
  BY InitStageInv
<1>2. StageInv /\ [Next]_vars => StageInv'
  BY StagesKept
<1>3. StageInv => StagedUntilReady
  BY DEF StageInv, Staged, StagedUntilReady
<1> QED
  BY <1>1, <1>2, <1>3, PTL DEF Spec

(* What a preparation decided about a session stands, and once a request    *)
(* row exists the plan of its packs is fixed.                               *)
THEOREM OutcomesNeverChange == Spec => OutcomesAreStable
<1>1. ASSUME StageInv, [Next]_vars, NEW r \in Request
      PROVE  /\ \A k \in DOMAIN outcome[r] :
                   k \in DOMAIN outcome'[r] /\ outcome'[r][k] = outcome[r][k]
             /\ reqStatus[r] # "none" => outcome'[r] = outcome[r]
  <2>1. CASE PrepareBatch(r)
    <3>1. PICK top \in Nat : Settled(r) = (Len(outcome[r]) + 1) .. top
      BY <1>1, SettledInterval DEF StageInv
    <3>2. outcome \in [Request -> Seq({"eligible", "excluded"})]
      BY <1>1 DEF StageInv, TypeInv, TypeOK
    <3>3. outcome'[r] = [k \in DOMAIN outcome[r] \cup Settled(r) |->
                           IF k \in Settled(r) THEN SettledOutcome(r, k) ELSE outcome[r][k]]
      BY <2>1, <3>2 DEF PrepareBatch, WithSettled
    <3>4. \A k \in DOMAIN outcome[r] : k \notin Settled(r)
      BY <3>1, <3>2
    <3> QED
      BY <1>1, <2>1, <3>3, <3>4 DEF PrepareBatch, StageInv, Staged
  <2>2. CASE outcome'[r] = outcome[r]
    BY <2>2
  <2>3. PrepareBatch(r) \/ outcome'[r] = outcome[r]
    <3>1. ASSUME NEW q \in Request \ {r}, RequestStep(q) PROVE outcome'[r] = outcome[r]
      BY <1>1, <3>1, OtherRequests
    <3>2. RequestStep(r) => PrepareBatch(r) \/ outcome' = outcome
      BY DEF RequestStep, PreparationStep, Create, FinalizeNoEligible, FinalizeShell,
             FinalizeMembers, FinalizePack, FinalizeRelease, StepFails, Retry, ClaimPack,
             SaveDraft, FinishPack, prepVars
    <3>3. (Crash \/ Restart \/ UNCHANGED vars) => outcome' = outcome
      BY DEF Crash, Restart, vars, prepVars
    <3>4. \A s \in Session : SessionStep(s) => outcome' = outcome
      BY DEF SessionStep, UserExcludes, UserAccepts, TranscriptImported, DeleteSession, prepVars
    <3> QED
      BY <1>1, <3>1, <3>2, <3>3, <3>4 DEF Next
  <2> QED
    BY <2>1, <2>2, <2>3
<1>2. StageInv /\ [Next]_vars =>
        [\A r \in Request :
           /\ \A k \in DOMAIN outcome[r] :
                k \in DOMAIN outcome'[r] /\ outcome'[r][k] = outcome[r][k]
           /\ reqStatus[r] # "none" => outcome'[r] = outcome[r]]_vars
  BY <1>1
<1>3. Init => StageInv
  BY InitStageInv
<1>4. StageInv /\ [Next]_vars => StageInv'
  BY StagesKept
<1> QED
  BY <1>2, <1>3, <1>4, PTL DEF Spec, OutcomesAreStable

-----------------------------------------------------------------------------
(* The queue of the coordinator                                             *)

(* The requests created are those with a preparation, each once; that is    *)
(* what resume() rebuilds the queue from.                                   *)
CreatedOnce ==
  /\ Range(created) = {r \in Request : status[r] # "none"}
  /\ \A i, j \in DOMAIN created : created[i] = created[j] => i = j

QueueInv == TypeInv /\ CreatedOnce /\ QueueIsPreparing

(* Appending a new element keeps a queue free of duplicates.                *)
LEMMA AppendedOnce ==
  ASSUME NEW S, NEW s \in Seq(S), NEW x \in S, x \notin Range(s),
         \A i, j \in DOMAIN s : s[i] = s[j] => i = j
  PROVE  /\ Range(Append(s, x)) = Range(s) \cup {x}
         /\ \A i, j \in DOMAIN Append(s, x) : Append(s, x)[i] = Append(s, x)[j] => i = j
<1> DEFINE t == Append(s, x)
<1>1. /\ DOMAIN t = DOMAIN s \cup {Len(s) + 1}
      /\ \A i \in DOMAIN s : t[i] = s[i]
      /\ t[Len(s) + 1] = x
  OBVIOUS
<1>2. \A i \in DOMAIN s : s[i] # x
  BY DEF Range
<1> HIDE DEF t
<1> SUFFICES /\ Range(t) = Range(s) \cup {x}
             /\ \A i, j \in DOMAIN t : t[i] = t[j] => i = j
  BY DEF t
<1> QED
  BY <1>1, <1>2 DEF Range

(* Taking the first element off keeps a queue free of duplicates.           *)
LEMMA TailOnce ==
  ASSUME NEW S, NEW s \in Seq(S), s # <<>>,
         \A i, j \in DOMAIN s : s[i] = s[j] => i = j
  PROVE  /\ Range(Tail(s)) = Range(s) \ {Head(s)}
         /\ \A i, j \in DOMAIN Tail(s) : Tail(s)[i] = Tail(s)[j] => i = j
<1>1. /\ DOMAIN s = 1 .. Len(s) /\ Len(s) \in Nat /\ Len(s) > 0 /\ Head(s) = s[1]
      /\ DOMAIN Tail(s) = 1 .. (Len(s) - 1)
      /\ \A i \in 1 .. (Len(s) - 1) : Tail(s)[i] = s[i + 1]
  OBVIOUS
<1>2. ASSUME NEW x \in Range(s) \ {Head(s)} PROVE x \in Range(Tail(s))
  <2>1. PICK i \in DOMAIN s : s[i] = x
    BY DEF Range
  <2>2. i - 1 \in DOMAIN Tail(s) /\ Tail(s)[i - 1] = x
    BY <1>1, <1>2, <2>1
  <2> QED
    BY <2>2 DEF Range
<1>3. ASSUME NEW x \in Range(Tail(s)) PROVE x \in Range(s) \ {Head(s)}
  <2>1. PICK i \in DOMAIN Tail(s) : Tail(s)[i] = x
    BY DEF Range
  <2>2. i + 1 \in DOMAIN s /\ s[i + 1] = x /\ i + 1 # 1
    BY <1>1, <2>1
  <2>3. x # s[1]
    BY <1>1, <2>2
  <2> QED
    BY <1>1, <2>2, <2>3 DEF Range
<1>4. \A i, j \in DOMAIN Tail(s) : Tail(s)[i] = Tail(s)[j] => i = j
  BY <1>1
<1> QED
  BY <1>2, <1>3, <1>4

(* A request is queued when it starts or restarts preparing.                *)
LEMMA QueueOfCreate ==
  ASSUME QueueInv, NEW r \in Request, Create(r)
  PROVE  CreatedOnce' /\ QueueIsPreparing'
<1>1. /\ queue \in Seq(Request) /\ created \in Seq(Request)
      /\ status \in [Request -> PrepStatus]
  BY DEF QueueInv, TypeInv, TypeOK
<1>2. /\ up /\ up' /\ status[r] = "none" /\ status' = [status EXCEPT ![r] = "preparing"]
      /\ created' = Append(created, r) /\ queue' = Append(queue, r)
  BY DEF Create
<1>3. r \notin Range(created) /\ r \notin Range(queue)
  BY <1>2 DEF QueueInv, CreatedOnce, QueueIsPreparing, Preparing
<1>4. /\ Range(created') = Range(created) \cup {r}
      /\ \A i, j \in DOMAIN created' : created'[i] = created'[j] => i = j
  BY <1>1, <1>2, <1>3, AppendedOnce DEF QueueInv, CreatedOnce
<1>5. /\ Range(queue') = Range(queue) \cup {r}
      /\ \A i, j \in DOMAIN queue' : queue'[i] = queue'[j] => i = j
  BY <1>1, <1>2, <1>3, AppendedOnce DEF QueueInv, QueueIsPreparing
<1>6. CreatedOnce'
  BY <1>1, <1>2, <1>4 DEF QueueInv, CreatedOnce
<1>7. QueueIsPreparing'
  BY <1>1, <1>2, <1>5 DEF QueueInv, QueueIsPreparing, Preparing
<1> QED
  BY <1>6, <1>7

(* A failed preparation that is retried goes to the end of the queue.       *)
LEMMA QueueOfRetry ==
  ASSUME QueueInv, NEW r \in Request, Retry(r)
  PROVE  CreatedOnce' /\ QueueIsPreparing'
<1>1. queue \in Seq(Request) /\ status \in [Request -> PrepStatus]
  BY DEF QueueInv, TypeInv, TypeOK
<1>2. /\ up /\ up' /\ status[r] = "failed" /\ status' = [status EXCEPT ![r] = "preparing"]
      /\ created' = created /\ queue' = Append(queue, r)
  BY DEF Retry
<1>3. r \notin Range(queue)
  BY <1>2 DEF QueueInv, QueueIsPreparing, Preparing
<1>4. /\ Range(queue') = Range(queue) \cup {r}
      /\ \A i, j \in DOMAIN queue' : queue'[i] = queue'[j] => i = j
  BY <1>1, <1>2, <1>3, AppendedOnce DEF QueueInv, QueueIsPreparing
<1>5. CreatedOnce'
  BY <1>1, <1>2 DEF QueueInv, CreatedOnce
<1>6. QueueIsPreparing'
  BY <1>1, <1>2, <1>4 DEF QueueInv, QueueIsPreparing, Preparing
<1> QED
  BY <1>5, <1>6

(* The request at the head leaves the queue as its preparation ends.        *)
LEMMA QueueOfEnd ==
  ASSUME QueueInv, NEW r \in Request,
         FinalizeNoEligible(r) \/ FinalizeRelease(r) \/ StepFails(r)
  PROVE  CreatedOnce' /\ QueueIsPreparing'
<1>1. queue \in Seq(Request) /\ status \in [Request -> PrepStatus]
  BY DEF QueueInv, TypeInv, TypeOK
<1>2. /\ up /\ up' /\ queue # <<>> /\ r = Head(queue) /\ status[r] = "preparing"
      /\ created' = created /\ queue' = Tail(queue)
  BY DEF FinalizeNoEligible, FinalizeRelease, StepFails, Building, Finalizing, AtHead, Preparing
<1>3. \E x \in {"failed", "ready"} : status' = [status EXCEPT ![r] = x]
  BY DEF FinalizeNoEligible, FinalizeRelease, StepFails
<1>4. /\ Range(queue') = Range(queue) \ {r}
      /\ \A i, j \in DOMAIN queue' : queue'[i] = queue'[j] => i = j
  BY <1>1, <1>2, TailOnce DEF QueueInv, QueueIsPreparing
<1>5. CreatedOnce'
  BY <1>1, <1>2, <1>3 DEF QueueInv, CreatedOnce
<1>6. QueueIsPreparing'
  BY <1>1, <1>2, <1>3, <1>4 DEF QueueInv, QueueIsPreparing, Preparing
<1> QED
  BY <1>5, <1>6

(* resume() after a crash finds every preparing request, each once.         *)
LEMMA QueueOfRestart ==
  ASSUME QueueInv, Restart
  PROVE  CreatedOnce' /\ QueueIsPreparing'
<1>1. created \in Seq(Request) /\ status' = status /\ created' = created /\ queue' = ResumedQueue
  BY DEF QueueInv, TypeInv, TypeOK, Restart, prepVars
<1> DEFINE K == {i \in DOMAIN created : Preparing(created[i])}
<1>2. K \in SUBSET (DOMAIN created)
  OBVIOUS
<1>3. Range(ResumedQueue) = {created[i] : i \in K}
  BY <1>1, <1>2, SubsequenceElements DEF ResumedQueue
<1>4. \A i, j \in DOMAIN ResumedQueue : ResumedQueue[i] = ResumedQueue[j] => i = j
  BY <1>1, <1>2, SubsequenceElements DEF ResumedQueue, QueueInv, CreatedOnce
<1>5. {created[i] : i \in K} = {r \in Request : Preparing(r)}
  <2>1. \A r \in Request : Preparing(r) => \E i \in DOMAIN created : created[i] = r
    BY DEF QueueInv, CreatedOnce, Range, Preparing
  <2>2. \A i \in DOMAIN created : created[i] \in Request
    BY <1>1
  <2> QED
    BY <2>1, <2>2
<1>6. CreatedOnce'
  BY <1>1 DEF QueueInv, CreatedOnce
<1>7. QueueIsPreparing'
  BY <1>1, <1>3, <1>4, <1>5 DEF QueueIsPreparing, Preparing
<1> QED
  BY <1>6, <1>7

(* Every step keeps the queue.                                              *)
LEMMA QueueKept ==
  ASSUME QueueInv, [Next]_vars PROVE QueueInv'
<1>1. TypeInv'
  BY TypesKept DEF QueueInv
<1>2. ASSUME UNCHANGED <<status, created, queue, up>> PROVE CreatedOnce' /\ QueueIsPreparing'
  BY <1>2 DEF QueueInv, CreatedOnce, QueueIsPreparing, Preparing
<1>3. ASSUME Crash PROVE CreatedOnce' /\ QueueIsPreparing'
  BY <1>3 DEF Crash, prepVars, QueueInv, CreatedOnce, QueueIsPreparing, Preparing
<1>4. ASSUME NEW r \in Request, RequestStep(r) PROVE CreatedOnce' /\ QueueIsPreparing'
  <2>1. CASE PrepareBatch(r) \/ FinalizeShell(r) \/ FinalizeMembers(r) \/ FinalizePack(r)
             \/ ClaimPack(r) \/ \E o \in DOMAIN pack[r] : SaveDraft(r, o) \/ FinishPack(r, o)
    BY <1>2, <2>1
    DEF PrepareBatch, FinalizeShell, FinalizeMembers, FinalizePack, ClaimPack, SaveDraft,
        FinishPack, prepVars, daemonVars
  <2> QED
    BY <1>4, <2>1, QueueOfCreate, QueueOfRetry, QueueOfEnd DEF RequestStep, PreparationStep
<1>5. ASSUME NEW s \in Session, SessionStep(s) PROVE UNCHANGED <<status, created, queue, up>>
  BY <1>5 DEF SessionStep, UserExcludes, UserAccepts, TranscriptImported, DeleteSession,
              prepVars, daemonVars
<1>6. UNCHANGED vars => UNCHANGED <<status, created, queue, up>>
  BY DEF vars, prepVars, daemonVars
<1> QED
  BY <1>1, <1>2, <1>3, <1>4, <1>5, <1>6, QueueOfRestart DEF Next, QueueInv

(* No preparation is forgotten: while the daemon runs its in-memory queue   *)
(* holds exactly the preparing requests, through failures and restarts.     *)
THEOREM NoPreparationForgotten == Spec => []QueueIsPreparing
<1>1. Init => QueueInv
  <2>1. Init => TypeInv
    BY InitTypeInv
  <2>2. Init => CreatedOnce /\ QueueIsPreparing
    BY DEF Init, CreatedOnce, QueueIsPreparing, Preparing, Range
  <2> QED
    BY <2>1, <2>2 DEF QueueInv
<1>2. QueueInv /\ [Next]_vars => QueueInv'
  BY QueueKept
<1>3. QueueInv => QueueIsPreparing
  BY DEF QueueInv
<1> QED
  BY <1>1, <1>2, <1>3, PTL DEF Spec

-----------------------------------------------------------------------------
(* What a step does to the packs                                            *)

(* What one operation may do to a pack row.                                 *)
PackMoves(p, q) ==
  \/ q = p
  \/ p.status = "pending" /\ q = [p EXCEPT !.status = "available"]
  \/ p.status = "available" /\ q = [p EXCEPT !.status = "active"]
  \/ Saveable(p) /\ \E d \in Draft : q = [p EXCEPT !.draft = d, !.status = "saved"]
  \/ p.status = "saved" /\ q = [p EXCEPT !.status = "completed", !.receipt = p.draft]
  \/ \E s \in Session : q = MembershipDeleted(p, s)

(* Replacing one pack leaves the others where they are.                     *)
LEMMA OnePackReplaced ==
  ASSUME NEW ps \in Seq(Pack), NEW o \in DOMAIN ps, NEW p \in Pack, NEW qs,
         qs = [ps EXCEPT ![o] = p]
  PROVE  /\ DOMAIN qs = DOMAIN ps /\ Len(qs) = Len(ps)
         /\ qs[o] = p
         /\ \A q \in DOMAIN ps \ {o} : qs[q] = ps[q]
  OBVIOUS

(* A claim activates one available pack.                                    *)
LEMMA ClaimedPack ==
  ASSUME TypeInv, NEW r \in Request, ClaimPack(r)
  PROVE  \E o \in DOMAIN pack[r] :
           /\ pack[r][o].status = "available"
           /\ DOMAIN pack'[r] = DOMAIN pack[r] /\ Len(pack'[r]) = Len(pack[r])
           /\ pack'[r][o] = [pack[r][o] EXCEPT !.status = "active"]
           /\ \A q \in DOMAIN pack[r] \ {o} : pack'[r][q] = pack[r][q]
           /\ member'[r] = PackAssigned(r, o)
<1>1. PICK o \in DOMAIN pack[r] :
        /\ pack[r][o].status = "available"
        /\ pack' = [pack EXCEPT ![r][o].status = "active"]
        /\ member' = [member EXCEPT ![r] = PackAssigned(r, o)]
  BY DEF ClaimPack, PacksWith
<1>2. /\ pack \in [Request -> Seq(Pack)] /\ pack[r] \in Seq(Pack)
      /\ member \in [Request -> [Session -> MemberState]]
  BY DEF TypeInv, TypeOK
<1> DEFINE p == [pack[r][o] EXCEPT !.status = "active"]
<1>3. pack'[r] = [pack[r] EXCEPT ![o] = p]
  BY <1>1, <1>2
<1>4. p \in Pack
  <2>1. pack[r][o] \in Pack
    BY <1>2
  <2> QED
    BY <2>1 DEF Pack, PackStatus
<1>5. member'[r] = PackAssigned(r, o)
  BY <1>1, <1>2
<1>6. /\ DOMAIN pack'[r] = DOMAIN pack[r] /\ Len(pack'[r]) = Len(pack[r])
      /\ pack'[r][o] = p
      /\ \A q \in DOMAIN pack[r] \ {o} : pack'[r][q] = pack[r][q]
  <2> HIDE DEF p
  <2> QED
    BY <1>2, <1>3, <1>4, OnePackReplaced
<1> QED
  BY <1>1, <1>5, <1>6

(* A save replaces the draft of one claimed pack.                           *)
LEMMA SavedPack ==
  ASSUME TypeInv, NEW r \in Request, NEW o \in DOMAIN pack[r], SaveDraft(r, o)
  PROVE  \E d \in Draft :
           /\ Saveable(pack[r][o])
           /\ DOMAIN pack'[r] = DOMAIN pack[r] /\ Len(pack'[r]) = Len(pack[r])
           /\ pack'[r][o] = [pack[r][o] EXCEPT !.draft = d, !.status = "saved"]
           /\ \A q \in DOMAIN pack[r] \ {o} : pack'[r][q] = pack[r][q]
<1>1. PICK verdict \in [pack[r][o].members -> Disposition] :
        pack' = [pack EXCEPT
          ![r][o].draft = [revision |-> @.revision + 1, verdict |-> verdict],
          ![r][o].status = "saved"]
  BY DEF SaveDraft
<1>2. pack \in [Request -> Seq(Pack)] /\ pack[r] \in Seq(Pack) /\ pack[r][o] \in Pack
  BY DEF TypeInv, TypeOK
<1> DEFINE d == [revision |-> pack[r][o].draft.revision + 1, verdict |-> verdict]
<1>3. d \in Draft
  BY <1>2 DEF Draft, Pack, Verdicts
<1> DEFINE p == [pack[r][o] EXCEPT !.draft = d, !.status = "saved"]
<1>4. pack'[r] = [pack[r] EXCEPT ![o] = p]
  BY <1>1, <1>2
<1> HIDE DEF d
<1>5. Saveable(pack[r][o])
  BY DEF SaveDraft
<1>6. p \in Pack
  BY <1>2, <1>3 DEF Pack, PackStatus
<1>7. /\ DOMAIN pack'[r] = DOMAIN pack[r] /\ Len(pack'[r]) = Len(pack[r])
      /\ pack'[r][o] = p
      /\ \A q \in DOMAIN pack[r] \ {o} : pack'[r][q] = pack[r][q]
  <2> HIDE DEF p
  <2> QED
    BY <1>2, <1>4, <1>6, OnePackReplaced
<1> QED
  BY <1>3, <1>5, <1>7

(* A finish completes one saved pack and releases what is pending.          *)
LEMMA FinishedPack ==
  ASSUME TypeInv, NEW r \in Request, NEW o \in DOMAIN pack[r], FinishPack(r, o)
  PROVE  /\ pack[r][o].status = "saved"
         /\ DOMAIN pack[r][o].draft.verdict = pack[r][o].members
         /\ DOMAIN pack'[r] = DOMAIN pack[r] /\ Len(pack'[r]) = Len(pack[r])
         /\ pack'[r][o] = [pack[r][o] EXCEPT !.status = "completed",
                                             !.receipt = pack[r][o].draft]
         /\ \A q \in DOMAIN pack[r] \ {o} : pack'[r][q] = Released(pack[r][q])
         /\ member'[r] = [s \in Session |->
              IF s \in pack[r][o].members /\ member[r][s] = "assigned"
                THEN MemberStateFor(pack[r][o].draft.verdict[s]) ELSE member[r][s]]
<1> DEFINE done == [pack[r][o] EXCEPT !.status = "completed", !.receipt = pack[r][o].draft]
           f == [q \in DOMAIN pack[r] |-> IF q = o THEN done ELSE Released(pack[r][q])]
<1>1. /\ pack \in [Request -> Seq(Pack)] /\ pack[r] \in Seq(Pack)
      /\ Len(pack[r]) \in Nat /\ DOMAIN pack[r] = 1 .. Len(pack[r])
      /\ member \in [Request -> [Session -> MemberState]]
  BY DEF TypeInv, TypeOK
<1>2. pack[r][o].status = "saved" /\ DOMAIN pack[r][o].draft.verdict = pack[r][o].members
  BY DEF FinishPack, CanFinish
<1>3. pack' = [pack EXCEPT ![r] = f]
  BY DEF FinishPack
<1>4. pack'[r] = f
  BY <1>1, <1>3
<1>5. member'[r] = [s \in Session |->
              IF s \in pack[r][o].members /\ member[r][s] = "assigned"
                THEN MemberStateFor(pack[r][o].draft.verdict[s]) ELSE member[r][s]]
  BY <1>1 DEF FinishPack
<1>6. \A q \in DOMAIN pack[r] : Released(pack[r][q]) \in Pack
  <2>1. \A x \in Pack : Released(x) \in Pack
    BY DEF Released, Pack, PackStatus
  <2> QED
    BY <1>1, <2>1
<1>7. done \in Pack
  <2>1. pack[r][o] \in Pack
    BY <1>1
  <2> QED
    BY <2>1 DEF Pack, PackStatus
<1> HIDE DEF done
<1>8. f \in [1 .. Len(pack[r]) -> Pack]
  BY <1>1, <1>6, <1>7
<1>9. DOMAIN f = DOMAIN pack[r] /\ Len(f) = Len(pack[r])
  <2> HIDE DEF f
  <2> QED
    BY <1>1, <1>8, IntervalFunction
<1>10. pack'[r][o] = done /\ \A q \in DOMAIN pack[r] \ {o} : pack'[r][q] = Released(pack[r][q])
  BY <1>4
<1> HIDE DEF f
<1> QED
  BY <1>2, <1>4, <1>5, <1>9, <1>10 DEF done

(* The finalisation appends the next pack of the plan.                      *)
LEMMA AppendedPack ==
  ASSUME TypeInv, NEW r \in Request, FinalizePack(r)
  PROVE  /\ Len(pack'[r]) = Len(pack[r]) + 1
         /\ DOMAIN pack'[r] = DOMAIN pack[r] \cup {Len(pack[r]) + 1}
         /\ \A o \in DOMAIN pack[r] : pack'[r][o] = pack[r][o]
         /\ pack'[r][Len(pack[r]) + 1] = InsertedPack(r, Len(pack[r]) + 1)
<1> DEFINE p == InsertedPack(r, Len(pack[r]) + 1)
<1>1. pack \in [Request -> Seq(Pack)] /\ pack[r] \in Seq(Pack)
  BY DEF TypeInv, TypeOK
<1>2. pack' = [pack EXCEPT ![r] = Append(@, p)]
  BY DEF FinalizePack
<1> HIDE DEF p
<1>3. pack'[r] = Append(pack[r], p)
  BY <1>1, <1>2
<1> QED
  BY <1>1, <1>3 DEF p

(* The last transaction of the finalisation releases every pack.            *)
LEMMA ReleasedPacks ==
  ASSUME TypeInv, NEW r \in Request, FinalizeRelease(r)
  PROVE  /\ DOMAIN pack'[r] = DOMAIN pack[r] /\ Len(pack'[r]) = Len(pack[r])
         /\ \A o \in DOMAIN pack[r] : pack'[r][o] = Released(pack[r][o])
<1> DEFINE f == [o \in DOMAIN pack[r] |-> Released(pack[r][o])]
<1>1. /\ pack \in [Request -> Seq(Pack)] /\ pack[r] \in Seq(Pack)
      /\ Len(pack[r]) \in Nat /\ DOMAIN pack[r] = 1 .. Len(pack[r])
  BY DEF TypeInv, TypeOK
<1>2. pack'[r] = f
  BY <1>1 DEF FinalizeRelease
<1>3. \A x \in Pack : Released(x) \in Pack
  BY DEF Released, Pack, PackStatus
<1>4. f \in [1 .. Len(pack[r]) -> Pack]
  BY <1>1, <1>3
<1>5. DOMAIN f = DOMAIN pack[r] /\ Len(f) = Len(pack[r])
  <2> HIDE DEF f
  <2> QED
    BY <1>1, <1>4, IntervalFunction
<1> QED
  BY <1>2, <1>5

(* A deletion takes the session out of every pack of every request.         *)
LEMMA DeletedMemberships ==
  ASSUME TypeInv, NEW s \in Session, DeleteSession(s), NEW r \in Request
  PROVE  /\ DOMAIN pack'[r] = DOMAIN pack[r] /\ Len(pack'[r]) = Len(pack[r])
         /\ \A o \in DOMAIN pack[r] : pack'[r][o] = MembershipDeleted(pack[r][o], s)
         /\ member'[r] = [member[r] EXCEPT ![s] = "none"]
<1> DEFINE f == [o \in DOMAIN pack[r] |-> MembershipDeleted(pack[r][o], s)]
<1>1. /\ pack \in [Request -> Seq(Pack)] /\ pack[r] \in Seq(Pack)
      /\ Len(pack[r]) \in Nat /\ DOMAIN pack[r] = 1 .. Len(pack[r])
  BY DEF TypeInv, TypeOK
<1>2. pack'[r] = f /\ member'[r] = [member[r] EXCEPT ![s] = "none"]
  BY DEF DeleteSession
<1>3. \A x \in Pack : MembershipDeleted(x, s) \in Pack
  BY DEF MembershipDeleted, Pack
<1>4. f \in [1 .. Len(pack[r]) -> Pack]
  BY <1>1, <1>3
<1>5. DOMAIN f = DOMAIN pack[r] /\ Len(f) = Len(pack[r])
  <2> HIDE DEF f
  <2> QED
    BY <1>1, <1>4, IntervalFunction
<1> QED
  BY <1>2, <1>5

(* A step of one request leaves the rows of the others where they are.      *)
LEMMA OtherRows ==
  ASSUME TypeInv, NEW r \in Request, RequestStep(r), NEW q \in Request \ {r}
  PROVE  /\ stored' = stored
         /\ status'[q] = status[q] /\ error'[q] = error[q] /\ ready'[q] = ready[q]
         /\ outcome'[q] = outcome[q] /\ reqStatus'[q] = reqStatus[q]
         /\ member'[q] = member[q] /\ pack'[q] = pack[q] /\ receipt'[q] = receipt[q]
<1>1. /\ status \in [Request -> PrepStatus] /\ error \in [Request -> ErrorCode]
      /\ ready \in [Request -> SUBSET Session]
      /\ outcome \in [Request -> Seq({"eligible", "excluded"})]
      /\ reqStatus \in [Request -> {"none", "open", "active", "completed"}]
      /\ member \in [Request -> [Session -> MemberState]]
      /\ pack \in [Request -> Seq(Pack)]
      /\ receipt \in [Request -> Seq([pack : Nat \ {0}, receipt : Draft])]
  BY DEF TypeInv, TypeOK
<1>2. CASE Create(r) \/ StepFails(r) \/ Retry(r) \/ FinalizeNoEligible(r)
  BY <1>1, <1>2 DEF Create, StepFails, Retry, FinalizeNoEligible, requestVars, sessionVars
<1>3. CASE PrepareBatch(r) \/ FinalizeShell(r) \/ FinalizeMembers(r)
  BY <1>1, <1>3
  DEF PrepareBatch, FinalizeShell, FinalizeMembers, requestVars, prepVars, sessionVars
<1>4. CASE FinalizePack(r) \/ FinalizeRelease(r) \/ ClaimPack(r)
  BY <1>1, <1>4 DEF FinalizePack, FinalizeRelease, ClaimPack, prepVars, sessionVars
<1>5. ASSUME NEW o \in DOMAIN pack[r], SaveDraft(r, o)
      PROVE  /\ UNCHANGED <<sessionVars, prepVars, reqStatus, member, receipt>>
             /\ pack'[q] = pack[q]
  BY <1>1, <1>5 DEF SaveDraft
<1>6. ASSUME NEW o \in DOMAIN pack[r], FinishPack(r, o)
      PROVE  /\ UNCHANGED <<stored, prepVars>>
             /\ reqStatus'[q] = reqStatus[q] /\ member'[q] = member[q] /\ pack'[q] = pack[q]
             /\ receipt'[q] = receipt[q]
  <2>1. receipt' = receipt \/ receipt' = [receipt EXCEPT ![r] = RequestReceipt(r, o)]
    BY <1>6 DEF FinishPack
  <2> QED
    BY <1>1, <1>6, <2>1 DEF FinishPack
<1> QED
  BY <1>2, <1>3, <1>4, <1>5, <1>6 DEF RequestStep, PreparationStep, prepVars, sessionVars

(* Every step moves every pack in one of the ways of PackMoves, and a pack  *)
(* that appears is one of the plan.                                         *)
LEMMA PacksMove ==
  ASSUME TypeInv, [Next]_vars, NEW r \in Request
  PROVE  /\ \A o \in DOMAIN pack[r] :
              o \in DOMAIN pack'[r] /\ PackMoves(pack[r][o], pack'[r][o])
         /\ \A o \in DOMAIN pack'[r] \ DOMAIN pack[r] : pack'[r][o] = InsertedPack(r, o)
<1> DEFINE Moved == /\ \A o \in DOMAIN pack[r] :
                         o \in DOMAIN pack'[r] /\ PackMoves(pack[r][o], pack'[r][o])
                    /\ \A o \in DOMAIN pack'[r] \ DOMAIN pack[r] :
                         pack'[r][o] = InsertedPack(r, o)
<1> SUFFICES Moved
  OBVIOUS
<1>1. CASE pack'[r] = pack[r]
  BY <1>1 DEF PackMoves
<1>2. CASE FinalizePack(r)
  BY <1>2, AppendedPack DEF PackMoves
<1>3. CASE FinalizeRelease(r)
  BY <1>3, ReleasedPacks DEF PackMoves, Released
<1>4. CASE ClaimPack(r)
  BY <1>4, ClaimedPack DEF PackMoves
<1>5. ASSUME NEW o \in DOMAIN pack[r], SaveDraft(r, o) PROVE Moved
  <2>1. PICK d \in Draft :
           /\ Saveable(pack[r][o])
           /\ DOMAIN pack'[r] = DOMAIN pack[r] /\ Len(pack'[r]) = Len(pack[r])
           /\ pack'[r][o] = [pack[r][o] EXCEPT !.draft = d, !.status = "saved"]
           /\ \A q \in DOMAIN pack[r] \ {o} : pack'[r][q] = pack[r][q]
    BY <1>5, SavedPack
  <2>2. PackMoves(pack[r][o], pack'[r][o])
    BY <2>1 DEF PackMoves
  <2>3. \A q \in DOMAIN pack[r] \ {o} : PackMoves(pack[r][q], pack'[r][q])
    BY <2>1 DEF PackMoves
  <2> QED
    BY <2>1, <2>2, <2>3
<1>6. ASSUME NEW o \in DOMAIN pack[r], FinishPack(r, o) PROVE Moved
  <2>1. /\ pack[r][o].status = "saved"
        /\ DOMAIN pack'[r] = DOMAIN pack[r]
        /\ pack'[r][o] = [pack[r][o] EXCEPT !.status = "completed",
                                            !.receipt = pack[r][o].draft]
        /\ \A q \in DOMAIN pack[r] \ {o} : pack'[r][q] = Released(pack[r][q])
    BY <1>6, FinishedPack
  <2>2. PackMoves(pack[r][o], pack'[r][o])
    BY <2>1 DEF PackMoves
  <2>3. \A q \in DOMAIN pack[r] \ {o} : PackMoves(pack[r][q], pack'[r][q])
    BY <2>1 DEF PackMoves, Released
  <2> QED
    BY <2>1, <2>2, <2>3
<1>7. ASSUME NEW s \in Session, DeleteSession(s) PROVE Moved
  BY <1>7, DeletedMemberships DEF PackMoves
<1> HIDE DEF Moved
<1>8. ASSUME RequestStep(r) PROVE Moved
  <2>1. CASE Create(r) \/ PrepareBatch(r) \/ FinalizeNoEligible(r) \/ FinalizeShell(r)
             \/ FinalizeMembers(r) \/ StepFails(r) \/ Retry(r)
    <3>1. pack' = pack
      BY <2>1 DEF Create, PrepareBatch, FinalizeNoEligible, FinalizeShell, FinalizeMembers,
                  StepFails, Retry, requestVars
    <3> QED
      BY <1>1, <3>1
  <2> QED
    BY <1>2, <1>3, <1>4, <1>5, <1>6, <1>8, <2>1 DEF RequestStep, PreparationStep
<1>9. ASSUME NEW q \in Request \ {r}, RequestStep(q) PROVE Moved
  BY <1>1, <1>9, OtherRows
<1>10. ASSUME NEW s \in Session, SessionStep(s) PROVE Moved
  <2>1. CASE UserExcludes(s) \/ UserAccepts(s) \/ TranscriptImported(s)
    <3>1. pack' = pack
      BY <2>1 DEF UserExcludes, UserAccepts, TranscriptImported, requestVars
    <3> QED
      BY <1>1, <3>1
  <2> QED
    BY <1>7, <1>10, <2>1 DEF SessionStep
<1>11. Crash \/ Restart \/ UNCHANGED vars => Moved
  <2>1. Crash \/ Restart \/ UNCHANGED vars => pack' = pack
    BY DEF Crash, Restart, vars, requestVars
  <2> QED
    BY <1>1, <2>1
<1> QED
  BY <1>8, <1>9, <1>10, <1>11 DEF Next

-----------------------------------------------------------------------------
(* Receipts                                                                 *)

(* A pack with a receipt is completed, and the receipt is of its draft.     *)
ReceiptsOfDrafts ==
  \A r \in Request : \A o \in DOMAIN pack[r] :
    pack[r][o].receipt # NoDraft =>
      pack[r][o].status = "completed" /\ pack[r][o].receipt = pack[r][o].draft

ReceiptInv == TypeInv /\ ReceiptsOfDrafts

(* One move of a pack neither changes a receipt nor parts it from its draft.*)
LEMMA ReceiptOfMove ==
  ASSUME NEW p \in Pack, NEW q, PackMoves(p, q),
         p.receipt # NoDraft => p.status = "completed" /\ p.receipt = p.draft
  PROVE  /\ p.receipt # NoDraft => q.receipt = p.receipt
         /\ q.receipt # NoDraft => q.status = "completed" /\ q.receipt = q.draft
<1>1. CASE Saveable(p) /\ \E d \in Draft : q = [p EXCEPT !.draft = d, !.status = "saved"]
  BY <1>1 DEF Saveable, Pack
<1>2. CASE \E s \in Session : q = MembershipDeleted(p, s)
  BY <1>2 DEF MembershipDeleted, Pack
<1>3. CASE p.status = "saved" /\ q = [p EXCEPT !.status = "completed", !.receipt = p.draft]
  BY <1>3 DEF Pack
<1>4. CASE p.status = "pending" /\ q = [p EXCEPT !.status = "available"]
  BY <1>4 DEF Pack
<1>5. CASE p.status = "available" /\ q = [p EXCEPT !.status = "active"]
  BY <1>5 DEF Pack
<1> QED
  BY <1>1, <1>2, <1>3, <1>4, <1>5 DEF PackMoves

(* Every step keeps the receipts with their drafts.                         *)
LEMMA ReceiptsKept ==
  ASSUME ReceiptInv, [Next]_vars, NEW r \in Request
  PROVE  /\ \A o \in DOMAIN pack[r] :
              /\ o \in DOMAIN pack'[r]
              /\ pack[r][o].receipt # NoDraft => pack'[r][o].receipt = pack[r][o].receipt
         /\ \A o \in DOMAIN pack'[r] :
              pack'[r][o].receipt # NoDraft =>
                pack'[r][o].status = "completed" /\ pack'[r][o].receipt = pack'[r][o].draft
<1>1. \A o \in DOMAIN pack[r] : pack[r][o] \in Pack
  BY DEF ReceiptInv, TypeInv, TypeOK
<1>2. \A o \in DOMAIN pack[r] :
        /\ o \in DOMAIN pack'[r]
        /\ pack[r][o].receipt # NoDraft => pack'[r][o].receipt = pack[r][o].receipt
        /\ pack'[r][o].receipt # NoDraft =>
             pack'[r][o].status = "completed" /\ pack'[r][o].receipt = pack'[r][o].draft
  BY <1>1, PacksMove, ReceiptOfMove DEF ReceiptInv, ReceiptsOfDrafts
<1>3. \A o \in DOMAIN pack'[r] \ DOMAIN pack[r] : pack'[r][o].receipt = NoDraft
  <2>1. \A o \in DOMAIN pack'[r] \ DOMAIN pack[r] : pack'[r][o] = InsertedPack(r, o)
    BY PacksMove DEF ReceiptInv
  <2>2. \A o : InsertedPack(r, o).receipt = NoDraft
    BY DEF InsertedPack
  <2> QED
    BY <2>1, <2>2
<1> QED
  BY <1>2, <1>3

(* A receipt is written once, for the draft the pack holds, and no later    *)
(* claim, save, finish, retry, deletion or restart changes it or the draft  *)
(* (finishWorkbenchAuthoringV5Pack answers again with the one it wrote).    *)
THEOREM ReceiptsStayFinal == Spec => ReceiptsAreFinal
<1>1. Init => ReceiptInv
  <2>1. Init => ReceiptsOfDrafts
    BY DEF Init, ReceiptsOfDrafts
  <2> QED
    BY <2>1, InitTypeInv DEF ReceiptInv
<1>2. ReceiptInv /\ [Next]_vars => ReceiptInv'
  BY ReceiptsKept, TypesKept DEF ReceiptInv, ReceiptsOfDrafts
<1>3. ReceiptInv /\ [Next]_vars =>
        [\A r \in Request : \A o \in DOMAIN pack[r] :
           /\ pack[r][o].receipt # NoDraft => pack'[r][o].receipt = pack[r][o].receipt
           /\ pack'[r][o].receipt # NoDraft => pack'[r][o].receipt = pack'[r][o].draft]_vars
  BY ReceiptsKept
<1> QED
  BY <1>1, <1>2, <1>3, PTL DEF Spec, ReceiptsAreFinal

-----------------------------------------------------------------------------
(* The freeze                                                               *)

(* A preparation that can still go on: exactly what the freeze triggers     *)
(* look at.                                                                 *)
MayGoOn(r) == status[r] = "preparing" \/ (status[r] = "failed" /\ error[r] # "no_eligible")

(* What the freeze triggers keep is every session that may yet be found     *)
(* eligible, and an ordinal is found eligible only if its session is one of *)
(* them; a preparation that failed for good found none.                     *)
Kept(r) ==
  /\ ready[r] \subseteq Selected(r)
  /\ MayGoOn(r) => ready[r] \cap Usable \subseteq stored
  /\ \A k \in EligibleOrdinals(r) : Selection[r][k] \in ready[r] \cap Usable
  /\ status[r] = "failed" /\ ~MayGoOn(r) => EligibleOrdinals(r) = {}
  /\ status[r] = "none" => outcome[r] = <<>>

KeptInv == StageInv /\ \A r \in Request : Kept(r)

(* What this depends on.                                                    *)
LEMMA KeptFrame ==
  ASSUME NEW r \in Request, Kept(r), stored' = stored, status'[r] = status[r],
         error'[r] = error[r], ready'[r] = ready[r], outcome'[r] = outcome[r]
  PROVE  Kept(r)'
  BY DEF Kept, MayGoOn, EligibleOrdinals, Selected

(* The eligible ordinals are finitely many, and none when the count is zero.*)
LEMMA EligibleOrdinalsFinite ==
  ASSUME TypeInv, NEW r \in Request
  PROVE  /\ IsFiniteSet(EligibleOrdinals(r))
         /\ EligibleCount(r) \in Nat
         /\ EligibleCount(r) = 0 <=> EligibleOrdinals(r) = {}
<1>1. /\ Len(outcome[r]) \in Nat
      /\ EligibleOrdinals(r) \subseteq 1 .. Len(outcome[r])
  BY DEF TypeInv, TypeOK, EligibleOrdinals
<1>2. IsFiniteSet(EligibleOrdinals(r))
  <2>1. IsFiniteSet(1 .. Len(outcome[r]))
    BY <1>1, FS_Interval
  <2> QED
    BY <1>1, <2>1, FS_Subset
<1> QED
  BY <1>2, FS_CardinalityType, FS_EmptySet DEF EligibleCount

(* Creating, failing and retrying.                                          *)
LEMMA KeptOfStatusSteps ==
  ASSUME KeptInv, NEW r \in Request,
         Create(r) \/ FinalizeNoEligible(r) \/ StepFails(r) \/ Retry(r)
  PROVE  Kept(r)'
<1>1. /\ status \in [Request -> PrepStatus] /\ error \in [Request -> ErrorCode]
      /\ ready \in [Request -> SUBSET Session]
  BY DEF KeptInv, StageInv, TypeInv, TypeOK
<1>2. Kept(r) /\ UNCHANGED <<stored, outcome>>
  BY DEF KeptInv, Create, FinalizeNoEligible, StepFails, Retry, sessionVars
<1>3. EligibleOrdinals(r)' = EligibleOrdinals(r) /\ Selected(r)' = Selected(r)
  BY <1>2 DEF EligibleOrdinals, Selected
<1>4. CASE Create(r)
  <2>1. status'[r] = "preparing" /\ outcome[r] = <<>>
        /\ ready'[r] = {s \in Selected(r) : s \in stored /\ CompileReady(r, s)}
    BY <1>1, <1>2, <1>4 DEF Create, Kept
  <2>2. EligibleOrdinals(r) = {}
    BY <2>1 DEF EligibleOrdinals
  <2> QED
    BY <1>2, <1>3, <2>1, <2>2 DEF Kept
<1>5. CASE FinalizeNoEligible(r)
  <2>1. status'[r] = "failed" /\ ready' = ready /\ error'[r] = "no_eligible"
    BY <1>1, <1>5 DEF FinalizeNoEligible
  <2>2. EligibleOrdinals(r) = {}
    BY <1>5, EligibleOrdinalsFinite DEF FinalizeNoEligible, KeptInv, StageInv
  <2> QED
    BY <1>2, <1>3, <2>1, <2>2 DEF Kept, MayGoOn
<1>6. CASE StepFails(r)
  <2>1. /\ status'[r] = "failed" /\ ready' = ready /\ error'[r] = "step_failed"
        /\ status[r] = "preparing"
    BY <1>1, <1>6 DEF StepFails, AtHead, Preparing
  <2> QED
    BY <1>2, <1>3, <2>1 DEF Kept, MayGoOn
<1>7. CASE Retry(r)
  <2>1. /\ status'[r] = "preparing" /\ ready' = ready /\ MayGoOn(r)
    BY <1>1, <1>7 DEF Retry, MayGoOn
  <2> QED
    BY <1>2, <1>3, <2>1 DEF Kept, MayGoOn
<1> QED
  BY <1>4, <1>5, <1>6, <1>7

(* A batch finds only ready sessions with usable evidence eligible.         *)
LEMMA KeptOfPrepareBatch ==
  ASSUME KeptInv, NEW r \in Request, PrepareBatch(r)
  PROVE  Kept(r)'
<1>1. /\ outcome \in [Request -> Seq({"eligible", "excluded"})]
      /\ Kept(r) /\ status[r] = "preparing"
      /\ UNCHANGED <<stored, status, error, ready>>
  BY DEF KeptInv, StageInv, TypeInv, TypeOK, PrepareBatch, AtHead, Preparing
<1>2. outcome'[r] = WithSettled(r)
  BY <1>1 DEF PrepareBatch
<1>3. ASSUME NEW k \in EligibleOrdinals(r)'
      PROVE  Selection[r][k] \in ready[r] \cap Usable
  <2>1. k \in DOMAIN outcome[r] \cup Settled(r) /\ WithSettled(r)[k] = "eligible"
    BY <1>2, <1>3 DEF EligibleOrdinals, WithSettled
  <2>2. CASE k \in Settled(r)
    <3>1. SettledOutcome(r, k) = "eligible"
      BY <2>1, <2>2 DEF WithSettled
    <3> QED
      BY <3>1 DEF SettledOutcome
  <2>3. CASE k \notin Settled(r)
    <3>1. k \in EligibleOrdinals(r)
      BY <2>1, <2>3 DEF WithSettled, EligibleOrdinals
    <3> QED
      BY <1>1, <3>1 DEF Kept
  <2> QED
    BY <2>2, <2>3
<1> QED
  BY <1>1, <1>3 DEF Kept, MayGoOn, Selected

(* A deletion that goes through took no session of a preparation that may   *)
(* go on: a session with usable evidence has evidence rows to freeze.       *)
LEMMA KeptOfDelete ==
  ASSUME KeptInv, NEW s \in Session, DeleteSession(s), NEW r \in Request
  PROVE  Kept(r)'
<1>1. Kept(r) /\ UNCHANGED <<status, error, ready, outcome>> /\ stored' = stored \ {s}
      /\ ~Frozen(s)
  BY DEF KeptInv, DeleteSession, prepVars
<1>2. ASSUME MayGoOn(r) PROVE s \notin ready[r] \cap Usable
  <2> SUFFICES ASSUME s \in ready[r], s \in Usable PROVE FALSE
    OBVIOUS
  <2>1. EvidencePages[s] > 0
    BY EvidenceAssumption
  <2>2. s \in Selected(r)
    BY <1>1 DEF Kept
  <2> QED
    BY <1>1, <1>2, <2>1, <2>2 DEF Frozen, MayGoOn
<1>3. EligibleOrdinals(r)' = EligibleOrdinals(r) /\ Selected(r)' = Selected(r)
      /\ MayGoOn(r)' = MayGoOn(r)
  BY <1>1 DEF EligibleOrdinals, Selected, MayGoOn
<1> QED
  BY <1>1, <1>2, <1>3 DEF Kept

(* Every step keeps what the triggers freeze.                               *)
LEMMA FreezeKept ==
  ASSUME KeptInv, [Next]_vars PROVE KeptInv'
<1>1. StageInv'
  BY StagesKept DEF KeptInv
<1>2. ASSUME NEW r \in Request, RequestStep(r), NEW q \in Request PROVE Kept(q)'
  <2>1. CASE q # r
    BY <1>2, <2>1, OtherRows, KeptFrame DEF KeptInv, StageInv
  <2>2. CASE q = r
    <3>1. CASE Create(r) \/ FinalizeNoEligible(r) \/ StepFails(r) \/ Retry(r) \/ PrepareBatch(r)
      BY <2>2, <3>1, KeptOfStatusSteps, KeptOfPrepareBatch
    <3>2. CASE FinalizeRelease(r)
      <4>1. /\ status'[r] = "ready" /\ status[r] = "preparing"
            /\ UNCHANGED <<stored, ready, outcome>>
        BY <3>2 DEF FinalizeRelease, Building, Finalizing, AtHead, Preparing, sessionVars,
                    KeptInv, StageInv, TypeInv, TypeOK
      <4> QED
        BY <2>2, <4>1 DEF KeptInv, Kept, MayGoOn, EligibleOrdinals, Selected
    <3>3. CASE \/ FinalizeShell(r) \/ FinalizeMembers(r) \/ FinalizePack(r) \/ ClaimPack(r)
               \/ \E o \in DOMAIN pack[r] : SaveDraft(r, o) \/ FinishPack(r, o)
      <4>1. UNCHANGED <<stored, prepVars>>
        BY <3>3 DEF FinalizeShell, FinalizeMembers, FinalizePack, ClaimPack, SaveDraft, FinishPack,
                    sessionVars
      <4> QED
        BY <2>2, <4>1, KeptFrame DEF KeptInv, prepVars
    <3> QED
      BY <1>2, <3>1, <3>2, <3>3 DEF RequestStep, PreparationStep
  <2> QED
    BY <2>1, <2>2
<1>3. ASSUME NEW s \in Session, SessionStep(s), NEW q \in Request PROVE Kept(q)'
  <2>1. CASE DeleteSession(s)
    BY <2>1, KeptOfDelete
  <2>2. CASE UserExcludes(s) \/ UserAccepts(s) \/ TranscriptImported(s)
    <3>1. UNCHANGED <<stored, prepVars>>
      BY <2>2 DEF UserExcludes, UserAccepts, TranscriptImported
    <3> QED
      BY <3>1, KeptFrame DEF KeptInv, prepVars
  <2> QED
    BY <1>3, <2>1, <2>2 DEF SessionStep
<1>4. ASSUME Crash \/ Restart \/ UNCHANGED vars, NEW q \in Request PROVE Kept(q)'
  <2>1. UNCHANGED <<stored, prepVars>>
    BY <1>4 DEF Crash, Restart, vars, sessionVars
  <2> QED
    BY <2>1, KeptFrame DEF KeptInv, prepVars
<1> QED
  BY <1>1, <1>2, <1>3, <1>4 DEF Next, KeptInv

(* Nothing is frozen at first.                                              *)
LEMMA InitKeptInv == Init => KeptInv
<1> SUFFICES ASSUME Init PROVE KeptInv
  OBVIOUS
<1>1. \A r \in Request : Kept(r)
  BY DEF Init, Kept, MayGoOn, EligibleOrdinals
<1> QED
  BY <1>1, InitStageInv DEF KeptInv

(* Every eligible session is one the freeze keeps.                          *)
LEMMA EligibleStored ==
  ASSUME KeptInv, NEW r \in Request, status[r] \in {"preparing", "failed"}
  PROVE  Eligible(r) \subseteq stored
  BY DEF KeptInv, Kept, MayGoOn, Eligible

(* The freeze triggers are enough: until a preparation is ready none of the *)
(* sessions it found eligible can be deleted, through failures, retries and *)
(* crashes, although the triggers look at evidence rows and the error code  *)
(* and not at outcomes.                                                     *)
THEOREM EligibleNeverDeleted == Spec => []EligibleStayStored
<1>1. Init => KeptInv
  BY InitKeptInv
<1>2. KeptInv /\ [Next]_vars => KeptInv'
  BY FreezeKept
<1>3. KeptInv => EligibleStayStored
  BY EligibleStored DEF EligibleStayStored
<1> QED
  BY <1>1, <1>2, <1>3, PTL DEF Spec

-----------------------------------------------------------------------------
(* The plan                                                                 *)

(* There are at most as many eligible sessions as eligible ordinals.        *)
LEMMA EligibleSize ==
  ASSUME TypeInv, NEW r \in Request
  PROVE  /\ IsFiniteSet(Eligible(r))
         /\ Cardinality(Eligible(r)) \in Nat
         /\ Cardinality(Eligible(r)) <= EligibleCount(r)
<1> DEFINE f == [k \in EligibleOrdinals(r) |-> Selection[r][k]]
<1>1. f \in Surjection(EligibleOrdinals(r), Eligible(r))
  BY DEF Surjection, Eligible
<1>2. IsFiniteSet(EligibleOrdinals(r))
  BY EligibleOrdinalsFinite
<1>3. IsFiniteSet(Eligible(r)) /\ Cardinality(Eligible(r)) <= EligibleCount(r)
  BY <1>1, <1>2, FS_Surjection DEF EligibleCount
<1> QED
  BY <1>3, FS_CardinalityType

(* Every pack holds the planned sessions that are still stored, and once    *)
(* the first pack is there the members are the eligible sessions that are.  *)
Planned(r) ==
  /\ \A o \in DOMAIN pack[r] : pack[r][o].members = PlannedMembers(r, o - 1) \cap stored
  /\ Members(r) \subseteq Eligible(r)
  /\ pack[r] # <<>> => Members(r) = Eligible(r) \cap stored
  /\ reqStatus[r] = "none" => Members(r) = {}

PlanInv == KeptInv /\ \A r \in Request : Planned(r)

(* The plan depends on the outcomes alone.                                  *)
LEMMA PlanFrame ==
  ASSUME NEW r \in Request, outcome'[r] = outcome[r]
  PROVE  /\ Eligible(r)' = Eligible(r)
         /\ \A o : PlannedMembers(r, o)' = PlannedMembers(r, o)
         /\ EligibleCount(r)' = EligibleCount(r)
<1>1. EligibleOrdinals(r)' = EligibleOrdinals(r)
  BY DEF EligibleOrdinals
<1>2. EligibleCount(r)' = EligibleCount(r) /\ Eligible(r)' = Eligible(r)
  BY <1>1 DEF EligibleCount, Eligible
<1>3. \A k : Rank(r, k)' = Rank(r, k)
  BY <1>1 DEF Rank
<1>4. \A o : PackRanks(EligibleCount(r), o)' = PackRanks(EligibleCount(r), o)
  BY <1>2 DEF PackRanks, PackOffset, PackSize, BaseSize, Remainder, PackCount
<1> QED
  BY <1>1, <1>2, <1>3, <1>4 DEF PlannedMembers, SessionsAtRanks

(* Steps that change neither outcomes nor memberships.                      *)
LEMMA PlannedFrame ==
  ASSUME NEW r \in Request, Planned(r), stored' = stored, outcome'[r] = outcome[r],
         reqStatus'[r] = "none" => reqStatus[r] = "none", Members(r)' = Members(r),
         DOMAIN pack'[r] = DOMAIN pack[r], pack'[r] # <<>> => pack[r] # <<>>,
         \A o \in DOMAIN pack[r] : pack'[r][o].members = pack[r][o].members
  PROVE  Planned(r)'
  BY PlanFrame DEF Planned

(* Ranks choose among the eligible ordinals.                                *)
LEMMA PlannedAreEligible ==
  ASSUME NEW r \in Request
  PROVE  /\ \A ranks : SessionsAtRanks(r, ranks) \subseteq Eligible(r)
         /\ \A o : PlannedMembers(r, o) \subseteq Eligible(r)
  BY DEF SessionsAtRanks, PlannedMembers, Eligible

(* A batch runs before the request row exists, so nothing is planned yet.   *)
LEMMA PlannedOfPrepareBatch ==
  ASSUME PlanInv, NEW r \in Request, PrepareBatch(r)
  PROVE  Planned(r)'
<1>1. /\ reqStatus[r] = "none" /\ pack[r] = <<>> /\ Members(r) = {}
      /\ UNCHANGED <<reqStatus, pack, member>>
  BY DEF PrepareBatch, PlanInv, KeptInv, StageInv, Staged, Planned, requestVars
<1>2. Members(r)' = {}
  BY <1>1 DEF Members
<1>3. DOMAIN pack'[r] = {}
  BY <1>1
<1> QED
  BY <1>1, <1>2, <1>3 DEF Planned

(* A chunk of members is a chunk of eligible sessions, and none is left to  *)
(* insert once a pack exists.                                               *)
LEMMA PlannedOfMembers ==
  ASSUME PlanInv, NEW r \in Request, FinalizeMembers(r)
  PROVE  Planned(r)'
<1>1. /\ member \in [Request -> [Session -> MemberState]]
      /\ Planned(r) /\ UNCHANGED <<stored, outcome, pack, reqStatus>>
      /\ reqStatus[r] # "none" /\ status[r] = "preparing"
  BY DEF PlanInv, KeptInv, StageInv, TypeInv, TypeOK, FinalizeMembers, Building, Finalizing, AtHead,
         Preparing, sessionVars, prepVars
<1>2. member'[r] = [s \in Session |-> IF s \in MemberSlice(r) /\ member[r][s] = "none"
                                        THEN "pending" ELSE member[r][s]]
  BY <1>1 DEF FinalizeMembers
<1>3. Members(r)' = Members(r) \cup (MemberSlice(r) \cap Session)
  BY <1>2 DEF Members
<1>4. MemberSlice(r) \subseteq Eligible(r)
  BY PlannedAreEligible DEF MemberSlice
<1>5. pack[r] # <<>> => Members(r)' = Members(r)
  <2>1. Eligible(r) \subseteq stored
    BY <1>1, EligibleStored DEF PlanInv
  <2> QED
    BY <1>1, <1>3, <1>4, <2>1 DEF Planned
<1>6. Eligible(r)' = Eligible(r) /\ \A o : PlannedMembers(r, o)' = PlannedMembers(r, o)
  BY <1>1, PlanFrame
<1> QED
  BY <1>1, <1>3, <1>4, <1>5, <1>6 DEF Planned

(* A pack is appended once all members are there; that is decided by their  *)
(* number, and the freeze makes the number enough.                          *)
LEMMA PlannedOfPack ==
  ASSUME PlanInv, NEW r \in Request, FinalizePack(r)
  PROVE  Planned(r)'
<1>1. /\ Planned(r) /\ UNCHANGED <<stored, outcome, member, reqStatus>>
      /\ reqStatus[r] # "none" /\ status[r] = "preparing"
      /\ Cardinality(Members(r)) >= EligibleCount(r)
      /\ pack[r] \in Seq(Pack)
  BY DEF PlanInv, KeptInv, StageInv, TypeInv, TypeOK, FinalizePack, Building, Finalizing, AtHead,
         Preparing, sessionVars, prepVars
<1>2. TypeInv
  BY DEF PlanInv, KeptInv, StageInv
<1>3. Members(r) = Eligible(r)
  <2>1. /\ IsFiniteSet(Eligible(r)) /\ Members(r) \subseteq Eligible(r)
        /\ Cardinality(Eligible(r)) \in Nat /\ Cardinality(Eligible(r)) <= EligibleCount(r)
    BY <1>1, <1>2, EligibleSize DEF Planned
  <2>2. /\ Cardinality(Members(r)) <= Cardinality(Eligible(r))
        /\ Cardinality(Members(r)) = Cardinality(Eligible(r)) => Members(r) = Eligible(r)
    BY <2>1, FS_Subset
  <2>3. Cardinality(Members(r)) \in Nat /\ EligibleCount(r) \in Nat
    BY <1>2, <2>1, FS_Subset, FS_CardinalityType, EligibleOrdinalsFinite
  <2> QED
    BY <1>1, <2>1, <2>2, <2>3
<1>4. Eligible(r) \subseteq stored
  BY <1>1, EligibleStored DEF PlanInv
<1>5. /\ Eligible(r)' = Eligible(r) /\ \A o : PlannedMembers(r, o)' = PlannedMembers(r, o)
      /\ Members(r)' = Members(r)
  BY <1>1, PlanFrame DEF Members
<1> DEFINE n == Len(pack[r])
<1>6. /\ n \in Nat /\ DOMAIN pack'[r] = DOMAIN pack[r] \cup {n + 1}
      /\ \A o \in DOMAIN pack[r] : pack'[r][o] = pack[r][o]
      /\ pack'[r][n + 1].members = PlannedMembers(r, n + 1 - 1)
  <2>1. /\ DOMAIN pack'[r] = DOMAIN pack[r] \cup {n + 1}
        /\ \A o \in DOMAIN pack[r] : pack'[r][o] = pack[r][o]
        /\ pack'[r][n + 1] = InsertedPack(r, n + 1)
    BY <1>2, AppendedPack
  <2>2. InsertedPack(r, n + 1).members = PlannedMembers(r, n + 1 - 1)
    BY DEF InsertedPack
  <2> QED
    BY <1>1, <2>1, <2>2
<1>7. PlannedMembers(r, n + 1 - 1) \subseteq stored
  BY <1>4, PlannedAreEligible
<1> HIDE DEF n
<1>8. \A o \in DOMAIN pack'[r] : pack'[r][o].members = PlannedMembers(r, o - 1) \cap stored
  <2> SUFFICES ASSUME NEW o \in DOMAIN pack'[r]
               PROVE  pack'[r][o].members = PlannedMembers(r, o - 1) \cap stored
    OBVIOUS
  <2>1. CASE o \in DOMAIN pack[r]
    BY <1>1, <1>6, <2>1 DEF Planned
  <2>2. CASE o = n + 1
    BY <1>6, <1>7, <2>2
  <2> QED
    BY <1>6, <2>1, <2>2
<1> QED
  BY <1>1, <1>3, <1>4, <1>5, <1>8 DEF Planned

(* A deletion takes the session out of the table, the members and the packs *)
(* at once.                                                                 *)
LEMMA PlannedOfDelete ==
  ASSUME PlanInv, NEW s \in Session, DeleteSession(s), NEW r \in Request
  PROVE  Planned(r)'
<1>1. /\ Planned(r) /\ UNCHANGED <<outcome, reqStatus>> /\ stored' = stored \ {s}
      /\ member \in [Request -> [Session -> MemberState]]
      /\ pack[r] \in Seq(Pack) /\ \A o \in DOMAIN pack[r] : pack[r][o] \in Pack
  BY DEF PlanInv, KeptInv, StageInv, TypeInv, TypeOK, DeleteSession, prepVars
<1>2. /\ DOMAIN pack'[r] = DOMAIN pack[r] /\ Len(pack'[r]) = Len(pack[r])
      /\ \A o \in DOMAIN pack[r] : pack'[r][o] = MembershipDeleted(pack[r][o], s)
      /\ member'[r] = [member[r] EXCEPT ![s] = "none"]
  BY DeletedMemberships DEF PlanInv, KeptInv, StageInv
<1>3. \A p \in Pack : MembershipDeleted(p, s).members = p.members \ {s}
  BY DEF MembershipDeleted, Pack
<1>4. Members(r)' = Members(r) \ {s}
  BY <1>1, <1>2 DEF Members
<1>5. Eligible(r)' = Eligible(r) /\ \A o : PlannedMembers(r, o)' = PlannedMembers(r, o)
  BY <1>1, PlanFrame
<1>6. pack'[r] # <<>> => pack[r] # <<>>
  <2> SUFFICES ASSUME pack[r] = <<>> PROVE pack'[r] = <<>>
    OBVIOUS
  <2>1. pack'[r] = [o \in DOMAIN pack[r] |-> MembershipDeleted(pack[r][o], s)]
    BY DEF DeleteSession
  <2>2. DOMAIN pack[r] = {}
    OBVIOUS
  <2> QED
    BY <2>1, <2>2
<1>7. \A o \in DOMAIN pack[r] : pack'[r][o].members = pack[r][o].members \ {s}
  BY <1>1, <1>2, <1>3
<1> QED
  BY <1>1, <1>2, <1>4, <1>5, <1>6, <1>7 DEF Planned

(* Agents and the release touch neither the members of a pack nor who is a  *)
(* member of the request.                                                   *)
LEMMA PlannedOfPackSteps ==
  ASSUME PlanInv, NEW r \in Request,
         FinalizeRelease(r) \/ ClaimPack(r) \/ \E o \in DOMAIN pack[r] : SaveDraft(r, o) \/ FinishPack(r, o)
  PROVE  Planned(r)'
<1>0. TypeInv /\ Planned(r)
  BY DEF PlanInv, KeptInv, StageInv
<1>1. /\ member \in [Request -> [Session -> MemberState]]
      /\ reqStatus \in [Request -> {"none", "open", "active", "completed"}]
      /\ pack[r] \in Seq(Pack) /\ \A o \in DOMAIN pack[r] : pack[r][o] \in Pack
  BY <1>0 DEF TypeInv, TypeOK
<1>2. UNCHANGED <<stored, outcome>>
  BY DEF FinalizeRelease, ClaimPack, SaveDraft, FinishPack, prepVars, sessionVars
<1>3. reqStatus'[r] = "none" => reqStatus[r] = "none"
  BY <1>1 DEF FinalizeRelease, ClaimPack, SaveDraft, FinishPack
<1>4. pack'[r] # <<>> => pack[r] # <<>>
  <2> SUFFICES ASSUME pack[r] = <<>>, pack'[r] # <<>> PROVE FALSE
    OBVIOUS
  <2>1. DOMAIN pack[r] = {}
    OBVIOUS
  <2>2. FinalizeRelease(r)
    BY <1>0, <2>1, ClaimedPack
  <2>3. pack'[r] = [o \in DOMAIN pack[r] |-> Released(pack[r][o])]
    BY <2>2 DEF FinalizeRelease, PlanInv, KeptInv, StageInv, TypeInv, TypeOK
  <2> QED
    BY <2>1, <2>3
<1>5. Members(r)' = Members(r)
  <2>1. CASE FinalizeRelease(r) \/ \E o \in DOMAIN pack[r] : SaveDraft(r, o)
    BY <2>1 DEF FinalizeRelease, SaveDraft, Members
  <2>2. CASE ClaimPack(r)
    <3>1. PICK o \in DOMAIN pack[r] : member'[r] = PackAssigned(r, o)
      BY <1>0, <2>2, ClaimedPack
    <3> QED
      BY <3>1 DEF PackAssigned, Members
  <2>3. ASSUME NEW o \in DOMAIN pack[r], FinishPack(r, o) PROVE Members(r)' = Members(r)
    <3> DEFINE p == pack[r][o]
    <3>1. /\ DOMAIN p.draft.verdict = p.members
          /\ member'[r] = [s \in Session |->
               IF s \in p.members /\ member[r][s] = "assigned"
                 THEN MemberStateFor(p.draft.verdict[s]) ELSE member[r][s]]
      BY <1>0, <2>3, FinishedPack
    <3>2. p.draft \in Draft
      BY <1>1 DEF Pack
    <3>3. \A s \in p.members : p.draft.verdict[s] \in Disposition
      BY <3>1, <3>2, VerdictOf
    <3>4. \A d \in Disposition : MemberStateFor(d) # "none"
      BY DEF Disposition, MemberStateFor
    <3> HIDE DEF p
    <3>5. \A s \in Session : member'[r][s] # "none" <=> member[r][s] # "none"
      BY <3>1, <3>3, <3>4
    <3> QED
      BY <3>5 DEF Members
  <2> QED
    BY <2>1, <2>2, <2>3
<1>6. \A p \in Pack : Released(p).members = p.members
  BY DEF Released, Pack
<1>7. /\ DOMAIN pack'[r] = DOMAIN pack[r]
      /\ \A o \in DOMAIN pack[r] : pack'[r][o].members = pack[r][o].members
  <2>1. CASE FinalizeRelease(r)
    BY <1>0, <1>1, <1>6, <2>1, ReleasedPacks
  <2>2. CASE ClaimPack(r)
    <3>1. PICK o \in DOMAIN pack[r] :
             /\ DOMAIN pack'[r] = DOMAIN pack[r]
             /\ pack'[r][o] = [pack[r][o] EXCEPT !.status = "active"]
             /\ \A q \in DOMAIN pack[r] \ {o} : pack'[r][q] = pack[r][q]
      BY <1>0, <2>2, ClaimedPack
    <3>2. pack'[r][o].members = pack[r][o].members
      BY <1>1, <3>1 DEF Pack
    <3> QED
      BY <3>1, <3>2
  <2>3. ASSUME NEW o \in DOMAIN pack[r], SaveDraft(r, o)
        PROVE  /\ DOMAIN pack'[r] = DOMAIN pack[r]
               /\ \A q \in DOMAIN pack[r] : pack'[r][q].members = pack[r][q].members
    <3>1. PICK d \in Draft :
             /\ Saveable(pack[r][o])
             /\ DOMAIN pack'[r] = DOMAIN pack[r] /\ Len(pack'[r]) = Len(pack[r])
             /\ pack'[r][o] = [pack[r][o] EXCEPT !.draft = d, !.status = "saved"]
             /\ \A q \in DOMAIN pack[r] \ {o} : pack'[r][q] = pack[r][q]
      BY <1>0, <2>3, SavedPack
    <3>2. pack'[r][o].members = pack[r][o].members
      BY <1>1, <3>1 DEF Pack
    <3> QED
      BY <3>1, <3>2
  <2>4. ASSUME NEW o \in DOMAIN pack[r], FinishPack(r, o)
        PROVE  /\ DOMAIN pack'[r] = DOMAIN pack[r]
               /\ \A q \in DOMAIN pack[r] : pack'[r][q].members = pack[r][q].members
    <3>1. /\ DOMAIN pack'[r] = DOMAIN pack[r]
          /\ pack'[r][o] = [pack[r][o] EXCEPT !.status = "completed",
                                              !.receipt = pack[r][o].draft]
          /\ \A q \in DOMAIN pack[r] \ {o} : pack'[r][q] = Released(pack[r][q])
      BY <1>0, <2>4, FinishedPack
    <3>2. pack'[r][o].members = pack[r][o].members
      BY <1>1, <3>1 DEF Pack
    <3>3. \A q \in DOMAIN pack[r] \ {o} : pack'[r][q].members = pack[r][q].members
      BY <1>1, <1>6, <3>1
    <3> QED
      BY <3>1, <3>2, <3>3
  <2> QED
    BY <2>1, <2>2, <2>3, <2>4
<1> QED
  BY <1>0, <1>2, <1>3, <1>4, <1>5, <1>7, PlannedFrame

(* Every step keeps the plan.                                               *)
LEMMA PlanKept ==
  ASSUME PlanInv, [Next]_vars PROVE PlanInv'
<1>1. KeptInv' /\ TypeInv
  BY FreezeKept DEF PlanInv, KeptInv, StageInv
<1>2. ASSUME NEW q \in Request, stored' = stored, outcome'[q] = outcome[q],
             reqStatus'[q] = reqStatus[q], member'[q] = member[q], pack'[q] = pack[q]
      PROVE  Planned(q)'
  <2>1. Members(q)' = Members(q)
    BY <1>2 DEF Members
  <2> QED
    BY <1>2, <2>1, PlannedFrame DEF PlanInv
<1>3. ASSUME NEW r \in Request, RequestStep(r), NEW q \in Request PROVE Planned(q)'
  <2>1. CASE q # r
    BY <1>1, <1>2, <1>3, <2>1, OtherRows
  <2>2. CASE q = r
    <3>1. CASE Create(r) \/ FinalizeNoEligible(r) \/ StepFails(r) \/ Retry(r)
      BY <1>2, <2>2, <3>1
      DEF Create, FinalizeNoEligible, StepFails, Retry, requestVars, sessionVars
    <3>2. CASE FinalizeShell(r)
      <4>1. /\ UNCHANGED <<stored, outcome, member, pack>> /\ Planned(r) /\ reqStatus[r] = "none"
        BY <3>2 DEF FinalizeShell, sessionVars, prepVars, PlanInv
      <4>2. Members(r)' = Members(r)
        BY <4>1 DEF Members
      <4> QED
        BY <2>2, <4>1, <4>2, PlannedFrame
    <3> QED
      BY <1>3, <2>2, <3>1, <3>2, PlannedOfPrepareBatch, PlannedOfMembers, PlannedOfPack,
         PlannedOfPackSteps
      DEF RequestStep, PreparationStep
  <2> QED
    BY <2>1, <2>2
<1>4. ASSUME NEW s \in Session, SessionStep(s), NEW q \in Request PROVE Planned(q)'
  <2>1. CASE UserExcludes(s) \/ UserAccepts(s) \/ TranscriptImported(s)
    BY <1>2, <2>1 DEF UserExcludes, UserAccepts, TranscriptImported, prepVars, requestVars
  <2> QED
    BY <1>4, <2>1, PlannedOfDelete DEF SessionStep
<1>5. ASSUME Crash \/ Restart \/ UNCHANGED vars, NEW q \in Request PROVE Planned(q)'
  BY <1>2, <1>5 DEF Crash, Restart, vars, sessionVars, prepVars, requestVars
<1> QED
  BY <1>1, <1>3, <1>4, <1>5 DEF Next, PlanInv

(* Nothing is planned at first.                                             *)
LEMMA InitPlanInv == Init => PlanInv
<1> SUFFICES ASSUME Init PROVE PlanInv
  OBVIOUS
<1>1. \A r \in Request : Planned(r)
  BY DEF Init, Planned, Members
<1> QED
  BY <1>1, InitKeptInv DEF PlanInv

(* The packs divide the eligible sessions that are still stored, in the     *)
(* order of the selection, whatever chunks, failures, retries and deletions *)
(* came between the transactions that wrote them.                           *)
THEOREM PacksAlwaysFollowPlan == Spec => []PacksFollowPlan
<1>1. Init => PlanInv
  BY InitPlanInv
<1>2. PlanInv /\ [Next]_vars => PlanInv'
  BY PlanKept
<1>3. PlanInv => PacksFollowPlan
  BY DEF PlanInv, Planned, PacksFollowPlan
<1> QED
  BY <1>1, <1>2, <1>3, PTL DEF Spec

-----------------------------------------------------------------------------
(* The accounts of the work                                                 *)

(* The packs are intervals of ranks, one behind the other.                  *)
LEMMA PackRanksDisjoint ==
  ASSUME NEW n \in Nat, PackCount(n) \in Nat \ {0}, NEW a \in Nat, NEW b \in Nat, a < b
  PROVE  PackRanks(n, a) \cap PackRanks(n, b) = {}
<1> DEFINE c == PackCount(n)
           B == BaseSize(n)
           R == Remainder(n)
<1>1. B \in Nat /\ R \in Nat
  <2>1. \A k \in Nat \ {0} : n \div k \in Nat /\ n % k \in Nat
    BY SMT
  <2> QED
    BY <2>1 DEF BaseSize, Remainder
<1> HIDE DEF c, B, R
<1>2. a * B + B <= b * B /\ a * B \in Nat /\ b * B \in Nat
  <2>1. (a + 1) * B <= b * B
    BY <1>1
  <2>2. (a + 1) * B = a * B + B
    BY <1>1
  <2> QED
    BY <1>1, <2>1, <2>2
<1> DEFINE A == a * B
           C == b * B
<1>3. PackOffset(n, a) = A + (IF a < R THEN a ELSE R)
      /\ PackOffset(n, b) = C + (IF b < R THEN b ELSE R)
      /\ PackSize(n, a) = (IF a < R THEN B + 1 ELSE B)
      /\ PackSize(n, b) = (IF b < R THEN B + 1 ELSE B)
  BY DEF PackOffset, PackSize, B, R
<1>4. A \in Nat /\ C \in Nat /\ A + B <= C
  BY <1>2
<1> HIDE DEF A, C
<1>5. /\ PackOffset(n, a) \in Nat /\ PackOffset(n, b) \in Nat
      /\ PackSize(n, a) \in Nat /\ PackSize(n, b) \in Nat
      /\ PackOffset(n, a) + PackSize(n, a) <= PackOffset(n, b)
  BY <1>1, <1>3, <1>4
<1> QED
  BY <1>5 DEF PackRanks

(* No session is in two packs of a request.                                 *)
LEMMA PacksDisjoint ==
  ASSUME PlanInv, NEW r \in Request, NEW o \in DOMAIN pack[r], NEW q \in DOMAIN pack[r], o # q
  PROVE  pack[r][o].members \cap pack[r][q].members = {}
<1>1. /\ pack[r] \in Seq(Pack) /\ DOMAIN pack[r] = 1 .. Len(pack[r]) /\ Len(pack[r]) \in Nat
      /\ Len(pack[r]) <= PackCount(EligibleCount(r))
  <2>1. pack[r] # <<>>
    OBVIOUS
  <2> QED
    BY <2>1 DEF PlanInv, KeptInv, StageInv, Staged, TypeInv, TypeOK
<1>2. EligibleCount(r) \in Nat /\ PackCount(EligibleCount(r)) \in Nat \ {0}
  <2>1. EligibleCount(r) \in Nat /\ PackCount(EligibleCount(r)) \in Nat
    BY PackCountIsNatural DEF PlanInv, KeptInv, StageInv
  <2> QED
    BY <1>1, <2>1
<1>3. /\ o \in Nat /\ q \in Nat /\ o - 1 \in Nat /\ q - 1 \in Nat
      /\ o - 1 < q - 1 \/ q - 1 < o - 1
  BY <1>1
<1>4. PackRanks(EligibleCount(r), o - 1) \cap PackRanks(EligibleCount(r), q - 1) = {}
  <2>1. CASE o - 1 < q - 1
    BY <1>2, <1>3, <2>1, PackRanksDisjoint
  <2>2. CASE q - 1 < o - 1
    BY <1>2, <1>3, <2>2, PackRanksDisjoint
  <2> QED
    BY <1>3, <2>1, <2>2
<1>5. PlannedMembers(r, o - 1) \cap PlannedMembers(r, q - 1) = {}
  <2> SUFFICES ASSUME NEW s \in PlannedMembers(r, o - 1), s \in PlannedMembers(r, q - 1)
               PROVE  FALSE
    OBVIOUS
  <2>1. PICK k \in EligibleOrdinals(r) :
          s = Selection[r][k] /\ Rank(r, k) \in PackRanks(EligibleCount(r), o - 1)
    BY DEF PlannedMembers, SessionsAtRanks
  <2>2. PICK l \in EligibleOrdinals(r) :
          s = Selection[r][l] /\ Rank(r, l) \in PackRanks(EligibleCount(r), q - 1)
    BY DEF PlannedMembers, SessionsAtRanks
  <2>3. k \in DOMAIN Selection[r] /\ l \in DOMAIN Selection[r]
    BY SessionsOfSelection DEF PlanInv, KeptInv, StageInv
  <2>4. k = l
    BY <2>1, <2>2, <2>3, SelectionAssumption
  <2> QED
    BY <1>4, <2>1, <2>2, <2>4
<1> QED
  BY <1>5 DEF PlanInv, Planned

(* The state a member row has when its session is in a pack.                *)
StateIn(p, s) ==
  CASE p.status \in {"pending", "available"} -> "pending"
    [] p.status \in {"active", "saved"}      -> "assigned"
    [] p.status = "completed"                -> MemberStateFor(p.receipt.verdict[s])

Tracked(r) ==
  /\ \A o \in DOMAIN pack[r] : \A s \in pack[r][o].members :
       member[r][s] = StateIn(pack[r][o], s)
  /\ status[r] # "ready" => \A s \in Session : member[r][s] \in {"none", "pending"}

TrackInv == PlanInv /\ \A r \in Request : Tracked(r)

(* The state depends on the status and the receipt of the pack: a release,  *)
(* a save and a deletion leave it.                                          *)
LEMMA StateOfReleased ==
  ASSUME NEW p \in Pack, NEW s
  PROVE  StateIn(Released(p), s) = StateIn(p, s) /\ Released(p).members = p.members
  BY DEF StateIn, Released, Pack

LEMMA StateOfSaved ==
  ASSUME NEW p \in Pack, Saveable(p), NEW s, NEW q, q.status = "saved"
  PROVE  StateIn(q, s) = StateIn(p, s)
  BY DEF StateIn, Pack, Saveable

LEMMA StateOfDeleted ==
  ASSUME NEW p \in Pack, NEW t \in Session, NEW s
  PROVE  /\ StateIn(MembershipDeleted(p, t), s) = StateIn(p, s)
         /\ MembershipDeleted(p, t).members = p.members \ {t}
  BY DEF StateIn, Pack, MembershipDeleted

(* A claim and a finish move it.                                            *)
LEMMA StateOfClaimed ==
  ASSUME NEW p \in Pack, p.status = "available", NEW s,
         NEW q, q = [p EXCEPT !.status = "active"]
  PROVE  StateIn(p, s) = "pending" /\ StateIn(q, s) = "assigned" /\ q.members = p.members
  BY DEF StateIn, Pack

LEMMA StateOfFinished ==
  ASSUME NEW p \in Pack, p.status = "saved", NEW s,
         NEW q, q = [p EXCEPT !.status = "completed", !.receipt = p.draft]
  PROVE  /\ StateIn(p, s) = "assigned" /\ q.members = p.members
         /\ StateIn(q, s) = MemberStateFor(p.draft.verdict[s])
  BY DEF StateIn, Pack

(* Rows that stay keep their states.                                        *)
LEMMA TrackedFrame ==
  ASSUME NEW r \in Request, Tracked(r), member'[r] = member[r], pack'[r] = pack[r],
         status'[r] # "ready" => status[r] # "ready"
  PROVE  Tracked(r)'
<1>1. \A o \in DOMAIN pack'[r] : \A s \in pack'[r][o].members :
        member'[r][s] = StateIn(pack'[r][o], s)
  BY DEF Tracked
<1>2. status'[r] # "ready" => \A s \in Session : member'[r][s] \in {"none", "pending"}
  BY DEF Tracked
<1> QED
  BY <1>1, <1>2 DEF Tracked, StateIn, MemberStateFor

(* The member rows and the packs of the finalisation are pending.           *)
LEMMA TrackedOfFinalize ==
  ASSUME TrackInv, NEW r \in Request,
         FinalizeMembers(r) \/ FinalizePack(r) \/ FinalizeRelease(r)
  PROVE  Tracked(r)'
<1>0. TypeInv /\ Staged(r) /\ Tracked(r)
  BY DEF TrackInv, PlanInv, KeptInv, StageInv
<1>1. /\ status \in [Request -> PrepStatus]
      /\ member \in [Request -> [Session -> MemberState]]
      /\ pack[r] \in Seq(Pack) /\ \A o \in DOMAIN pack[r] : pack[r][o] \in Pack
  BY <1>0 DEF TypeInv, TypeOK
<1>2. /\ status[r] = "preparing"
      /\ \A o \in DOMAIN pack[r] : pack[r][o].status = "pending"
      /\ \A s \in Session : member[r][s] \in {"none", "pending"}
  BY <1>0 DEF FinalizeMembers, FinalizePack, FinalizeRelease, Building, Finalizing, AtHead, Preparing,
              Staged, Tracked
<1>3. \A o \in DOMAIN pack[r] : \A s \in pack[r][o].members : member[r][s] = "pending"
  BY <1>0, <1>2 DEF Tracked, StateIn
<1>4. \A p, s : p.status = "pending" => StateIn(p, s) = "pending"
  BY DEF StateIn
<1>5. CASE FinalizeMembers(r)
  <2>1. UNCHANGED <<status, pack>>
    BY <1>5 DEF FinalizeMembers, prepVars
  <2>2. member'[r] = [s \in Session |-> IF s \in MemberSlice(r) /\ member[r][s] = "none"
                                          THEN "pending" ELSE member[r][s]]
    BY <1>1, <1>5 DEF FinalizeMembers
  <2>3. \A s \in Session : /\ member'[r][s] \in {"none", "pending"}
                           /\ member[r][s] = "pending" => member'[r][s] = "pending"
    BY <1>2, <2>2
  <2>4. \A o \in DOMAIN pack[r] : pack[r][o].members \subseteq Session
    BY <1>1 DEF Pack
  <2>5. \A o \in DOMAIN pack'[r] : \A s \in pack'[r][o].members :
          member'[r][s] = "pending" /\ pack'[r][o].status = "pending"
    BY <1>2, <1>3, <2>1, <2>3, <2>4
  <2> QED
    BY <2>3, <2>5 DEF Tracked, StateIn
<1>6. CASE FinalizePack(r)
  <2>1. UNCHANGED <<status, member>> /\ PlannedMembers(r, Len(pack[r])) \subseteq Members(r)
    BY <1>6 DEF FinalizePack, prepVars
  <2> DEFINE n == Len(pack[r]) + 1
  <2>2. /\ DOMAIN pack'[r] = DOMAIN pack[r] \cup {n}
        /\ \A o \in DOMAIN pack[r] : pack'[r][o] = pack[r][o]
        /\ pack'[r][n] = InsertedPack(r, n)
    BY <1>0, <1>6, AppendedPack
  <2>3. InsertedPack(r, n).status = "pending" /\ InsertedPack(r, n).members = PlannedMembers(r, n - 1)
    BY DEF InsertedPack
  <2>4. n - 1 = Len(pack[r])
    BY <1>1
  <2>5. \A s \in Members(r) : member[r][s] = "pending"
    BY <1>2 DEF Members
  <2> HIDE DEF n
  <2>6. \A o \in DOMAIN pack'[r] : \A s \in pack'[r][o].members :
          member'[r][s] = "pending" /\ pack'[r][o].status = "pending"
    <3>1. \A s \in pack'[r][n].members : member'[r][s] = "pending"
      BY <2>1, <2>2, <2>3, <2>4, <2>5
    <3>2. pack'[r][n].status = "pending"
      BY <2>2, <2>3
    <3>3. \A o \in DOMAIN pack[r] : \A s \in pack'[r][o].members :
            member'[r][s] = "pending" /\ pack'[r][o].status = "pending"
      BY <1>2, <1>3, <2>1, <2>2
    <3> QED
      BY <2>2, <3>1, <3>2, <3>3
  <2> QED
    BY <1>2, <2>1, <2>6 DEF Tracked, StateIn
<1>7. CASE FinalizeRelease(r)
  <2>1. member' = member /\ status'[r] = "ready"
    BY <1>1, <1>7 DEF FinalizeRelease
  <2>2. /\ DOMAIN pack'[r] = DOMAIN pack[r]
        /\ \A o \in DOMAIN pack[r] : pack'[r][o] = Released(pack[r][o])
    BY <1>0, <1>7, ReleasedPacks
  <2>3. \A o \in DOMAIN pack[r] : pack'[r][o].status = "available"
                                   /\ pack'[r][o].members = pack[r][o].members
    BY <1>1, <1>2, <2>2 DEF Released, Pack
  <2> QED
    BY <1>3, <2>1, <2>2, <2>3 DEF Tracked, StateIn
<1> QED
  BY <1>5, <1>6, <1>7

(* What an agent does to one pack moves the rows of that pack alone.        *)
LEMMA TrackedOfPackSteps ==
  ASSUME TrackInv, NEW r \in Request,
         ClaimPack(r) \/ \E o \in DOMAIN pack[r] : SaveDraft(r, o) \/ FinishPack(r, o)
  PROVE  Tracked(r)'
<1>0. TypeInv /\ Staged(r) /\ Tracked(r) /\ PlanInv
  BY DEF TrackInv, PlanInv, KeptInv, StageInv
<1>1. /\ member \in [Request -> [Session -> MemberState]]
      /\ pack[r] \in Seq(Pack)
      /\ \A o \in DOMAIN pack[r] : pack[r][o] \in Pack /\ pack[r][o].members \subseteq Session
  <2>1. \A p \in Pack : p.members \subseteq Session
    BY DEF Pack
  <2> QED
    BY <1>0, <2>1 DEF TypeInv, TypeOK
<1>2. status'[r] = "ready"
  <2>1. status' = status
    BY DEF ClaimPack, SaveDraft, FinishPack, prepVars
  <2>2. status[r] = "ready"
    BY <1>0 DEF ClaimPack, SaveDraft, Saveable, FinishPack, CanFinish, Staged
  <2> QED
    BY <2>1, <2>2
<1> DEFINE TracksIn(o) == \A s \in pack'[r][o].members : member'[r][s] = StateIn(pack'[r][o], s)
<1>3. SUFFICES DOMAIN pack'[r] = DOMAIN pack[r] /\ \A q \in DOMAIN pack[r] : TracksIn(q)
  <2>1. ASSUME DOMAIN pack'[r] = DOMAIN pack[r], \A q \in DOMAIN pack[r] : TracksIn(q)
        PROVE  Tracked(r)'
    BY <1>2, <2>1 DEF Tracked, StateIn, MemberStateFor
  <2> QED
    BY <2>1
<1>4. ASSUME NEW o \in DOMAIN pack[r], NEW q \in DOMAIN pack[r] \ {o}, NEW s \in pack[r][q].members
      PROVE  s \notin pack[r][o].members /\ s \in Session /\ member[r][s] = StateIn(pack[r][q], s)
  <2>1. s \notin pack[r][o].members
    BY <1>0, PacksDisjoint
  <2> QED
    BY <1>0, <1>1, <2>1 DEF Tracked
<1>5. CASE ClaimPack(r)
  <2>1. PICK o \in DOMAIN pack[r] :
           /\ pack[r][o].status = "available"
           /\ DOMAIN pack'[r] = DOMAIN pack[r] /\ Len(pack'[r]) = Len(pack[r])
           /\ pack'[r][o] = [pack[r][o] EXCEPT !.status = "active"]
           /\ \A q \in DOMAIN pack[r] \ {o} : pack'[r][q] = pack[r][q]
           /\ member'[r] = PackAssigned(r, o)
    BY <1>0, <1>5, ClaimedPack
  <2>2. TracksIn(o)
    <3> SUFFICES ASSUME NEW s \in pack'[r][o].members
                 PROVE  member'[r][s] = StateIn(pack'[r][o], s)
      OBVIOUS
    <3>1. /\ s \in pack[r][o].members /\ StateIn(pack'[r][o], s) = "assigned"
          /\ StateIn(pack[r][o], s) = "pending"
      <4> DEFINE p == pack[r][o]
                 q == pack'[r][o]
      <4>1. /\ p \in Pack /\ p.status = "available" /\ q = [p EXCEPT !.status = "active"]
            /\ s \in q.members
        BY <1>1, <2>1
      <4> HIDE DEF p, q
      <4>2. s \in p.members /\ StateIn(q, s) = "assigned" /\ StateIn(p, s) = "pending"
        BY <4>1, StateOfClaimed
      <4> QED
        BY <4>2 DEF p, q
    <3>2. member[r][s] = "pending" /\ s \in Session
      BY <1>0, <1>1, <3>1 DEF Tracked
    <3> QED
      BY <2>1, <3>1, <3>2 DEF PackAssigned
  <2>3. \A q \in DOMAIN pack[r] \ {o} : TracksIn(q)
    BY <1>4, <2>1 DEF PackAssigned
  <2> QED
    BY <2>1, <2>2, <2>3
<1>6. ASSUME NEW o \in DOMAIN pack[r], SaveDraft(r, o)
      PROVE  DOMAIN pack'[r] = DOMAIN pack[r] /\ \A q \in DOMAIN pack[r] : TracksIn(q)
  <2>1. PICK d \in Draft :
           /\ Saveable(pack[r][o])
           /\ DOMAIN pack'[r] = DOMAIN pack[r] /\ Len(pack'[r]) = Len(pack[r])
           /\ pack'[r][o] = [pack[r][o] EXCEPT !.draft = d, !.status = "saved"]
           /\ \A q \in DOMAIN pack[r] \ {o} : pack'[r][q] = pack[r][q]
    BY <1>0, <1>6, SavedPack
  <2>2. member' = member
    BY <1>6 DEF SaveDraft
  <2>3. TracksIn(o)
    <3> SUFFICES ASSUME NEW s \in pack'[r][o].members
                 PROVE  member'[r][s] = StateIn(pack'[r][o], s)
      OBVIOUS
    <3>1. s \in pack[r][o].members /\ StateIn(pack'[r][o], s) = StateIn(pack[r][o], s)
      <4> DEFINE p == pack[r][o]
                 q == pack'[r][o]
      <4>1. /\ p \in Pack /\ Saveable(p) /\ q = [p EXCEPT !.draft = d, !.status = "saved"]
            /\ s \in q.members
        BY <1>1, <2>1
      <4> HIDE DEF p, q
      <4>2. q.status = "saved" /\ q.members = p.members
        BY <4>1 DEF Pack
      <4>3. s \in p.members /\ StateIn(q, s) = StateIn(p, s)
        BY <4>1, <4>2, StateOfSaved
      <4> QED
        BY <4>3 DEF p, q
    <3> QED
      BY <1>0, <2>2, <3>1 DEF Tracked
  <2>4. \A q \in DOMAIN pack[r] \ {o} : TracksIn(q)
    BY <1>4, <2>1, <2>2
  <2> QED
    BY <2>1, <2>3, <2>4
<1>7. ASSUME NEW o \in DOMAIN pack[r], FinishPack(r, o)
      PROVE  DOMAIN pack'[r] = DOMAIN pack[r] /\ \A q \in DOMAIN pack[r] : TracksIn(q)
  <2>1. /\ pack[r][o].status = "saved"
        /\ DOMAIN pack'[r] = DOMAIN pack[r]
        /\ pack'[r][o] = [pack[r][o] EXCEPT !.status = "completed",
                                            !.receipt = pack[r][o].draft]
        /\ \A q \in DOMAIN pack[r] \ {o} : pack'[r][q] = Released(pack[r][q])
        /\ member'[r] = [s \in Session |->
             IF s \in pack[r][o].members /\ member[r][s] = "assigned"
               THEN MemberStateFor(pack[r][o].draft.verdict[s]) ELSE member[r][s]]
    BY <1>0, <1>7, FinishedPack
  <2>2. TracksIn(o)
    <3> SUFFICES ASSUME NEW s \in pack'[r][o].members
                 PROVE  member'[r][s] = StateIn(pack'[r][o], s)
      OBVIOUS
    <3>1. /\ s \in pack[r][o].members /\ StateIn(pack[r][o], s) = "assigned"
          /\ StateIn(pack'[r][o], s) = MemberStateFor(pack[r][o].draft.verdict[s])
      <4> DEFINE p == pack[r][o]
                 q == pack'[r][o]
      <4>1. /\ p \in Pack /\ p.status = "saved" /\ s \in q.members
            /\ q = [p EXCEPT !.status = "completed", !.receipt = p.draft]
        BY <1>1, <2>1
      <4> HIDE DEF p, q
      <4>2. /\ s \in p.members /\ StateIn(p, s) = "assigned"
            /\ StateIn(q, s) = MemberStateFor(p.draft.verdict[s])
        BY <4>1, StateOfFinished
      <4> QED
        BY <4>2 DEF p, q
    <3>2. member[r][s] = "assigned" /\ s \in Session
      BY <1>0, <1>1, <3>1 DEF Tracked
    <3> QED
      BY <2>1, <3>1, <3>2
  <2>3. ASSUME NEW q \in DOMAIN pack[r] \ {o}, NEW s \in pack'[r][q].members
        PROVE  member'[r][s] = StateIn(pack'[r][q], s)
    <3>1. s \in pack[r][q].members /\ StateIn(pack'[r][q], s) = StateIn(pack[r][q], s)
      <4> DEFINE p == pack[r][q]
      <4>1. p \in Pack /\ pack'[r][q] = Released(p)
        BY <1>1, <2>1
      <4> HIDE DEF p
      <4>2. StateIn(Released(p), s) = StateIn(p, s) /\ Released(p).members = p.members
        BY <4>1, StateOfReleased
      <4> QED
        BY <4>1, <4>2 DEF p
    <3> QED
      BY <1>4, <2>1, <3>1
  <2> QED
    BY <2>1, <2>2, <2>3
<1> QED
  BY <1>5, <1>6, <1>7

(* A deleted session leaves the packs; the rows of the others stay.         *)
LEMMA TrackedOfDelete ==
  ASSUME TrackInv, NEW t \in Session, DeleteSession(t), NEW r \in Request
  PROVE  Tracked(r)'
<1>0. TypeInv /\ Tracked(r)
  BY DEF TrackInv, PlanInv, KeptInv, StageInv
<1>1. /\ member \in [Request -> [Session -> MemberState]]
      /\ \A o \in DOMAIN pack[r] : pack[r][o] \in Pack
  BY <1>0 DEF TypeInv, TypeOK
<1>2. /\ DOMAIN pack'[r] = DOMAIN pack[r]
      /\ \A o \in DOMAIN pack[r] : pack'[r][o] = MembershipDeleted(pack[r][o], t)
      /\ member'[r] = [member[r] EXCEPT ![t] = "none"]
  BY <1>0, DeletedMemberships
<1>3. ASSUME NEW o \in DOMAIN pack[r], NEW s \in pack'[r][o].members
      PROVE  member'[r][s] = StateIn(pack'[r][o], s)
  <2>1. /\ s \in pack[r][o].members /\ s # t
        /\ StateIn(pack'[r][o], s) = StateIn(pack[r][o], s)
    <3> DEFINE p == pack[r][o]
    <3>1. p \in Pack /\ pack'[r][o] = MembershipDeleted(p, t)
      BY <1>1, <1>2
    <3> HIDE DEF p
    <3>2. /\ StateIn(MembershipDeleted(p, t), s) = StateIn(p, s)
          /\ MembershipDeleted(p, t).members = p.members \ {t}
      BY <3>1, StateOfDeleted
    <3> QED
      BY <3>1, <3>2 DEF p
  <2> QED
    BY <1>0, <1>1, <1>2, <2>1 DEF Tracked
<1>4. status' = status
  BY DEF DeleteSession, prepVars
<1>5. status'[r] # "ready" => \A s \in Session : member'[r][s] \in {"none", "pending"}
  BY <1>0, <1>1, <1>2, <1>4 DEF Tracked
<1> QED
  BY <1>2, <1>3, <1>5 DEF Tracked, StateIn, MemberStateFor

(* Every step keeps the member rows in step with the packs.                 *)
LEMMA TracksKept ==
  ASSUME TrackInv, [Next]_vars PROVE TrackInv'
<1>0. TypeInv /\ PlanInv'
  BY PlanKept DEF TrackInv, PlanInv, KeptInv, StageInv
<1>1. ASSUME NEW r \in Request, RequestStep(r), NEW q \in Request PROVE Tracked(q)'
  <2>1. CASE q # r
    BY <1>0, <1>1, <2>1, OtherRows, TrackedFrame DEF TrackInv
  <2>2. CASE q = r
    <3>1. CASE Create(r) \/ FinalizeNoEligible(r) \/ StepFails(r) \/ Retry(r)
               \/ PrepareBatch(r) \/ FinalizeShell(r)
      <4>1. UNCHANGED <<member, pack>> /\ status[r] # "ready"
        BY <3>1 DEF Create, FinalizeNoEligible, StepFails, Retry, PrepareBatch, FinalizeShell,
                    Building, Finalizing, AtHead, Preparing, requestVars
      <4> QED
        BY <2>2, <4>1, TrackedFrame DEF TrackInv
    <3> QED
      BY <1>1, <2>2, <3>1, TrackedOfFinalize, TrackedOfPackSteps DEF RequestStep, PreparationStep
  <2> QED
    BY <2>1, <2>2
<1>2. ASSUME NEW s \in Session, SessionStep(s), NEW q \in Request PROVE Tracked(q)'
  <2>1. CASE UserExcludes(s) \/ UserAccepts(s) \/ TranscriptImported(s)
    <3>1. UNCHANGED <<status, member, pack>>
      BY <2>1 DEF UserExcludes, UserAccepts, TranscriptImported, prepVars, requestVars
    <3> QED
      BY <3>1, TrackedFrame DEF TrackInv
  <2> QED
    BY <1>2, <2>1, TrackedOfDelete DEF SessionStep
<1>3. ASSUME Crash \/ Restart \/ UNCHANGED vars, NEW q \in Request PROVE Tracked(q)'
  <2>1. UNCHANGED <<status, member, pack>>
    BY <1>3 DEF Crash, Restart, vars, prepVars, requestVars
  <2> QED
    BY <2>1, TrackedFrame DEF TrackInv
<1> QED
  BY <1>0, <1>1, <1>2, <1>3 DEF Next, TrackInv

(* Nothing is assigned at first.                                            *)
LEMMA InitTrackInv == Init => TrackInv
<1> SUFFICES ASSUME Init PROVE TrackInv
  OBVIOUS
<1>1. \A r \in Request : Tracked(r)
  BY DEF Init, Tracked
<1> QED
  BY <1>1, InitPlanInv DEF TrackInv

(* A request is complete when every pack of it is, and then its receipt     *)
(* carries theirs; a preparation that is ready has a pack.                  *)
Completed(r) ==
  /\ status[r] = "ready" => pack[r] # <<>>
  /\ reqStatus[r] = "completed" <=>
       status[r] = "ready" /\ \A o \in DOMAIN pack[r] : pack[r][o].status = "completed"
  /\ reqStatus[r] # "completed" => receipt[r] = <<>>
  /\ reqStatus[r] = "completed" =>
       /\ Len(receipt[r]) = Len(pack[r])
       /\ Range(receipt[r]) =
            {[pack |-> o, receipt |-> pack[r][o].receipt] : o \in DOMAIN pack[r]}

AccountInv == TrackInv /\ \A r \in Request : Completed(r)

(* The receipt of the request lists every pack once: the packs before the   *)
(* last to finish, those behind it, and that one.                           *)
LEMMA ReceiptOfAll ==
  ASSUME TypeInv, NEW r \in Request, NEW o \in DOMAIN pack[r]
  PROVE  /\ Len(RequestReceipt(r, o)) = Len(pack[r])
         /\ Range(RequestReceipt(r, o)) =
              {[pack |-> q, receipt |-> IF q = o THEN pack[r][o].draft ELSE pack[r][q].receipt]
                 : q \in DOMAIN pack[r]}
<1> DEFINE L == Len(pack[r])
           at(k) == IF k = L THEN o ELSE IF k < o THEN k ELSE k + 1
           line(q) == [pack |-> q,
                       receipt |-> IF q = o THEN pack[r][o].draft ELSE pack[r][q].receipt]
<1>1. L \in Nat /\ DOMAIN pack[r] = 1 .. L /\ o \in 1 .. L
  BY DEF TypeInv, TypeOK
<1>2. RequestReceipt(r, o) = [k \in 1 .. L |-> line(at(k))]
  BY <1>1 DEF RequestReceipt
<1>3. \A k \in 1 .. L : at(k) \in 1 .. L
  BY <1>1
<1>4. ASSUME NEW q \in 1 .. L PROVE \E k \in 1 .. L : at(k) = q
  <2>1. CASE q = o
    BY <1>1, <2>1
  <2>2. CASE q < o
    BY <1>1, <2>2
  <2>3. CASE q > o
    <3>1. q - 1 \in 1 .. L /\ at(q - 1) = q
      BY <1>1, <2>3
    <3> QED
      BY <3>1
  <2> QED
    BY <1>1, <2>1, <2>2, <2>3
<1> HIDE DEF L, at, line
<1> DEFINE RR == RequestReceipt(r, o)
<1>5. RR \in Seq({line(q) : q \in 1 .. L}) /\ Len(RR) = L /\ DOMAIN RR = 1 .. L
  <2> HIDE DEF RR
  <2>1. RR \in [1 .. L -> {line(q) : q \in 1 .. L}]
    BY <1>2, <1>3 DEF RR
  <2> QED
    BY <1>1, <2>1, IntervalFunction
<1>6. Range(RR) = {line(q) : q \in 1 .. L}
  BY <1>2, <1>3, <1>4, <1>5 DEF Range
<1> QED
  BY <1>1, <1>5, <1>6 DEF L, line

(* Rows that stay keep the account.                                         *)
LEMMA CompletedFrame ==
  ASSUME NEW r \in Request, Completed(r), status'[r] = status[r], reqStatus'[r] = reqStatus[r],
         pack'[r] = pack[r], receipt'[r] = receipt[r]
  PROVE  Completed(r)'
  BY DEF Completed, Range

(* A preparation that is not ready has no complete request.                 *)
LEMMA CompletedBeforeReady ==
  ASSUME NEW r \in Request, Completed(r), status[r] # "ready", status'[r] # "ready",
         reqStatus'[r] = reqStatus[r] \/ reqStatus'[r] = "open", receipt' = receipt
  PROVE  Completed(r)'
  BY DEF Completed

(* The release makes available what is not complete.                        *)
LEMMA CompletedOfRelease ==
  ASSUME AccountInv, NEW r \in Request, FinalizeRelease(r)
  PROVE  Completed(r)'
<1>0. TypeInv /\ Staged(r) /\ Completed(r)
  BY DEF AccountInv, TrackInv, PlanInv, KeptInv, StageInv
<1>1. /\ status \in [Request -> PrepStatus] /\ pack[r] \in Seq(Pack)
      /\ \A o \in DOMAIN pack[r] : pack[r][o] \in Pack
  BY <1>0 DEF TypeInv, TypeOK
<1>2. /\ status[r] = "preparing" /\ status'[r] = "ready" /\ UNCHANGED <<reqStatus, receipt>>
      /\ EligibleCount(r) > 0 /\ Len(pack[r]) >= PackCount(EligibleCount(r))
  BY <1>1 DEF FinalizeRelease, Building, Finalizing, AtHead, Preparing
<1>3. PackCount(EligibleCount(r)) > 0
  <2>1. EligibleCount(r) \in Nat /\ MaximumPackSize \in Nat \ {0}
    BY <1>0, PackCountIsNatural, PackSizeAssumption
  <2>2. \A a, m \in Nat : a > 0 /\ m > 0 => (a + m - 1) \div m > 0
    BY SMT
  <2> QED
    BY <1>2, <2>1, <2>2 DEF PackCount
<1>4. PackCount(EligibleCount(r)) \in Nat
  BY <1>0, PackCountIsNatural
<1>5. Len(pack[r]) > 0 /\ 1 \in DOMAIN pack[r]
  BY <1>1, <1>2, <1>3, <1>4
<1>6. /\ DOMAIN pack'[r] = DOMAIN pack[r]
      /\ \A o \in DOMAIN pack[r] : pack'[r][o] = Released(pack[r][o])
  BY <1>0, ReleasedPacks
<1>7. pack'[r][1].status = "available"
  <2>1. pack[r][1].status = "pending" /\ pack[r][1] \in Pack
    BY <1>0, <1>1, <1>2, <1>5 DEF Staged
  <2> QED
    BY <1>5, <1>6, <2>1 DEF Released, Pack
<1>8. pack'[r] # <<>>
  <2>1. DOMAIN <<>> = {}
    OBVIOUS
  <2> QED
    BY <1>5, <1>6, <2>1
<1>9. reqStatus[r] # "completed" /\ receipt[r] = <<>>
  BY <1>0, <1>2 DEF Completed
<1> QED
  BY <1>2, <1>5, <1>6, <1>7, <1>8, <1>9 DEF Completed

(* A claim or a save is of a pack that is not complete.                     *)
LEMMA CompletedOfWork ==
  ASSUME AccountInv, NEW r \in Request,
         ClaimPack(r) \/ \E o \in DOMAIN pack[r] : SaveDraft(r, o)
  PROVE  Completed(r)'
<1>0. TypeInv /\ Staged(r) /\ Completed(r)
  BY DEF AccountInv, TrackInv, PlanInv, KeptInv, StageInv
<1>1. /\ reqStatus \in [Request -> {"none", "open", "active", "completed"}]
      /\ \A o \in DOMAIN pack[r] : pack[r][o] \in Pack
  BY <1>0 DEF TypeInv, TypeOK
<1>2. UNCHANGED <<status, receipt>>
  BY DEF ClaimPack, SaveDraft, prepVars
<1>3. ASSUME NEW o \in DOMAIN pack[r], pack[r][o].status # "completed",
             DOMAIN pack'[r] = DOMAIN pack[r], pack'[r][o].status # "completed",
             reqStatus[r] # "completed" => reqStatus'[r] # "completed"
      PROVE  Completed(r)'
  <2>1. reqStatus[r] # "completed" /\ receipt[r] = <<>>
    BY <1>0, <1>3 DEF Completed
  <2>2. pack'[r] # <<>>
    <3>1. DOMAIN <<>> = {}
      OBVIOUS
    <3> QED
      BY <1>3, <3>1
  <2> QED
    BY <1>2, <1>3, <2>1, <2>2 DEF Completed
<1>4. CASE ClaimPack(r)
  <2>1. PICK o \in DOMAIN pack[r] :
           /\ pack[r][o].status = "available"
           /\ DOMAIN pack'[r] = DOMAIN pack[r] /\ Len(pack'[r]) = Len(pack[r])
           /\ pack'[r][o] = [pack[r][o] EXCEPT !.status = "active"]
           /\ \A q \in DOMAIN pack[r] \ {o} : pack'[r][q] = pack[r][q]
           /\ member'[r] = PackAssigned(r, o)
    BY <1>0, <1>4, ClaimedPack
  <2>2. pack'[r][o].status = "active"
    BY <1>1, <2>1 DEF Pack
  <2>3. reqStatus[r] # "completed" => reqStatus'[r] # "completed"
    BY <1>1, <1>4 DEF ClaimPack
  <2> QED
    BY <1>3, <2>1, <2>2, <2>3
<1>5. ASSUME NEW o \in DOMAIN pack[r], SaveDraft(r, o) PROVE Completed(r)'
  <2>1. PICK d \in Draft :
           /\ Saveable(pack[r][o])
           /\ DOMAIN pack'[r] = DOMAIN pack[r] /\ Len(pack'[r]) = Len(pack[r])
           /\ pack'[r][o] = [pack[r][o] EXCEPT !.draft = d, !.status = "saved"]
           /\ \A q \in DOMAIN pack[r] \ {o} : pack'[r][q] = pack[r][q]
    BY <1>0, <1>5, SavedPack
  <2>2. pack'[r][o].status = "saved" /\ pack[r][o].status # "completed"
    BY <1>1, <2>1 DEF Pack, Saveable
  <2>3. reqStatus' = reqStatus
    BY <1>5 DEF SaveDraft
  <2> QED
    BY <1>3, <2>1, <2>2, <2>3
<1> QED
  BY <1>4, <1>5

(* The finish of the last pack completes the request; any other leaves a    *)
(* pack to complete.                                                        *)
LEMMA CompletedOfFinish ==
  ASSUME AccountInv, NEW r \in Request, NEW o \in DOMAIN pack[r], FinishPack(r, o)
  PROVE  Completed(r)'
<1>0. TypeInv /\ Staged(r) /\ Completed(r)
  BY DEF AccountInv, TrackInv, PlanInv, KeptInv, StageInv
<1>1. /\ reqStatus[r] \in {"none", "open", "active", "completed"}
      /\ reqStatus'[r] = IF LastPack(r, o) THEN "completed" ELSE "active"
      /\ receipt' = IF LastPack(r, o) THEN [receipt EXCEPT ![r] = RequestReceipt(r, o)] ELSE receipt
      /\ DOMAIN receipt = Request
      /\ \A q \in DOMAIN pack[r] : pack[r][q] \in Pack
  <2>1. reqStatus \in [Request -> {"none", "open", "active", "completed"}]
    BY <1>0 DEF TypeInv, TypeOK
  <2>2. DOMAIN receipt = Request
    BY <1>0 DEF TypeInv, TypeOK
  <2>3. pack[r] \in Seq(Pack)
    BY <1>0 DEF TypeInv, TypeOK
  <2> QED
    BY <2>1, <2>2, <2>3 DEF FinishPack
<1>2. /\ pack[r][o].status = "saved"
      /\ DOMAIN pack'[r] = DOMAIN pack[r] /\ Len(pack'[r]) = Len(pack[r])
      /\ pack'[r][o] = [pack[r][o] EXCEPT !.status = "completed",
                                          !.receipt = pack[r][o].draft]
      /\ \A q \in DOMAIN pack[r] \ {o} : pack'[r][q] = Released(pack[r][q])
  BY <1>0, FinishedPack
<1>3. status[r] = "ready" /\ status'[r] = "ready"
  BY <1>0, <1>2 DEF FinishPack, prepVars, Staged
<1>4. reqStatus[r] # "completed" /\ receipt[r] = <<>>
  BY <1>0, <1>2 DEF Completed
<1>5. pack'[r] # <<>>
  <2>1. DOMAIN <<>> = {}
    OBVIOUS
  <2> QED
    BY <1>2, <2>1
<1>6. pack'[r][o].status = "completed" /\ pack'[r][o].receipt = pack[r][o].draft
  BY <1>1, <1>2 DEF Pack
<1>7. \A q \in DOMAIN pack[r] \ {o} :
        /\ pack'[r][q].status = "completed" <=> pack[r][q].status = "completed"
        /\ pack'[r][q].receipt = pack[r][q].receipt
  <2>1. \A p \in Pack : /\ Released(p).status = "completed" <=> p.status = "completed"
                        /\ Released(p).receipt = p.receipt
    BY DEF Released, Pack
  <2> QED
    BY <1>1, <1>2, <2>1
<1>8. (\A q \in DOMAIN pack'[r] : pack'[r][q].status = "completed") <=> LastPack(r, o)
  BY <1>2, <1>6, <1>7 DEF LastPack
<1>9. CASE LastPack(r, o)
  <2>1. reqStatus'[r] = "completed" /\ receipt'[r] = RequestReceipt(r, o)
    BY <1>1, <1>9
  <2>2. /\ Len(receipt'[r]) = Len(pack[r])
        /\ Range(receipt'[r]) =
              {[pack |-> q, receipt |-> IF q = o THEN pack[r][o].draft ELSE pack[r][q].receipt]
                 : q \in DOMAIN pack[r]}
    BY <1>0, <2>1, ReceiptOfAll
  <2>3. \A q \in DOMAIN pack[r] :
          pack'[r][q].receipt = IF q = o THEN pack[r][o].draft ELSE pack[r][q].receipt
    BY <1>6, <1>7
  <2>4. Range(receipt'[r]) =
              {[pack |-> q, receipt |-> pack'[r][q].receipt] : q \in DOMAIN pack'[r]}
    BY <1>2, <2>2, <2>3
  <2>5. Range(receipt[r])' = Range(receipt'[r])
    BY DEF Range
  <2> QED
    BY <1>2, <1>3, <1>5, <1>8, <1>9, <2>1, <2>2, <2>4, <2>5 DEF Completed
<1>10. CASE ~LastPack(r, o)
  <2>1. reqStatus'[r] = "active" /\ receipt' = receipt
    BY <1>1, <1>10
  <2> QED
    BY <1>3, <1>4, <1>5, <1>8, <1>10, <2>1 DEF Completed
<1> QED
  BY <1>9, <1>10

(* A deletion changes no status and no receipt.                             *)
LEMMA CompletedOfDelete ==
  ASSUME AccountInv, NEW s \in Session, DeleteSession(s), NEW r \in Request
  PROVE  Completed(r)'
<1>0. TypeInv /\ Completed(r)
  BY DEF AccountInv, TrackInv, PlanInv, KeptInv, StageInv
<1>1. pack[r] \in Seq(Pack) /\ \A o \in DOMAIN pack[r] : pack[r][o] \in Pack
  BY <1>0 DEF TypeInv, TypeOK
<1>2. UNCHANGED <<status, reqStatus, receipt>>
  BY DEF DeleteSession, prepVars
<1>3. /\ DOMAIN pack'[r] = DOMAIN pack[r] /\ Len(pack'[r]) = Len(pack[r])
      /\ \A o \in DOMAIN pack[r] : pack'[r][o] = MembershipDeleted(pack[r][o], s)
  BY <1>0, DeletedMemberships
<1>4. \A o \in DOMAIN pack[r] : /\ pack'[r][o].status = pack[r][o].status
                                /\ pack'[r][o].receipt = pack[r][o].receipt
  <2>1. \A p \in Pack : /\ MembershipDeleted(p, s).status = p.status
                        /\ MembershipDeleted(p, s).receipt = p.receipt
    BY DEF MembershipDeleted, Pack
  <2> QED
    BY <1>1, <1>3, <2>1
<1>5. pack[r] # <<>> => pack'[r] # <<>>
  <2>1. pack[r] # <<>> => DOMAIN pack[r] # {}
    BY <1>1
  <2>2. DOMAIN <<>> = {}
    OBVIOUS
  <2> QED
    BY <1>3, <2>1, <2>2
<1>6. {[pack |-> o, receipt |-> pack'[r][o].receipt] : o \in DOMAIN pack'[r]}
        = {[pack |-> o, receipt |-> pack[r][o].receipt] : o \in DOMAIN pack[r]}
  BY <1>3, <1>4
<1>7. Range(receipt[r])' = Range(receipt[r])
  BY <1>2 DEF Range
<1> QED
  BY <1>0, <1>2, <1>3, <1>4, <1>5, <1>6, <1>7 DEF Completed

(* Every step keeps the accounts.                                           *)
LEMMA AccountsKept ==
  ASSUME AccountInv, [Next]_vars PROVE AccountInv'
<1>0. TypeInv /\ TrackInv'
  BY TracksKept DEF AccountInv, TrackInv, PlanInv, KeptInv, StageInv
<1>1. ASSUME NEW r \in Request, RequestStep(r), NEW q \in Request PROVE Completed(q)'
  <2>1. CASE q # r
    BY <1>0, <1>1, <2>1, OtherRows, CompletedFrame DEF AccountInv
  <2>2. CASE q = r
    <3>1. CASE Create(r) \/ FinalizeNoEligible(r) \/ StepFails(r) \/ Retry(r)
               \/ PrepareBatch(r) \/ FinalizeShell(r) \/ FinalizeMembers(r) \/ FinalizePack(r)
      <4>1. /\ status[r] # "ready" /\ receipt' = receipt
            /\ reqStatus'[r] = reqStatus[r] \/ reqStatus'[r] = "open"
        BY <1>0, <3>1
        DEF Create, FinalizeNoEligible, StepFails, Retry, PrepareBatch, FinalizeShell,
            FinalizeMembers, FinalizePack, Building, Finalizing, AtHead, Preparing, requestVars,
            TypeInv, TypeOK
      <4>2. status'[r] # "ready"
        BY <1>0, <3>1, <4>1
        DEF Create, FinalizeNoEligible, StepFails, Retry, PrepareBatch, FinalizeShell,
            FinalizeMembers, FinalizePack, prepVars, TypeInv, TypeOK
      <4> QED
        BY <2>2, <4>1, <4>2, CompletedBeforeReady DEF AccountInv
    <3> QED
      BY <1>1, <2>2, <3>1, CompletedOfRelease, CompletedOfWork, CompletedOfFinish
      DEF RequestStep, PreparationStep
  <2> QED
    BY <2>1, <2>2
<1>2. ASSUME UNCHANGED <<status, reqStatus, pack, receipt>>, NEW q \in Request
      PROVE  Completed(q)'
  BY <1>2, CompletedFrame DEF AccountInv
<1>3. ASSUME NEW s \in Session, SessionStep(s), NEW q \in Request PROVE Completed(q)'
  <2>1. CASE UserExcludes(s) \/ UserAccepts(s) \/ TranscriptImported(s)
    BY <1>2, <2>1 DEF UserExcludes, UserAccepts, TranscriptImported, prepVars, requestVars
  <2> QED
    BY <1>3, <2>1, CompletedOfDelete DEF SessionStep
<1>4. ASSUME Crash \/ Restart \/ UNCHANGED vars, NEW q \in Request PROVE Completed(q)'
  BY <1>2, <1>4 DEF Crash, Restart, vars, prepVars, requestVars
<1> QED
  BY <1>0, <1>1, <1>3, <1>4 DEF Next, AccountInv

(* At first nothing is ready and nothing complete.                         *)
LEMMA InitAccountInv == Init => AccountInv
<1>1. Init => \A r \in Request : Completed(r)
  BY DEF Init, Completed
<1> QED
  BY <1>1, InitTrackInv DEF AccountInv

(* What the members, the packs and the request say of the work is one       *)
(* account of it: a member row has the state of its pack, a request is      *)
(* complete exactly when every pack is, and its receipt then carries the    *)
(* receipt of every pack - however the agents interleave their claims,      *)
(* saves and finishes with deletions, failures and crashes.                 *)
THEOREM AccountsAlwaysAgree == Spec => []AccountsAgree
<1>1. Init => AccountInv
  BY InitAccountInv
<1>2. AccountInv /\ [Next]_vars => AccountInv'
  BY AccountsKept
<1>3. AccountInv => AccountsAgree
  <2>1. AccountInv => MembersTrackPacks
    BY DEF AccountInv, TrackInv, Tracked, StateIn, MembersTrackPacks
  <2>2. AccountInv => CompletionIsExact
    BY DEF AccountInv, Completed, CompletionIsExact
  <2> QED
    BY <2>1, <2>2 DEF AccountsAgree
<1> QED
  BY <1>1, <1>2, <1>3, PTL DEF Spec

-----------------------------------------------------------------------------
(* What the caller sees                                                     *)

(* Where the ranks of a pack lie: every pack holds a rank, and the last     *)
(* pack ends with the last session.                                         *)
LEMMA PackRanksWithin ==
  ASSUME NEW n \in Nat \ {0}, NEW a \in 0 .. (PackCount(n) - 1)
  PROVE  /\ PackOffset(n, a) \in Nat /\ PackSize(n, a) \in Nat \ {0}
         /\ PackOffset(n, a) + PackSize(n, a) <= n
<1> DEFINE c == PackCount(n)
           B == BaseSize(n)
           R == Remainder(n)
<1>1. /\ c \in Nat \ {0} /\ (c - 1) * MaximumPackSize < n /\ MaximumPackSize \in Nat \ {0}
      /\ B \in Nat /\ R \in 0 .. (c - 1) /\ n = c * B + R
  BY PackCountBounds, Division, PackSizeAssumption
<1>2. a \in Nat /\ a + 1 \in 0 .. c
  BY <1>1
<1>3. /\ PackOffset(n, a) \in Nat /\ PackSize(n, a) \in B .. (B + 1)
      /\ PackOffset(n, a + 1) = PackOffset(n, a) + PackSize(n, a)
      /\ PackOffset(n, a + 1) <= n
  BY <1>2, PackSizeType, OffsetRecurrence, OffsetBounded
<1> HIDE DEF c, B, R
<1>4. c <= n
  <2>1. c - 1 <= (c - 1) * MaximumPackSize
    BY <1>1
  <2> QED
    BY <1>1, <2>1
<1>5. B # 0
  BY <1>1, <1>4
<1> QED
  BY <1>1, <1>3, <1>5

(* Every rank below their number is the rank of exactly one eligible        *)
(* ordinal.                                                                 *)
LEMMA RanksOfOrdinals ==
  ASSUME TypeInv, NEW r \in Request
  PROVE  /\ \A k \in EligibleOrdinals(r) : Rank(r, k) \in Nat
         /\ \A k, l \in EligibleOrdinals(r) : Rank(r, k) = Rank(r, l) => k = l
         /\ \A x \in 0 .. (EligibleCount(r) - 1) : \E k \in EligibleOrdinals(r) : Rank(r, k) = x
<1> DEFINE E == EligibleOrdinals(r)
<1>1. IsFiniteSet(E) /\ E \in SUBSET Nat /\ EligibleCount(r) = Cardinality(E)
      /\ EligibleCount(r) \in Nat
  <2>1. outcome[r] \in Seq({"eligible", "excluded"})
    BY DEF TypeInv, TypeOK
  <2>2. E \in SUBSET Nat
    BY <2>1 DEF EligibleOrdinals
  <2> QED
    BY <2>2, EligibleOrdinalsFinite DEF EligibleCount
<1>2. ASSUME NEW k \in E PROVE Rank(r, k) \in Nat /\ PositionsUpTo(E, k) = Rank(r, k) + 1
  <2> DEFINE U == {j \in E : j < k}
  <2>1. IsFiniteSet(U) /\ k \notin U /\ k \in Nat
    BY <1>1, FS_Subset
  <2>2. {j \in E : j <= k} = U \cup {k}
    BY <1>1, <2>1
  <2>3. Cardinality(U \cup {k}) = Cardinality(U) + 1 /\ Cardinality(U) \in Nat
    BY <2>1, FS_AddElement, FS_CardinalityType
  <2> QED
    BY <2>2, <2>3 DEF PositionsUpTo, Rank
<1> HIDE DEF E
<1>3. ASSUME NEW k \in E, NEW l \in E, Rank(r, k) = Rank(r, l) PROVE k = l
  <2>1. PositionsUpTo(E, k) = PositionsUpTo(E, l) /\ PositionsUpTo(E, k) \in Nat
    BY <1>2, <1>3
  <2>2. ~(k < l) /\ ~(l < k)
    BY <1>1, <2>1, CountGrows
  <2> QED
    BY <1>1, <2>2
<1>4. ASSUME NEW x \in 0 .. (EligibleCount(r) - 1) PROVE \E k \in E : Rank(r, k) = x
  <2>1. x + 1 \in 1 .. Cardinality(E) /\ x \in Nat
    BY <1>1
  <2>2. PICK k \in E : PositionsUpTo(E, k) = x + 1
    BY <1>1, <2>1, KthPositions
  <2>3. Rank(r, k) \in Nat /\ PositionsUpTo(E, k) = Rank(r, k) + 1
    BY <1>2
  <2>4. Rank(r, k) = x
    BY <2>1, <2>2, <2>3
  <2> QED
    BY <2>4
<1> QED
  BY <1>2, <1>3, <1>4 DEF E

(* A pack is planned for at least one session and for no more than its size.*)
LEMMA PlannedSize ==
  ASSUME TypeInv, NEW r \in Request, EligibleCount(r) > 0,
         NEW a \in 0 .. (PackCount(EligibleCount(r)) - 1)
  PROVE  /\ PlannedMembers(r, a) # {}
         /\ IsFiniteSet(PlannedMembers(r, a))
         /\ Cardinality(PlannedMembers(r, a)) <= PackSize(EligibleCount(r), a)
<1> DEFINE n == EligibleCount(r)
           ranks == PackRanks(n, a)
           K == {j \in EligibleOrdinals(r) : Rank(r, j) \in ranks}
<1>1. n \in Nat \ {0}
  BY EligibleOrdinalsFinite
<1>2. /\ PackOffset(n, a) \in Nat /\ PackSize(n, a) \in Nat \ {0}
      /\ PackOffset(n, a) + PackSize(n, a) <= n
  BY <1>1, PackRanksWithin
<1>3. PlannedMembers(r, a) = {Selection[r][k] : k \in K}
  BY DEF PlannedMembers, SessionsAtRanks
<1>4. ranks = PackOffset(n, a) .. (PackOffset(n, a) + PackSize(n, a) - 1)
  BY DEF PackRanks
<1> HIDE DEF n, ranks
<1>5. K # {}
  <2>1. PackOffset(n, a) \in 0 .. (n - 1) /\ PackOffset(n, a) \in ranks
    BY <1>1, <1>2, <1>4
  <2>2. PICK k \in EligibleOrdinals(r) : Rank(r, k) = PackOffset(n, a)
    BY <2>1, RanksOfOrdinals DEF n
  <2> QED
    BY <2>1, <2>2
<1>6. IsFiniteSet(ranks) /\ Cardinality(ranks) = PackSize(n, a)
  <2> DEFINE low == PackOffset(n, a)
             high == PackOffset(n, a) + PackSize(n, a) - 1
  <2>1. low \in Int /\ high \in Int /\ ~(low > high) /\ high - low + 1 = PackSize(n, a)
    BY <1>2
  <2> HIDE DEF low, high
  <2>2. IsFiniteSet(low .. high) /\ Cardinality(low .. high) = high - low + 1
    BY <2>1, FS_Interval
  <2> QED
    BY <1>4, <2>1, <2>2 DEF low, high
<1>7. IsFiniteSet(K) /\ Cardinality(K) <= PackSize(n, a)
  <2> DEFINE f == [k \in K |-> Rank(r, k)]
  <2>1. f \in Injection(K, ranks)
    BY RanksOfOrdinals DEF Injection, IsInjective
  <2> HIDE DEF f
  <2> QED
    BY <1>6, <2>1, FS_Injection
<1>8. /\ IsFiniteSet(PlannedMembers(r, a))
      /\ Cardinality(PlannedMembers(r, a)) <= Cardinality(K)
  <2> DEFINE g == [k \in K |-> Selection[r][k]]
  <2>1. g \in Surjection(K, PlannedMembers(r, a))
    BY <1>3 DEF Surjection
  <2> HIDE DEF g
  <2> QED
    BY <1>7, <2>1, FS_Surjection
<1>9. /\ Cardinality(K) \in Nat /\ Cardinality(PlannedMembers(r, a)) \in Nat
      /\ PackSize(n, a) \in Nat
  BY <1>2, <1>7, <1>8, FS_CardinalityType
<1> HIDE DEF K
<1>10. PlannedMembers(r, a) # {}
  BY <1>3, <1>5
<1> QED
  BY <1>7, <1>8, <1>9, <1>10 DEF n

(* What a caller sees of a request depends on these rows.                   *)
LEMMA ViewFrame ==
  ASSUME NEW r \in Request, status'[r] = status[r], error'[r] = error[r],
         reqStatus'[r] = reqStatus[r], pack'[r] = pack[r]
  PROVE  CampaignPhase(r)' = CampaignPhase(r) /\ CampaignWork(r)' = CampaignWork(r)
  BY DEF CampaignPhase, CampaignWork, CampaignState

(* A step no caller sees is a stutter of the campaign.                      *)
LEMMA HiddenStep ==
  ASSUME \A q \in Request : CampaignPhase(q)' = CampaignPhase(q)
                            /\ CampaignWork(q)' = CampaignWork(q)
  PROVE  UNCHANGED Campaign!vars
  BY DEF Campaign!vars

(* A step that moves one request from one phase to another.                 *)
LEMMA PhaseStep ==
  ASSUME NEW r \in Request, NEW from, NEW to,
         CampaignPhase(r) = from, CampaignPhase(r)' = to,
         \A q \in Request \ {r} : CampaignPhase(q)' = CampaignPhase(q)
  PROVE  Campaign!Moves(r, from, to)
  BY DEF Campaign!Moves

(* Creating, failing, rejecting and retrying a preparation.                 *)
LEMMA StatusStepsRefine ==
  ASSUME AccountInv, NEW r \in Request,
         Create(r) \/ FinalizeNoEligible(r) \/ StepFails(r) \/ Retry(r)
  PROVE  Campaign!Submit(r) \/ Campaign!Reject(r) \/ Campaign!Fail(r) \/ Campaign!Resume(r)
<1>1. TypeInv
  BY DEF AccountInv, TrackInv, PlanInv, KeptInv, StageInv
<1>2. status \in [Request -> PrepStatus] /\ error \in [Request -> ErrorCode]
  BY <1>1 DEF TypeInv, TypeOK
<1>3. \A q \in Request \ {r} : CampaignPhase(q)' = CampaignPhase(q)
                               /\ CampaignWork(q)' = CampaignWork(q)
  BY <1>1, OtherRows, ViewFrame DEF RequestStep, PreparationStep
<1>4. status[r] # "ready" /\ status'[r] # "ready"
  BY <1>2 DEF Create, FinalizeNoEligible, StepFails, Retry, Finalizing, AtHead, Preparing
<1>5. CampaignWork(r)' = CampaignWork(r)
  BY <1>4 DEF CampaignWork
<1>6. UNCHANGED [q \in Request |-> CampaignWork(q)]
  BY <1>3, <1>5
<1>7. CASE Create(r)
  <2>1. CampaignPhase(r) = "absent" /\ CampaignPhase(r)' = "preparing"
    BY <1>2, <1>7 DEF Create, CampaignPhase
  <2> QED
    BY <1>3, <1>6, <2>1, PhaseStep DEF Campaign!Submit
<1>8. CASE FinalizeNoEligible(r)
  <2>1. CampaignPhase(r) = "preparing" /\ CampaignPhase(r)' = "rejected"
    BY <1>2, <1>8 DEF FinalizeNoEligible, Finalizing, AtHead, Preparing, CampaignPhase
  <2> QED
    BY <1>3, <1>6, <2>1, PhaseStep DEF Campaign!Reject
<1>9. CASE StepFails(r)
  <2>1. CampaignPhase(r) = "preparing" /\ CampaignPhase(r)' = "failed"
    BY <1>2, <1>9 DEF StepFails, AtHead, Preparing, CampaignPhase
  <2> QED
    BY <1>3, <1>6, <2>1, PhaseStep DEF Campaign!Fail
<1>10. CASE Retry(r)
  <2>1. CampaignPhase(r) = "failed" /\ CampaignPhase(r)' = "preparing"
    BY <1>2, <1>10 DEF Retry, CampaignPhase
  <2> QED
    BY <1>3, <1>6, <2>1, PhaseStep DEF Campaign!Resume
<1> QED
  BY <1>7, <1>8, <1>9, <1>10

(* What a caller sees of one pack.                                          *)
PackView(p) == [state |-> CampaignState(p), members |-> p.members]

LEMMA ViewOfReady ==
  ASSUME NEW r \in Request, status[r] = "ready"
  PROVE  CampaignWork(r) = [o \in DOMAIN pack[r] |-> PackView(pack[r][o])]
  BY DEF CampaignWork, PackView

LEMMA ViewOfReadyNext ==
  ASSUME NEW r \in Request, status'[r] = "ready"
  PROVE  CampaignWork(r)' = [o \in DOMAIN pack'[r] |-> PackView(pack'[r][o])]
  BY DEF CampaignWork, PackView, CampaignState

(* The last transaction of the finalisation shows all packs at once, none   *)
(* empty or too large, and no session in two of them.                       *)
LEMMA ReleaseRefines ==
  ASSUME AccountInv, NEW r \in Request, FinalizeRelease(r)
  PROVE  Campaign!Release(r)
<1>1. TypeInv /\ Staged(r) /\ Planned(r) /\ PlanInv /\ KeptInv /\ Completed(r)
  BY DEF AccountInv, TrackInv, PlanInv, KeptInv, StageInv
<1>2. /\ status \in [Request -> PrepStatus] /\ pack[r] \in Seq(Pack)
      /\ \A o \in DOMAIN pack[r] : pack[r][o] \in Pack
  <2>1. status \in [Request -> PrepStatus] /\ pack[r] \in Seq(Pack)
    BY <1>1 DEF TypeInv, TypeOK
  <2> QED
    BY <2>1
<1> DEFINE n == EligibleCount(r)
<1>3. /\ status[r] = "preparing" /\ status'[r] = "ready" /\ UNCHANGED <<reqStatus, outcome, stored>>
      /\ n > 0 /\ PackSizesValid(n) /\ Len(pack[r]) >= PackCount(n)
  BY <1>2 DEF FinalizeRelease, Building, Finalizing, AtHead, Preparing, sessionVars
<1>4. n \in Nat /\ PackCount(n) \in Nat /\ Len(pack[r]) = PackCount(n) /\ pack[r] # <<>>
  <2>1. n \in Nat /\ PackCount(n) \in Nat /\ Len(pack[r]) \in Nat
    BY <1>1, <1>2, PackCountIsNatural
  <2>2. pack[r] # <<>> => Len(pack[r]) <= PackCount(n)
    BY <1>1 DEF Staged
  <2>3. pack[r] # <<>>
    <3>1. Completed(r)'
      BY CompletedOfRelease
    <3>2. pack'[r] # <<>>
      BY <1>3, <3>1 DEF Completed
    <3>3. pack'[r] = [o \in DOMAIN pack[r] |-> Released(pack[r][o])]
      BY <1>1 DEF FinalizeRelease, TypeInv, TypeOK
    <3>4. DOMAIN <<>> = {}
      OBVIOUS
    <3>5. pack[r] = <<>> => pack'[r] = <<>>
      BY <3>3, <3>4
    <3> QED
      BY <3>2, <3>5
  <2> QED
    BY <1>3, <2>1, <2>2, <2>3
<1>5. DOMAIN pack[r] = 1 .. PackCount(n) /\ DOMAIN pack[r] # {}
  BY <1>2, <1>4
<1>6. /\ DOMAIN pack'[r] = DOMAIN pack[r]
      /\ \A o \in DOMAIN pack[r] : pack'[r][o] = Released(pack[r][o])
  BY <1>1, ReleasedPacks
<1> DEFINE w == [o \in DOMAIN pack[r] |-> [state |-> "available", members |-> pack[r][o].members]]
<1>7. CampaignWork(r)' = w
  <2>1. CampaignWork(r)' = [o \in DOMAIN pack[r] |-> PackView(pack'[r][o])]
    BY <1>3, <1>6, ViewOfReadyNext
  <2>2. ASSUME NEW o \in DOMAIN pack[r]
        PROVE  PackView(pack'[r][o]) = [state |-> "available", members |-> pack[r][o].members]
    <3>1. pack[r][o].status = "pending" /\ pack[r][o] \in Pack
      BY <1>1, <1>2, <1>3 DEF Staged
    <3>2. pack'[r][o] = [pack[r][o] EXCEPT !.status = "available"]
      BY <1>6, <3>1 DEF Released
    <3>3. pack'[r][o].status = "available" /\ pack'[r][o].members = pack[r][o].members
      BY <3>1, <3>2 DEF Pack
    <3>4. CampaignState(pack'[r][o]) = "available"
      BY <3>3 DEF CampaignState
    <3> QED
      BY <3>3, <3>4 DEF PackView
  <2> QED
    BY <2>1, <2>2
<1>8. ASSUME NEW o \in DOMAIN pack[r]
      PROVE  /\ pack[r][o].members # {} /\ pack[r][o].members \subseteq Selected(r)
             /\ Cardinality(pack[r][o].members) <= MaximumPackSize
  <2>1. o - 1 \in 0 .. (PackCount(n) - 1)
    BY <1>4, <1>5
  <2>2. pack[r][o].members = PlannedMembers(r, o - 1)
    <3>1. Eligible(r) \subseteq stored
      BY <1>1, <1>3, EligibleStored
    <3> QED
      BY <1>1, <3>1, PlannedAreEligible DEF Planned
  <2>3. /\ PlannedMembers(r, o - 1) # {} /\ IsFiniteSet(PlannedMembers(r, o - 1))
        /\ Cardinality(PlannedMembers(r, o - 1)) <= PackSize(n, o - 1)
    BY <1>1, <1>3, <2>1, PlannedSize
  <2>4. PackSize(n, o - 1) <= MaximumPackSize
    BY <1>3, <2>1 DEF PackSizesValid
  <2>5. Eligible(r) \subseteq Selected(r)
    BY <1>1, SessionsOfSelection DEF Eligible, Selected
  <2>6. PackSize(n, o - 1) \in Nat /\ Cardinality(PlannedMembers(r, o - 1)) \in Nat
        /\ MaximumPackSize \in Nat
    BY <1>3, <1>4, <2>1, <2>3, PackRanksWithin, FS_CardinalityType, PackSizeAssumption
  <2> QED
    BY <2>2, <2>3, <2>4, <2>5, <2>6, PlannedAreEligible
<1>9. \A o, q \in DOMAIN pack[r] : o # q => pack[r][o].members \cap pack[r][q].members = {}
  BY <1>1, PacksDisjoint
<1> HIDE DEF n
<1>10. Campaign!WellFormed(r, w)
  <2>1. /\ DOMAIN w = DOMAIN pack[r]
        /\ \A o \in DOMAIN pack[r] : w[o].state = "available" /\ w[o].members = pack[r][o].members
    OBVIOUS
  <2>2. DOMAIN <<>> = {}
    OBVIOUS
  <2> HIDE DEF w
  <2>3. w # <<>>
    BY <1>5, <2>1, <2>2
  <2>4. [q \in Request |-> Selected(q)][r] = Selected(r)
    OBVIOUS
  <2>5. \A S : Campaign!Cardinality(S) = Cardinality(S)
    BY DEF Campaign!Cardinality, Cardinality
  <2>6. ASSUME NEW o \in DOMAIN w
        PROVE  /\ w[o].state = "available" /\ w[o].members # {}
               /\ w[o].members \subseteq [q \in Request |-> Selected(q)][r]
               /\ Cardinality(w[o].members) <= MaximumPackSize
    BY <1>8, <2>1, <2>4
  <2>7. \A o, q \in DOMAIN w : o # q => w[o].members \cap w[q].members = {}
    BY <1>9, <2>1
  <2> QED
    BY <2>3, <2>5, <2>6, <2>7 DEF Campaign!WellFormed
<1>11. CampaignPhase(r) = "preparing" /\ CampaignPhase(r)' = "ready"
  <2>1. reqStatus[r] # "completed"
    BY <1>1, <1>3 DEF Completed
  <2> QED
    BY <1>3, <2>1 DEF CampaignPhase
<1>12. \A q \in Request \ {r} : CampaignPhase(q)' = CampaignPhase(q)
                                /\ CampaignWork(q)' = CampaignWork(q)
  BY <1>1, OtherRows, ViewFrame DEF RequestStep, PreparationStep
<1>13. Campaign!Moves(r, "preparing", "ready")
  BY <1>11, <1>12, PhaseStep
<1> HIDE DEF w
<1> QED
  BY <1>7, <1>10, <1>12, <1>13 DEF Campaign!Release

(* A step that changes the state of one pack a caller sees and nothing else. *)
LEMMA OneViewChanges ==
  ASSUME NEW r \in Request, status[r] = "ready", status'[r] = "ready",
         NEW o \in DOMAIN pack[r], NEW s, DOMAIN pack'[r] = DOMAIN pack[r],
         PackView(pack'[r][o]) = [PackView(pack[r][o]) EXCEPT !.state = s],
         \A q \in DOMAIN pack[r] \ {o} : PackView(pack'[r][q]) = PackView(pack[r][q]),
         \A q \in Request \ {r} : CampaignWork(q)' = CampaignWork(q)
  PROVE  [q \in Request |-> CampaignWork(q)'] =
           [[q \in Request |-> CampaignWork(q)] EXCEPT ![r][o].state = s]
<1>1. CampaignWork(r) = [q \in DOMAIN pack[r] |-> PackView(pack[r][q])]
  BY ViewOfReady
<1>2. CampaignWork(r)' = [q \in DOMAIN pack[r] |-> PackView(pack'[r][q])]
  BY ViewOfReadyNext
<1>3. CampaignWork(r)' = [CampaignWork(r) EXCEPT ![o].state = s]
  BY <1>1, <1>2
<1> DEFINE W == [q \in Request |-> CampaignWork(q)]
<1>4. [W EXCEPT ![r][o].state = s] = [W EXCEPT ![r] = [CampaignWork(r) EXCEPT ![o].state = s]]
  OBVIOUS
<1> QED
  BY <1>3, <1>4

(* A claim hands out the lowest pack a caller sees as available.            *)
LEMMA ClaimRefines ==
  ASSUME AccountInv, NEW r \in Request, ClaimPack(r)
  PROVE  \E o \in DOMAIN CampaignWork(r) : Campaign!Claim(r, o)
<1>1. TypeInv
  BY DEF AccountInv, TrackInv, PlanInv, KeptInv, StageInv
<1>2. PICK o \in DOMAIN pack[r] :
        /\ pack[r][o].status = "available"
        /\ \A q \in PacksWith(r, "available") : o <= q
        /\ pack' = [pack EXCEPT ![r][o].status = "active"]
  BY DEF ClaimPack, PacksWith
<1>3. /\ pack \in [Request -> Seq(Pack)] /\ pack[r] \in Seq(Pack) /\ pack[r][o] \in Pack
      /\ \A q \in DOMAIN pack[r] : pack[r][q] \in Pack
      /\ reqStatus \in [Request -> {"none", "open", "active", "completed"}]
  <2>1. pack \in [Request -> Seq(Pack)] /\ pack[r] \in Seq(Pack)
        /\ reqStatus \in [Request -> {"none", "open", "active", "completed"}]
    BY <1>1 DEF TypeInv, TypeOK
  <2> QED
    BY <2>1
<1>4. /\ DOMAIN pack'[r] = DOMAIN pack[r]
      /\ pack'[r][o] = [pack[r][o] EXCEPT !.status = "active"]
      /\ \A q \in DOMAIN pack[r] \ {o} : pack'[r][q] = pack[r][q]
  <2>1. pack'[r] = [pack[r] EXCEPT ![o] = [pack[r][o] EXCEPT !.status = "active"]]
    BY <1>2, <1>3
  <2>2. [pack[r][o] EXCEPT !.status = "active"] \in Pack
    BY <1>3 DEF Pack, PackStatus
  <2> QED
    BY <1>3, <2>1, <2>2, OnePackReplaced
<1>5. /\ status[r] = "ready" /\ status' = status /\ reqStatus[r] # "completed"
      /\ reqStatus'[r] # "completed"
  BY <1>3 DEF ClaimPack, prepVars
<1>6. \A q \in Request \ {r} : CampaignPhase(q)' = CampaignPhase(q)
                               /\ CampaignWork(q)' = CampaignWork(q)
  BY <1>1, OtherRows, ViewFrame DEF RequestStep
<1>7. CampaignPhase(r) = "ready" /\ CampaignPhase(r)' = "ready"
  BY <1>5 DEF CampaignPhase
<1>8. CampaignWork(r) = [q \in DOMAIN pack[r] |-> PackView(pack[r][q])]
  BY <1>5, ViewOfReady
<1>9. PackView(pack'[r][o]) = [PackView(pack[r][o]) EXCEPT !.state = "claimed"]
  <2>1. pack'[r][o].status = "active" /\ pack'[r][o].members = pack[r][o].members
    BY <1>3, <1>4 DEF Pack
  <2> QED
    BY <2>1 DEF PackView, CampaignState
<1>10. \A q \in DOMAIN pack[r] \ {o} : PackView(pack'[r][q]) = PackView(pack[r][q])
  BY <1>4 DEF PackView, CampaignState
<1>11. [q \in Request |-> CampaignWork(q)'] =
         [[q \in Request |-> CampaignWork(q)] EXCEPT ![r][o].state = "claimed"]
  <2>1. status[r] = "ready" /\ status'[r] = "ready" /\ DOMAIN pack'[r] = DOMAIN pack[r]
    BY <1>4, <1>5
  <2>2. \A q \in Request \ {r} : CampaignWork(q)' = CampaignWork(q)
    BY <1>6
  <2> QED
    BY <1>9, <1>10, <2>1, <2>2, OneViewChanges, Z3T(30)
<1>12. /\ CampaignWork(r)[o].state = "available"
       /\ \A q \in DOMAIN CampaignWork(r) : CampaignWork(r)[q].state = "available" => o <= q
  <2>1. ASSUME NEW q \in DOMAIN pack[r]
        PROVE  CampaignWork(r)[q].state = "available" <=> pack[r][q].status = "available"
    <3>1. CampaignWork(r)[q].state = CampaignState(pack[r][q])
      BY <1>8 DEF PackView
    <3>2. pack[r][q].status \in PackStatus /\ pack[r][q].status # "pending"
      <4>1. Staged(r)
        BY DEF AccountInv, TrackInv, PlanInv, KeptInv, StageInv
      <4> QED
        BY <1>3, <1>5, <4>1 DEF Staged, Pack
    <3> QED
      BY <3>1, <3>2 DEF CampaignState, PackStatus
  <2> QED
    BY <1>2, <1>8, <2>1 DEF PacksWith
<1>13. UNCHANGED [q \in Request |-> CampaignPhase(q)]
  BY <1>6, <1>7
<1>14. o \in DOMAIN CampaignWork(r)
  BY <1>8
<1>15. Campaign!Claim(r, o)
  BY <1>7, <1>11, <1>12, <1>13 DEF Campaign!Claim
<1> QED
  BY <1>14, <1>15

(* What a caller sees of a pack is completed exactly when the pack is.       *)
LEMMA StateSeen ==
  ASSUME AccountInv, NEW r \in Request, status[r] = "ready", NEW q \in DOMAIN pack[r]
  PROVE  /\ CampaignWork(r)[q].state = CampaignState(pack[r][q])
         /\ pack[r][q] \in Pack /\ pack[r][q].status # "pending"
         /\ CampaignWork(r)[q].state = "available" <=> pack[r][q].status = "available"
         /\ CampaignWork(r)[q].state = "claimed" <=> Saveable(pack[r][q])
         /\ CampaignWork(r)[q].state = "completed" <=> pack[r][q].status = "completed"
<1>1. TypeInv /\ Staged(r)
  BY DEF AccountInv, TrackInv, PlanInv, KeptInv, StageInv
<1>2. pack[r][q] \in Pack
  <2>1. pack[r] \in Seq(Pack)
    BY <1>1 DEF TypeInv, TypeOK
  <2> QED
    BY <2>1
<1>3. pack[r][q].status \in PackStatus /\ pack[r][q].status # "pending"
  BY <1>1, <1>2 DEF Staged, Pack
<1>4. CampaignWork(r)[q].state = CampaignState(pack[r][q])
  BY ViewOfReady DEF PackView
<1> QED
  BY <1>2, <1>3, <1>4 DEF CampaignState, PackStatus, Saveable

(* A save of a draft is not seen: the pack is claimed before and after it.   *)
LEMMA SaveHidden ==
  ASSUME AccountInv, NEW r \in Request, NEW o \in DOMAIN pack[r], SaveDraft(r, o)
  PROVE  UNCHANGED Campaign!vars
<1>1. TypeInv
  BY DEF AccountInv, TrackInv, PlanInv, KeptInv, StageInv
<1>2. UNCHANGED <<status, error, reqStatus>>
  BY DEF SaveDraft, prepVars
<1>3. \A q \in Request \ {r} : CampaignPhase(q)' = CampaignPhase(q)
                               /\ CampaignWork(q)' = CampaignWork(q)
  BY <1>1, OtherRows, ViewFrame DEF RequestStep
<1>4. CampaignPhase(r)' = CampaignPhase(r)
  BY <1>2 DEF CampaignPhase
<1>5. PICK d \in Draft :
        /\ Saveable(pack[r][o])
        /\ DOMAIN pack'[r] = DOMAIN pack[r] /\ Len(pack'[r]) = Len(pack[r])
        /\ pack'[r][o] = [pack[r][o] EXCEPT !.draft = d, !.status = "saved"]
        /\ \A q \in DOMAIN pack[r] \ {o} : pack'[r][q] = pack[r][q]
  BY <1>1, SavedPack
<1>6. pack[r][o] \in Pack
  <2>1. pack[r] \in Seq(Pack)
    BY <1>1 DEF TypeInv, TypeOK
  <2> QED
    BY <2>1
<1>7. pack'[r][o].status = "saved" /\ pack'[r][o].members = pack[r][o].members
  BY <1>5, <1>6 DEF Pack
<1>8. PackView(pack'[r][o]) = PackView(pack[r][o])
  BY <1>5, <1>7 DEF PackView, CampaignState, Saveable
<1>9. \A q \in DOMAIN pack[r] : PackView(pack'[r][q]) = PackView(pack[r][q])
  BY <1>5, <1>8 DEF PackView, CampaignState
<1>10. CampaignWork(r)' = CampaignWork(r)
  <2>1. CASE status[r] # "ready"
    BY <1>2, <2>1 DEF CampaignWork
  <2>2. CASE status[r] = "ready"
    <3>1. /\ CampaignWork(r) = [q \in DOMAIN pack[r] |-> PackView(pack[r][q])]
          /\ CampaignWork(r)' = [q \in DOMAIN pack[r] |-> PackView(pack'[r][q])]
      BY <1>2, <1>5, <2>2, ViewOfReady, ViewOfReadyNext
    <3> QED
      BY <1>9, <3>1
  <2> QED
    BY <2>1, <2>2
<1> QED
  BY <1>3, <1>4, <1>10, HiddenStep

(* A finish completes the pack a caller sees, and the request with the last. *)
LEMMA FinishRefines ==
  ASSUME AccountInv, NEW r \in Request, NEW o \in DOMAIN pack[r], FinishPack(r, o)
  PROVE  o \in DOMAIN CampaignWork(r) /\ Campaign!Complete(r, o)
<1>1. TypeInv /\ Staged(r) /\ Completed(r)
  BY DEF AccountInv, TrackInv, PlanInv, KeptInv, StageInv
<1>2. /\ pack[r][o].status = "saved"
      /\ DOMAIN pack[r][o].draft.verdict = pack[r][o].members
      /\ DOMAIN pack'[r] = DOMAIN pack[r] /\ Len(pack'[r]) = Len(pack[r])
      /\ pack'[r][o] = [pack[r][o] EXCEPT !.status = "completed",
                                          !.receipt = pack[r][o].draft]
      /\ \A q \in DOMAIN pack[r] \ {o} : pack'[r][q] = Released(pack[r][q])
  BY <1>1, FinishedPack
<1>3. UNCHANGED <<status, error>>
      /\ reqStatus' = [reqStatus EXCEPT ![r] = IF LastPack(r, o) THEN "completed" ELSE "active"]
  BY DEF FinishPack, prepVars
<1>4. status[r] = "ready" /\ status'[r] = "ready" /\ reqStatus[r] # "completed"
  BY <1>1, <1>2, <1>3 DEF Staged, Completed
<1>5. reqStatus'[r] = IF LastPack(r, o) THEN "completed" ELSE "active"
  <2>1. DOMAIN reqStatus = Request
    BY <1>1 DEF TypeInv, TypeOK
  <2> QED
    BY <1>3, <2>1
<1>6. CampaignPhase(r) = "ready" /\ CampaignPhase(r)' = IF LastPack(r, o) THEN "completed" ELSE "ready"
  BY <1>4, <1>5 DEF CampaignPhase
<1>7. \A q \in Request \ {r} : CampaignPhase(q)' = CampaignPhase(q)
                               /\ CampaignWork(q)' = CampaignWork(q)
  BY <1>1, OtherRows, ViewFrame DEF RequestStep
<1>8. PackView(pack'[r][o]) = [PackView(pack[r][o]) EXCEPT !.state = "completed"]
  <2>1. pack[r][o] \in Pack
    BY <1>4, StateSeen
  <2>2. pack'[r][o].status = "completed" /\ pack'[r][o].members = pack[r][o].members
    BY <1>2, <2>1 DEF Pack
  <2> QED
    BY <2>2 DEF PackView, CampaignState
<1>9. \A q \in DOMAIN pack[r] \ {o} : PackView(pack'[r][q]) = PackView(pack[r][q])
  <2>1. ASSUME NEW q \in DOMAIN pack[r] \ {o} PROVE pack'[r][q] = pack[r][q]
    <3>1. pack[r][q].status # "pending"
      BY <1>4, StateSeen
    <3> QED
      BY <1>2, <3>1 DEF Released
  <2> QED
    BY <2>1 DEF PackView, CampaignState
<1>10. [q \in Request |-> CampaignWork(q)'] =
         [[q \in Request |-> CampaignWork(q)] EXCEPT ![r][o].state = "completed"]
  <2>1. status[r] = "ready" /\ status'[r] = "ready" /\ DOMAIN pack'[r] = DOMAIN pack[r]
    BY <1>2, <1>4
  <2>2. \A q \in Request \ {r} : CampaignWork(q)' = CampaignWork(q)
    BY <1>7
  <2> QED
    BY <1>8, <1>9, <2>1, <2>2, OneViewChanges, Z3T(30)
<1>11. DOMAIN CampaignWork(r) = DOMAIN pack[r]
  BY <1>4, ViewOfReady
<1>12. CampaignWork(r)[o].state = "claimed"
  BY <1>2, <1>4, StateSeen DEF Saveable
<1>13. LastPack(r, o) <=> \A q \in DOMAIN CampaignWork(r) \ {o} : CampaignWork(r)[q].state = "completed"
  BY <1>4, <1>11, StateSeen DEF LastPack
<1>14. [q \in Request |-> CampaignPhase(q)'] =
         [[q \in Request |-> CampaignPhase(q)] EXCEPT ![r] =
            IF \A q \in DOMAIN CampaignWork(r) \ {o} : CampaignWork(r)[q].state = "completed"
              THEN "completed" ELSE @]
  BY <1>6, <1>7, <1>13
<1> QED
  BY <1>6, <1>10, <1>11, <1>12, <1>14 DEF Campaign!Complete

(* Deleting a session takes it out of every pack a caller sees.             *)
LEMMA DeleteRefines ==
  ASSUME AccountInv, NEW s \in Session, DeleteSession(s)
  PROVE  Campaign!Forget(s)
<1>1. TypeInv
  BY DEF AccountInv, TrackInv, PlanInv, KeptInv, StageInv
<1>2. UNCHANGED <<status, error, reqStatus>>
  BY DEF DeleteSession, prepVars
<1> DEFINE Forgotten(w) == [o \in DOMAIN w |-> [w[o] EXCEPT !.members = @ \ {s}]]
<1>3. ASSUME NEW r \in Request PROVE CampaignWork(r)' = Forgotten(CampaignWork(r))
  <2>1. CASE status[r] # "ready"
    <3>1. CampaignWork(r) = <<>> /\ CampaignWork(r)' = <<>>
      BY <1>2, <2>1 DEF CampaignWork
    <3>2. DOMAIN <<>> = {}
      OBVIOUS
    <3>3. Forgotten(<<>>) = <<>>
      BY <3>2
    <3> QED
      BY <3>1, <3>3
  <2>2. CASE status[r] = "ready"
    <3>1. /\ DOMAIN pack'[r] = DOMAIN pack[r] /\ Len(pack'[r]) = Len(pack[r])
          /\ \A o \in DOMAIN pack[r] : pack'[r][o] = MembershipDeleted(pack[r][o], s)
          /\ member'[r] = [member[r] EXCEPT ![s] = "none"]
      BY <1>1, DeletedMemberships
    <3>2. \A o \in DOMAIN pack[r] : pack[r][o] \in Pack
      <4>1. pack[r] \in Seq(Pack)
        BY <1>1 DEF TypeInv, TypeOK
      <4> QED
        BY <4>1
    <3>3. CampaignWork(r) = [o \in DOMAIN pack[r] |-> PackView(pack[r][o])]
      BY <2>2, ViewOfReady
    <3>4. CampaignWork(r)' = [o \in DOMAIN pack[r] |-> PackView(pack'[r][o])]
      BY <1>2, <2>2, <3>1, ViewOfReadyNext
    <3>5. ASSUME NEW o \in DOMAIN pack[r]
          PROVE  PackView(pack'[r][o]) = [PackView(pack[r][o]) EXCEPT !.members = @ \ {s}]
      <4>1. /\ pack'[r][o].status = pack[r][o].status
            /\ pack'[r][o].members = pack[r][o].members \ {s}
        BY <3>1, <3>2 DEF MembershipDeleted, Pack
      <4>2. CampaignState(pack'[r][o]) = CampaignState(pack[r][o])
        BY <4>1 DEF CampaignState
      <4> QED
        BY <4>1, <4>2 DEF PackView
    <3> QED
      BY <3>3, <3>4, <3>5
  <2> QED
    BY <2>1, <2>2
<1>4. \A r \in Request : CampaignPhase(r)' = CampaignPhase(r)
  BY <1>2 DEF CampaignPhase
<1> QED
  BY <1>3, <1>4 DEF Campaign!Forget

(* The other steps of a preparation write rows no caller can read yet.      *)
LEMMA PreparationHidden ==
  ASSUME AccountInv, NEW r \in Request,
         PrepareBatch(r) \/ FinalizeShell(r) \/ FinalizeMembers(r) \/ FinalizePack(r)
  PROVE  UNCHANGED Campaign!vars
<1>1. TypeInv
  BY DEF AccountInv, TrackInv, PlanInv, KeptInv, StageInv
<1>2. /\ UNCHANGED <<status, error>> /\ status[r] = "preparing"
  BY DEF PrepareBatch, FinalizeShell, FinalizeMembers, FinalizePack, Building, Finalizing,
         AtHead, Preparing, prepVars
<1>3. \A q \in Request \ {r} : CampaignPhase(q)' = CampaignPhase(q)
                               /\ CampaignWork(q)' = CampaignWork(q)
  BY <1>1, OtherRows, ViewFrame DEF RequestStep, PreparationStep
<1>4. CampaignPhase(r)' = CampaignPhase(r) /\ CampaignWork(r)' = CampaignWork(r)
  BY <1>2 DEF CampaignPhase, CampaignWork
<1> QED
  BY <1>3, <1>4, HiddenStep

(* Every step is a step of the campaign or is not seen.                     *)
LEMMA CampaignStep ==
  ASSUME AccountInv, [Next]_vars
  PROVE  [Campaign!Next]_Campaign!vars
<1>1. ASSUME NEW r \in Request, RequestStep(r) PROVE [Campaign!Next]_Campaign!vars
  <2>1. CASE Create(r) \/ FinalizeNoEligible(r) \/ StepFails(r) \/ Retry(r)
    <3>1. Campaign!Submit(r) \/ Campaign!Reject(r) \/ Campaign!Fail(r) \/ Campaign!Resume(r)
      BY <2>1, StatusStepsRefine
    <3> QED
      BY <3>1 DEF Campaign!Next
  <2>2. CASE PrepareBatch(r) \/ FinalizeShell(r) \/ FinalizeMembers(r) \/ FinalizePack(r)
    BY <2>2, PreparationHidden
  <2>3. CASE FinalizeRelease(r)
    BY <2>3, ReleaseRefines DEF Campaign!Next
  <2>4. CASE ClaimPack(r)
    <3>1. PICK o \in DOMAIN CampaignWork(r) : Campaign!Claim(r, o)
      BY <2>4, ClaimRefines
    <3> QED
      BY <3>1 DEF Campaign!Next
  <2>5. CASE \E o \in DOMAIN pack[r] : SaveDraft(r, o)
    BY <2>5, SaveHidden
  <2>6. CASE \E o \in DOMAIN pack[r] : FinishPack(r, o)
    <3>1. PICK o \in DOMAIN pack[r] : FinishPack(r, o)
      BY <2>6
    <3>2. o \in DOMAIN CampaignWork(r) /\ Campaign!Complete(r, o)
      BY <3>1, FinishRefines
    <3> QED
      BY <3>2 DEF Campaign!Next
  <2> QED
    BY <1>1, <2>1, <2>2, <2>3, <2>4, <2>5, <2>6 DEF RequestStep, PreparationStep
<1>2. ASSUME NEW s \in Session, SessionStep(s) PROVE [Campaign!Next]_Campaign!vars
  <2>1. CASE DeleteSession(s)
    BY <2>1, DeleteRefines DEF Campaign!Next
  <2>2. CASE UserExcludes(s) \/ UserAccepts(s) \/ TranscriptImported(s)
    <3>1. UNCHANGED <<status, error, reqStatus, pack>>
      BY <2>2 DEF UserExcludes, UserAccepts, TranscriptImported, prepVars, requestVars
    <3> QED
      BY <3>1, ViewFrame, HiddenStep
  <2> QED
    BY <1>2, <2>1, <2>2 DEF SessionStep
<1>3. CASE Crash \/ Restart \/ UNCHANGED vars
  <2>1. UNCHANGED <<status, error, reqStatus, pack>>
    BY <1>3 DEF Crash, Restart, vars, prepVars, requestVars
  <2> QED
    BY <2>1, ViewFrame, HiddenStep
<1> QED
  BY <1>1, <1>2, <1>3 DEF Next

(* The preparation in transactions, the agents and the crashes implement    *)
(* what a caller is promised: packs that appear all at once, none of them   *)
(* empty or too large and no session in two of them, each handed out once,  *)
(* in order, and completed once, the request with the last.                 *)
THEOREM CampaignIsImplemented == Spec => ImplementsCampaign
<1>1. Init => Campaign!Init
  BY DEF Init, Campaign!Init, CampaignPhase, CampaignWork
<1>2. Init => AccountInv
  BY InitAccountInv
<1>3. AccountInv /\ [Next]_vars => AccountInv'
  BY AccountsKept
<1>4. AccountInv /\ [Next]_vars => [Campaign!Next]_Campaign!vars
  BY CampaignStep
<1> QED
  BY <1>1, <1>2, <1>3, <1>4, PTL DEF Spec, ImplementsCampaign, Campaign!Spec
=============================================================================
