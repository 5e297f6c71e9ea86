---------------------------- MODULE FixedPacks ----------------------------
(***************************************************************************)
(* The fixed division of a request's eligible sessions into packs, computed *)
(* once when a preparation is finalised: fixedPacks in                      *)
(* workbench/authoring/workbenchAuthoringV5Service.ts.                      *)
(*                                                                          *)
(* The loop of the code accumulates an offset; here the offset of a pack is *)
(* given in closed form, which FixedPacksLoop compares with the loop.  Packs  *)
(* are numbered from 0 as in the code (column "ordinal"), sessions by their *)
(* rank 0 .. n-1 among the eligible ones.                                   *)
(***************************************************************************)
EXTENDS Naturals

CONSTANTS
  MaximumPackSize,   \* MAXIMUM_PACK_SIZE, 12 in the code
  MinimumPackSize    \* MINIMUM_PACK_SIZE, 5 in the code

(* 5 and 12 satisfy this; the size check at the end of fixedPacks can only  *)
(* be superfluous when a pack of the maximum size plus one splits into two  *)
(* packs of the minimum size.                                               *)
ASSUME PackSizeAssumption ==
  /\ MaximumPackSize \in Nat \ {0}
  /\ MinimumPackSize \in Nat \ {0}
  /\ 2 * MinimumPackSize <= MaximumPackSize + 1

(* Math.ceil(n / MAXIMUM_PACK_SIZE)                                         *)
PackCount(n) == (n + MaximumPackSize - 1) \div MaximumPackSize

BaseSize(n)  == n \div PackCount(n)
Remainder(n) == n % PackCount(n)

(* Mutant: the remainder dropped.                                           *)
PackSizeWithoutRemainder(n, ordinal) == BaseSize(n)

(* The first Remainder(n) packs hold one session more than the others.      *)
PackSize(n, ordinal) ==
  IF ordinal < Remainder(n) THEN BaseSize(n) + 1 ELSE BaseSize(n)

(* Mutant: the packs before this one counted without their extra session.   *)
PackOffsetWithoutRemainder(n, ordinal) == ordinal * BaseSize(n)

(* Rank of the first session of a pack: the running "offset" of the loop.   *)
PackOffset(n, ordinal) ==
  ordinal * BaseSize(n) + IF ordinal < Remainder(n) THEN ordinal ELSE Remainder(n)

(* sessionIds.slice(offset, offset + size), as ranks.                       *)
PackRanks(n, ordinal) ==
  PackOffset(n, ordinal) .. (PackOffset(n, ordinal) + PackSize(n, ordinal) - 1)

(* The check before fixedPacks returns (authoring_v5_pack_size_invalid).    *)
PackSizesValid(n) ==
  \A ordinal \in 0 .. (PackCount(n) - 1) :
    /\ PackSize(n, ordinal) <= MaximumPackSize
    /\ n > MaximumPackSize => PackSize(n, ordinal) >= MinimumPackSize
=============================================================================
