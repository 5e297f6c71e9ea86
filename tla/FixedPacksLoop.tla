-------------------------- MODULE FixedPacksLoop --------------------------
(***************************************************************************)
(* fixedPacks of workbenchAuthoringV5Service.ts step by step: the for loop  *)
(* that slices the eligible sessions into packs and the size check behind   *)
(* it.  FixedPacks gives the same packs in closed form; the other modules   *)
(* use that form, so the two must agree.                                    *)
(***************************************************************************)
EXTENDS FixedPacks

CONSTANT MaxSessions   \* bound on the number of eligible sessions

ASSUME MaxSessionsAssumption == MaxSessions \in Nat \ {0}

VARIABLES
  total,      \* sessionIds.length
  ordinal,    \* loop counter
  offset,     \* running offset
  slices,     \* function from the ordinals done to the ranks of their sessions
  result      \* "running", "returned" or "authoring_v5_pack_size_invalid"

loopVars == <<total, ordinal, offset, slices, result>>

(* fixedPacks is reached with at least one eligible session: finalisation   *)
(* raises authoring_v5_no_eligible_sessions before it otherwise.            *)
LoopInit ==
  /\ total \in 1 .. MaxSessions
  /\ ordinal = 0
  /\ offset = 0
  /\ slices = [o \in {} |-> {}]
  /\ result = "running"

MorePacks == ordinal < PackCount(total)

(* One iteration: push sessionIds.slice(offset, offset + size).             *)
Slice ==
  /\ result = "running"
  /\ MorePacks
  /\ LET size == PackSize(total, ordinal)
     IN /\ slices' = [o \in 0 .. ordinal |->
                       IF o = ordinal
                         THEN {r \in 0 .. (total - 1) : offset <= r /\ r < offset + size}
                         ELSE slices[o]]
        /\ offset' = offset + size
  /\ ordinal' = ordinal + 1
  /\ UNCHANGED <<total, result>>

(* The loop is over: check the sizes and return or throw.                   *)
Check ==
  /\ result = "running"
  /\ ~MorePacks
  /\ result' = IF PackSizesValid(total) THEN "returned" ELSE "authoring_v5_pack_size_invalid"
  /\ UNCHANGED <<total, ordinal, offset, slices>>

LoopNext == Slice \/ Check

LoopSpec == LoopInit /\ [][LoopNext]_loopVars

-----------------------------------------------------------------------------

LoopTypeOK ==
  /\ total \in 1 .. MaxSessions
  /\ ordinal \in 0 .. PackCount(total)
  /\ offset \in Nat
  /\ slices \in [0 .. (ordinal - 1) -> SUBSET (0 .. (total - 1))]
  /\ result \in {"running", "returned", "authoring_v5_pack_size_invalid"}

(* The running offset of the loop is the closed form used elsewhere, and    *)
(* each pack sliced so far holds exactly the ranks of that closed form.     *)
LoopMatchesClosedForm ==
  /\ offset = PackOffset(total, ordinal)
  /\ \A o \in 0 .. (ordinal - 1) : slices[o] = PackRanks(total, o)

(* When fixedPacks returns, no session is left out and none is in two packs.*)
EverySessionPackedOnce ==
  result = "returned" =>
    \A r \in 0 .. (total - 1) :
      /\ \E o \in 0 .. (ordinal - 1) : r \in slices[o]
      /\ \A o1, o2 \in 0 .. (ordinal - 1) :
           (r \in slices[o1] /\ r \in slices[o2]) => o1 = o2

(* The error branch of the size check is dead code for the shipped limits:  *)
(* packs never exceed the maximum and, when the selection needs more than   *)
(* one pack, never fall below the minimum.                                  *)
SizesNeverRejected == result # "authoring_v5_pack_size_invalid"

(* Together: what the service and the other modules rely on.                *)
PacksAreExact == LoopMatchesClosedForm /\ EverySessionPackedOnce /\ SizesNeverRejected
=============================================================================
