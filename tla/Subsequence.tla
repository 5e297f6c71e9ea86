---------------------------- MODULE Subsequence ----------------------------
(***************************************************************************)
(* A sequence filtered by position.  Subsequence(s, {i \in DOMAIN s : P}) is *)
(* what SelectSeq gives, in a closed form instead of a recursion, so that   *)
(* the modules that filter a queue can be proved about.                     *)
(***************************************************************************)
EXTENDS Naturals, FiniteSets

(* The number of positions in K up to i, and the k-th position of K.        *)
PositionsUpTo(K, i) == Cardinality({j \in K : j <= i})
KthPosition(K, k) == CHOOSE i \in K : PositionsUpTo(K, i) = k

(* The elements of s at the positions in K, in their order.                 *)
Subsequence(s, K) == [k \in 1 .. Cardinality(K) |-> s[KthPosition(K, k)]]
=============================================================================
