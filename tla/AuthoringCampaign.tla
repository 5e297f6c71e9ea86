------------------------- MODULE AuthoringCampaign -------------------------
(***************************************************************************)
(* What the V5 authoring surface promises its callers, without transactions,*)
(* a coordinator, drafts, crashes or readiness: a request is accepted,      *)
(* prepared, and then offers all of its packs at once; a pack is handed out *)
(* once, in order, and completed once; the request is completed by its last *)
(* pack.  AuthoringV5Refinement shows that AuthoringV5 implements this.     *)
(***************************************************************************)
EXTENDS Naturals, Sequences, FiniteSets

CONSTANTS
  Session,
  Request,
  Requested,        \* Requested[r]: the set of sessions selected
  MaximumPackSize

VARIABLES
  phase,     \* what a caller may do with a request
  work       \* the packs a caller can see: members and state, by ordinal

vars == <<phase, work>>

Phase == {"absent", "preparing", "failed", "rejected", "ready", "completed"}
State == {"available", "claimed", "completed"}

TypeOK ==
  /\ phase \in [Request -> Phase]
  /\ work \in [Request -> Seq([state : State, members : SUBSET Session])]

Init ==
  /\ phase = [r \in Request |-> "absent"]
  /\ work = [r \in Request |-> <<>>]

Moves(r, from, to) ==
  /\ phase[r] = from
  /\ phase' = [phase EXCEPT ![r] = to]

Submit(r) == Moves(r, "absent", "preparing") /\ UNCHANGED work
Fail(r)   == Moves(r, "preparing", "failed") /\ UNCHANGED work
Reject(r) == Moves(r, "preparing", "rejected") /\ UNCHANGED work
Resume(r) == Moves(r, "failed", "preparing") /\ UNCHANGED work

(* The packs appear together: none is empty or too large, and no session is *)
(* in two of them.                                                          *)
WellFormed(r, packs) ==
  /\ packs # <<>>
  /\ \A o \in DOMAIN packs :
       /\ packs[o].state = "available"
       /\ packs[o].members # {}
       /\ packs[o].members \subseteq Requested[r]
       /\ Cardinality(packs[o].members) <= MaximumPackSize
  /\ \A o, q \in DOMAIN packs : o # q => packs[o].members \cap packs[q].members = {}

Release(r) ==
  /\ Moves(r, "preparing", "ready")
  /\ WellFormed(r, work'[r])
  /\ \A q \in Request \ {r} : work'[q] = work[q]

Claim(r, o) ==
  /\ phase[r] = "ready"
  /\ work[r][o].state = "available"
  /\ \A q \in DOMAIN work[r] : work[r][q].state = "available" => o <= q
  /\ work' = [work EXCEPT ![r][o].state = "claimed"]
  /\ UNCHANGED phase

Complete(r, o) ==
  /\ phase[r] = "ready"
  /\ work[r][o].state = "claimed"
  /\ work' = [work EXCEPT ![r][o].state = "completed"]
  /\ phase' = [phase EXCEPT ![r] =
       IF \A q \in DOMAIN work[r] \ {o} : work[r][q].state = "completed"
         THEN "completed" ELSE @]

(* Deleting a session takes it out of every pack.                           *)
Forget(s) ==
  /\ work' = [r \in Request |->
       [o \in DOMAIN work[r] |-> [work[r][o] EXCEPT !.members = @ \ {s}]]]
  /\ UNCHANGED phase

Next ==
  \/ \E r \in Request :
       \/ Submit(r) \/ Fail(r) \/ Reject(r) \/ Resume(r) \/ Release(r)
       \/ \E o \in DOMAIN work[r] : Claim(r, o) \/ Complete(r, o)
  \/ \E s \in Session : Forget(s)

Spec == Init /\ [][Next]_vars
=============================================================================
