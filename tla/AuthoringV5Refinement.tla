----------------------- MODULE AuthoringV5Refinement -----------------------
(***************************************************************************)
(* AuthoringV5 implements AuthoringCampaign.  Packs exist for a caller from *)
(* the transaction that makes them available; the transactions that insert  *)
(* members and packs before it, every save of a draft, the decisions of the *)
(* user, imports, crashes and restarts are steps a caller cannot see.       *)
(***************************************************************************)
EXTENDS AuthoringV5

CampaignPhase(r) ==
  CASE status[r] = "none"      -> "absent"
    [] status[r] = "preparing" -> "preparing"
    [] status[r] = "failed"    -> IF error[r] = "no_eligible" THEN "rejected" ELSE "failed"
    [] status[r] = "ready"     -> IF reqStatus[r] = "completed" THEN "completed" ELSE "ready"

CampaignState(p) ==
  CASE p.status = "available"           -> "available"
    [] p.status \in {"active", "saved"} -> "claimed"
    [] p.status = "completed"           -> "completed"

CampaignWork(r) ==
  IF status[r] # "ready" THEN <<>>
  ELSE [o \in DOMAIN pack[r] |->
          [state |-> CampaignState(pack[r][o]), members |-> pack[r][o].members]]

Campaign == INSTANCE AuthoringCampaign WITH
  Requested <- [r \in Request |-> Selected(r)],
  phase <- [r \in Request |-> CampaignPhase(r)],
  work  <- [r \in Request |-> CampaignWork(r)]

(* Seen from outside, preparation is one step: whatever chunks, failures    *)
(* and crashes it went through, callers get all packs at once, each is      *)
(* handed out and finished once, and the last one completes the request.    *)
ImplementsCampaign == Campaign!Spec
=============================================================================
