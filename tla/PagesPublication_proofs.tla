----------------------- MODULE PagesPublication_proofs -----------------------
(***************************************************************************)
(* For any number of flows and operations: nothing leaves the machine that  *)
(* the user did not confirm, whatever is staged, answered, lost or          *)
(* restarted meanwhile.                                                     *)
(*                                                                          *)
(* OnlyConfirmedLeaves speaks of requests under way only.  It is kept by    *)
(* the digest a flow was started with: PagesInv says that a flow past the   *)
(* comparison of digests carries a confirmed request, and that whatever is  *)
(* named anywhere has been staged.  What the row keeps of the outcomes      *)
(* (RowInv, LastInv) holds until a result of an earlier operation is        *)
(* recorded over the last one.                                              *)
(***************************************************************************)
EXTENDS PagesPublication, SequenceTheorems, TLAPS

Staged == 1 .. Len(requests)

(* The row, the dialog and the confirmations name staged requests.          *)
NamesStaged ==
  /\ mapping.pending \in Staged \cup {None}
  /\ review.staged \in Staged \cup {None}
  /\ confirmed \subseteq Staged

(* A flow was started for a confirmed request, and this is what it sends.   *)
Sends(r) ==
  /\ r.pc \notin {"idle", "threw"} => r.id \in confirmed
  /\ r.pc \in {"send", "sent", "answered"} => r.request \in confirmed

FlowsConfirmed == \A f \in Flows : Sends(flow[f])

(* What the host has or may still get was confirmed.                        *)
HostConfirmed == wire \subseteq confirmed /\ accepted \subseteq confirmed

PagesInv == TypeOK /\ NamesStaged /\ FlowsConfirmed /\ HostConfirmed

FlowRecord ==
  [pc : {"idle", "load", "send", "sent", "answered", "threw"},
   mode : {"none", "confirm", "retry", "remove"},
   id : Ids \union {None}, request : Ids \union {None},
   answer : {"none", "accepted", "conflict", "refused", "unavailable"},
   current : Ids \union {None}]

(* One flow moves on, or is over.                                           *)
LEMMA FlowMoves ==
  ASSUME TypeOK, FlowsConfirmed, NEW f \in Flows, UNCHANGED confirmed,
         \E r \in FlowRecord : Sends(r) /\ flow' = [flow EXCEPT ![f] = r]
  PROVE  flow' \in [Flows -> FlowRecord] /\ FlowsConfirmed'
<1>1. PICK r \in FlowRecord : Sends(r) /\ flow' = [flow EXCEPT ![f] = r]
  OBVIOUS
<1>2. flow \in [Flows -> FlowRecord]
  BY DEF TypeOK, FlowRecord
<1>3. flow' \in [Flows -> FlowRecord] /\ flow'[f] = r /\ \A g \in Flows \ {f} : flow'[g] = flow[g]
  <2> HIDE DEF FlowRecord
  <2> QED
    BY <1>1, <1>2
<1> QED
  BY <1>1, <1>3 DEF FlowsConfirmed, Sends

(* A flow that throws has forgotten what it was started for.                *)
LEMMA ThrownFlow ==
  ASSUME TypeOK, NEW f \in Flows, Throws(f)
  PROVE  \E r \in FlowRecord : Sends(r) /\ flow' = [flow EXCEPT ![f] = r]
<1> DEFINE r == [Idle EXCEPT !.pc = "threw", !.mode = flow[f].mode]
<1>1. r \in FlowRecord /\ r.pc = "threw"
  BY DEF FlowRecord, Idle, TypeOK
<1>2. flow' = [flow EXCEPT ![f] = r]
  BY DEF Throws
<1> HIDE DEF r
<1> QED
  BY <1>1, <1>2 DEF Sends

(* Nothing is staged at first.                                              *)
LEMMA InitPages == Init => PagesInv
<1> SUFFICES ASSUME Init PROVE PagesInv
  OBVIOUS
<1>1. Len(requests) = 0
  BY DEF Init
<1>2. TypeOK
  <2>1. crossed \in BOOLEAN
    BY DEF Init
  <2>2. flow \in [Flows -> FlowRecord]
    BY DEF Init, Idle, FlowRecord
  <2>3. site \in [Ids -> [object : Ids \union {None}, listed : BOOLEAN]]
    BY DEF Init
  <2> QED
    BY <1>1, <2>1, <2>2, <2>3, PagesAssumption DEF Init, TypeOK, FlowRecord, None
<1> QED
  BY <1>1, <1>2 DEF Init, PagesInv, NamesStaged, FlowsConfirmed, Sends, HostConfirmed, Idle, Staged

(* Staging adds one request and keeps the names of the others.              *)
LEMMA AppendRequest ==
  ASSUME TypeOK, Len(requests) < MaxRequests,
         NEW r \in [kind : {"publish", "remove"}, page : Ids \union {None}, parent : Ids \union {None}],
         requests' = Append(requests, r)
  PROVE  /\ requests' \in Seq([kind : {"publish", "remove"}, page : Ids \union {None},
                               parent : Ids \union {None}])
         /\ Len(requests') = Len(requests) + 1
         /\ Len(requests') \in Ids
         /\ Len(requests) \in Nat
         /\ Staged \subseteq Staged'
         /\ Len(requests') \in Staged'
BY PagesAssumption DEF TypeOK, Ids, Staged

(* A staged request names a page, itself if it founds one.                  *)
LEMMA TargetType ==
  ASSUME TypeOK, NEW n \in Staged
  PROVE  Target(n) \in Ids /\ n \in Ids
<1>1. n \in Ids
  BY PagesAssumption DEF TypeOK, Ids, Staged
<1>2. requests[n] \in [kind : {"publish", "remove"}, page : Ids \union {None}, parent : Ids \union {None}]
  <2>1. DOMAIN requests = Staged
    BY DEF TypeOK, Staged
  <2>2. \A S, q, i : q \in Seq(S) /\ i \in DOMAIN q => q[i] \in S
    BY ElementOfSeq
  <2> QED
    BY <2>1, <2>2 DEF TypeOK
<1>3. requests[n].page \in Ids \union {None}
  BY <1>2
<1> QED
  BY <1>1, <1>3 DEF Target

(* A dialog step that starts a flow for a staged request.                   *)
LEMMA StartFlow ==
  ASSUME TypeOK, FlowsConfirmed, NEW f \in Flows, NEW n \in Ids,
         NEW mode \in {"confirm", "retry", "remove"}, Starts(f, mode, n)
  PROVE  /\ flow' \in [Flows -> FlowRecord]
         /\ review' = [review EXCEPT !.phase = "busy"]
         /\ confirmed' = confirmed \union {n}
         /\ FlowsConfirmed'
<1>1. flow' \in [Flows -> FlowRecord]
  BY DEF TypeOK, Starts, Idle, FlowRecord
<1>2. FlowsConfirmed'
  <2> SUFFICES ASSUME NEW g \in Flows
               PROVE  Sends(flow[g])'
    BY DEF FlowsConfirmed
  <2>1. CASE g = f
    BY <2>1 DEF TypeOK, Starts, Idle, Sends
  <2>2. CASE g # f
    BY <2>2 DEF TypeOK, Starts, FlowsConfirmed, Sends
  <2> QED
    BY <2>1, <2>2
<1> QED
  BY <1>1, <1>2 DEF Starts

(* The steps of the dialog that start no flow.                              *)
LEMMA DialogKeeps ==
  ASSUME PagesInv, OpenReview \/ CloseReview \/ NothingStaged
  PROVE  PagesInv'
<1>1. review'.staged \in {review.staged, None}
      /\ review'.phase \in {"closed", "editing"}
      /\ review' = [phase |-> review'.phase, staged |-> review'.staged]
  BY DEF PagesInv, TypeOK, OpenReview, CloseReview, NothingStaged
<1>2. UNCHANGED <<row, flow, confirmed, host>>
  BY DEF OpenReview, CloseReview, NothingStaged
<1> USE DEF PagesInv
<1>3. TypeOK'
  BY <1>1, <1>2 DEF TypeOK, host, row
<1>4. NamesStaged'
  BY <1>1, <1>2 DEF NamesStaged, Staged, row
<1>5. FlowsConfirmed' /\ HostConfirmed'
  BY <1>2 DEF FlowsConfirmed, Sends, HostConfirmed, host
<1> QED
  BY <1>3, <1>4, <1>5

(* Staging a publication from the dialog.                                   *)
LEMMA FinalizeKeeps == PagesInv /\ FinalizeReview => PagesInv'
<1> SUFFICES ASSUME PagesInv, FinalizeReview PROVE PagesInv'
  OBVIOUS
<1> USE DEF PagesInv
<1>1. /\ Len(requests') \in Ids /\ Len(requests') \in Staged' /\ Staged \subseteq Staged'
      /\ Len(requests') = Len(requests) + 1 /\ Len(requests) \in Nat /\ Len(requests) < MaxRequests
      /\ requests' \in Seq([kind : {"publish", "remove"}, page : Ids \union {None},
                            parent : Ids \union {None}])
  <2>1. [kind |-> "publish", page |-> mapping.page, parent |-> mapping.object]
          \in [kind : {"publish", "remove"}, page : Ids \union {None}, parent : Ids \union {None}]
    BY DEF TypeOK
  <2> QED
    BY <2>1, AppendRequest DEF FinalizeReview, StagePublication
<1>2. mapping' \in [status : {"none", "live", "failed", "removed"}, page : Ids \union {None},
                    object : Ids \union {None}, pending : Ids \union {None}, error : BOOLEAN]
      /\ mapping'.pending = Len(requests')
  BY <1>1 DEF TypeOK, FinalizeReview, StagePublication
<1>3. review' \in [phase : {"closed", "editing", "finalized", "busy", "complete"},
                   staged : Ids \union {None}]
      /\ review'.staged \in {review.staged, Len(requests')}
  BY <1>1 DEF TypeOK, FinalizeReview
<1>4. UNCHANGED <<flow, confirmed, host>>
  BY DEF FinalizeReview
<1>5. TypeOK'
  <2>1. crossed' \in BOOLEAN
    BY DEF FinalizeReview, StagePublication
  <2> QED
    BY <1>1, <1>2, <1>3, <1>4, <2>1, PagesAssumption DEF TypeOK, host
<1>6. NamesStaged'
  BY <1>1, <1>2, <1>3, <1>4 DEF NamesStaged
<1>7. FlowsConfirmed' /\ HostConfirmed'
  BY <1>4 DEF FlowsConfirmed, Sends, HostConfirmed, host
<1> QED
  BY <1>5, <1>6, <1>7

(* A click starts a flow for a request that is staged.                      *)
LEMMA ClickKeeps ==
  ASSUME PagesInv, NEW f \in Flows,
         ConfirmPublish(f) \/ RetryPublication(f) \/ RetryRemoval(f) \/ ConfirmRemoval(f)
  PROVE  PagesInv'
<1> USE DEF PagesInv
<1>1. ASSUME NEW n \in Staged, NEW mode \in {"confirm", "retry", "remove"}, Starts(f, mode, n),
             UNCHANGED <<row, host>>
      PROVE  PagesInv'
  <2>1. n \in Ids
    BY <1>1, TargetType
  <2>2. /\ flow' \in [Flows -> FlowRecord] /\ review' = [review EXCEPT !.phase = "busy"]
        /\ confirmed' = confirmed \union {n} /\ FlowsConfirmed'
    BY <1>1, <2>1, StartFlow
  <2>3. TypeOK'
    BY <1>1, <2>1, <2>2 DEF TypeOK, FlowRecord, host, row
  <2>4. NamesStaged'
    BY <1>1, <2>2 DEF NamesStaged, Staged, TypeOK, row
  <2>5. HostConfirmed'
    BY <1>1, <2>2 DEF HostConfirmed, host
  <2> QED
    BY <2>2, <2>3, <2>4, <2>5
<1>2. CASE ConfirmPublish(f)
  BY <1>1, <1>2 DEF ConfirmPublish, NamesStaged
<1>3. CASE RetryPublication(f) \/ RetryRemoval(f)
  BY <1>1, <1>3 DEF RetryPublication, RetryRemoval, KindPending, NamesStaged
<1>4. ASSUME StageRemoval, Starts(f, "remove", Len(requests')), UNCHANGED host
      PROVE  PagesInv'
  <2>1. /\ Len(requests') \in Ids /\ Len(requests') \in Staged' /\ Staged \subseteq Staged'
        /\ Len(requests') = Len(requests) + 1 /\ Len(requests) \in Nat /\ Len(requests) < MaxRequests
        /\ requests' \in Seq([kind : {"publish", "remove"}, page : Ids \union {None},
                              parent : Ids \union {None}])
    <3>1. [kind |-> "remove", page |-> mapping.page, parent |-> None]
            \in [kind : {"publish", "remove"}, page : Ids \union {None}, parent : Ids \union {None}]
      BY DEF TypeOK
    <3> QED
      BY <1>4, <3>1, AppendRequest DEF StageRemoval
  <2>2. mapping' \in [status : {"none", "live", "failed", "removed"}, page : Ids \union {None},
                      object : Ids \union {None}, pending : Ids \union {None}, error : BOOLEAN]
        /\ mapping'.pending = Len(requests')
    BY <1>4, <2>1 DEF TypeOK, StageRemoval
  <2>3. /\ flow' \in [Flows -> FlowRecord] /\ review' = [review EXCEPT !.phase = "busy"]
        /\ confirmed' = confirmed \union {Len(requests')} /\ FlowsConfirmed'
    BY <1>4, <2>1, StartFlow
  <2>4. TypeOK'
    <3>1. Len(requests') <= MaxRequests
      BY <2>1, PagesAssumption
    <3>2. review' \in [phase : {"closed", "editing", "finalized", "busy", "complete"}, staged : Ids \union {None}]
      BY <2>3 DEF TypeOK
    <3>3. confirmed' \in SUBSET Ids
      BY <2>1, <2>3 DEF TypeOK
    <3>4. crossed' \in BOOLEAN
      BY <1>4 DEF StageRemoval
    <3> QED
      BY <1>4, <2>1, <2>2, <2>3, <3>1, <3>2, <3>3, <3>4 DEF TypeOK, FlowRecord, host
  <2>5. NamesStaged'
    BY <2>1, <2>2, <2>3 DEF NamesStaged, TypeOK
  <2>6. HostConfirmed'
    BY <1>4, <2>3 DEF HostConfirmed, host
  <2> QED
    BY <2>3, <2>4, <2>5, <2>6
<1>5. CASE ConfirmRemoval(f)
  BY <1>1, <1>4, <1>5 DEF ConfirmRemoval, Staged
<1> QED
  BY <1>2, <1>3, <1>4, <1>5

(* A flow goes on with the request it was started for.                      *)
LEMMA AdvanceKeeps ==
  ASSUME PagesInv, NEW f \in Flows, LoadStaged(f) \/ Send(f)
  PROVE  PagesInv'
<1> USE DEF PagesInv
<1>1. UNCHANGED <<row, review, confirmed, host>>
  BY DEF LoadStaged, Send
<1>2. \E r \in FlowRecord : Sends(r) /\ flow' = [flow EXCEPT ![f] = r]
  <2>1. flow[f] \in FlowRecord /\ flow[f].id \in confirmed /\ flow[f].pc # "idle"
    BY DEF LoadStaged, Send, TypeOK, FlowRecord, FlowsConfirmed, Sends
  <2>2. CASE Throws(f)
    BY <2>1, <2>2, ThrownFlow
  <2>3. CASE LoadStaged(f) /\ ~Throws(f)
    <3> DEFINE r == [flow[f] EXCEPT !.pc = "send", !.request = mapping.pending]
    <3>1. flow' = [flow EXCEPT ![f] = r] /\ mapping.pending = flow[f].id
      BY <2>3 DEF LoadStaged, Verified
    <3>2. r \in FlowRecord /\ r.id = flow[f].id /\ r.request = mapping.pending
      BY <2>1, <3>1 DEF FlowRecord
    <3> HIDE DEF r
    <3> QED
      BY <2>1, <3>1, <3>2 DEF Sends
  <2>4. CASE Send(f) /\ ~Throws(f)
    <3> DEFINE r == [flow[f] EXCEPT !.pc = "sent"]
    <3>1. flow' = [flow EXCEPT ![f] = r] /\ flow[f].request \in confirmed
      BY <2>4 DEF Send, FlowsConfirmed, Sends
    <3>2. r \in FlowRecord /\ r.id = flow[f].id /\ r.request = flow[f].request
      BY <2>1 DEF FlowRecord
    <3> HIDE DEF r
    <3> QED
      BY <2>1, <3>1, <3>2 DEF Sends
  <2> QED
    BY <2>2, <2>3, <2>4
<1>3. flow' \in [Flows -> FlowRecord] /\ FlowsConfirmed'
  BY <1>1, <1>2, FlowMoves
<1>4. TypeOK' /\ NamesStaged' /\ HostConfirmed'
  BY <1>1, <1>3 DEF TypeOK, FlowRecord, NamesStaged, HostConfirmed, Staged, host, row
<1> QED
  BY <1>3, <1>4

(* What the host does with a confirmed request.                             *)
LEMMA HostKeeps ==
  ASSUME PagesInv, NEW n \in confirmed,
         HostAccepts(n) \/ HostRefuses(n) \/ HostConflicts(n) \/ UNCHANGED <<site, accepted, refused>>
  PROVE  /\ site' \in [Ids -> [object : Ids \union {None}, listed : BOOLEAN]]
         /\ accepted' \in SUBSET Ids /\ refused' \in SUBSET Ids
         /\ accepted' \subseteq confirmed
<1> USE DEF PagesInv
<1>1. n \in Ids /\ Target(n) \in Ids
  BY TargetType DEF NamesStaged
<1>2. site' \in [Ids -> [object : Ids \union {None}, listed : BOOLEAN]]
  <2>1. site[Target(n)] \in [object : Ids \union {None}, listed : BOOLEAN]
    BY <1>1 DEF TypeOK
  <2>2. [site[Target(n)] EXCEPT !.listed = FALSE] \in [object : Ids \union {None}, listed : BOOLEAN]
    BY <2>1
  <2>3. [object |-> n, listed |-> TRUE] \in [object : Ids \union {None}, listed : BOOLEAN]
    BY <1>1
  <2>4. UNCHANGED site \/ \E x \in [object : Ids \union {None}, listed : BOOLEAN] :
                            site' = [site EXCEPT ![Target(n)] = x]
    BY <1>1, <2>2, <2>3 DEF TypeOK, HostAccepts, HostRefuses, HostConflicts
  <2> QED
    BY <1>1, <2>4 DEF TypeOK
<1>3. accepted' \in SUBSET Ids /\ refused' \in SUBSET Ids /\ accepted' \subseteq confirmed
  BY <1>1 DEF TypeOK, HostAccepts, HostRefuses, HostConflicts, HostConfirmed
<1> QED
  BY <1>2, <1>3

(* The answer, the lost answer and the late request.                        *)
LEMMA AnswerKeeps ==
  ASSUME PagesInv, NEW f \in Flows, HostAnswers(f) \/ TransportFails(f)
  PROVE  PagesInv'
<1> USE DEF PagesInv
<1> DEFINE n == flow[f].request
<1>0. UNCHANGED <<row, review, confirmed>> /\ flow[f].pc = "sent" /\ n \in confirmed
  BY DEF HostAnswers, TransportFails, FlowsConfirmed, Sends
<1>1. /\ site' \in [Ids -> [object : Ids \union {None}, listed : BOOLEAN]]
      /\ accepted' \in SUBSET Ids /\ refused' \in SUBSET Ids /\ accepted' \subseteq confirmed
  <2>1. HostAccepts(n) \/ HostRefuses(n) \/ HostConflicts(n) \/ UNCHANGED <<site, accepted, refused>>
    BY DEF HostAnswers, TransportFails
  <2> QED
    BY <1>0, <2>1, HostKeeps
<1>2. wire' \subseteq confirmed
  BY <1>0 DEF HostAnswers, TransportFails, HostConfirmed
<1>3. \E r \in FlowRecord : Sends(r) /\ flow' = [flow EXCEPT ![f] = r]
  <2>1. flow[f] \in FlowRecord /\ flow[f].id \in confirmed
    BY <1>0 DEF TypeOK, FlowRecord, FlowsConfirmed, Sends
  <2>2. CASE TransportFails(f)
    BY <1>0, <2>2, ThrownFlow DEF TransportFails
  <2>3. CASE HostAnswers(f)
    <3>1. site[Target(n)].object \in Ids \union {None}
      <4>1. Target(n) \in Ids
        BY <1>0, TargetType DEF NamesStaged
      <4> QED
        BY <4>1 DEF TypeOK
    <3>2. PICK answer \in {"accepted", "conflict", "refused", "unavailable"}, current \in Ids \union {None} :
            flow' = [flow EXCEPT ![f].pc = "answered", ![f].answer = answer, ![f].current = current]
      BY <2>3, <3>1 DEF HostAnswers
    <3> DEFINE r == [flow[f] EXCEPT !.pc = "answered", !.answer = answer, !.current = current]
    <3>3. flow' = [flow EXCEPT ![f] = r]
      BY <3>2 DEF TypeOK
    <3>4. r \in FlowRecord /\ r.id = flow[f].id /\ r.request = n
      BY <2>1 DEF FlowRecord
    <3> HIDE DEF r
    <3> QED
      BY <1>0, <2>1, <3>3, <3>4 DEF Sends
  <2> QED
    BY <2>2, <2>3
<1>4. flow' \in [Flows -> FlowRecord] /\ FlowsConfirmed'
  BY <1>0, <1>3, FlowMoves
<1>6. TypeOK'
  BY <1>0, <1>1, <1>2, <1>4 DEF TypeOK, FlowRecord, row
<1> QED
  BY <1>0, <1>1, <1>2, <1>4, <1>6 DEF NamesStaged, HostConfirmed, Staged, row

LEMMA LateKeeps == PagesInv /\ LateArrival => PagesInv'
<1> SUFFICES ASSUME PagesInv, LateArrival PROVE PagesInv'
  OBVIOUS
<1> USE DEF PagesInv
<1>1. PICK n \in wire : (HostAccepts(n) \/ HostRefuses(n)) /\ wire' = wire \ {n}
  BY DEF LateArrival
<1>2. n \in confirmed
  BY DEF HostConfirmed
<1>3. /\ site' \in [Ids -> [object : Ids \union {None}, listed : BOOLEAN]]
      /\ accepted' \in SUBSET Ids /\ refused' \in SUBSET Ids /\ accepted' \subseteq confirmed
  BY <1>1, <1>2, HostKeeps
<1>4. UNCHANGED <<row, review, flow, confirmed>>
  BY DEF LateArrival, dialog
<1> QED
  BY <1>1, <1>3, <1>4 DEF TypeOK, NamesStaged, FlowsConfirmed, Sends, HostConfirmed, Staged, row

(* The end of a flow: its result is recorded or not, and it is forgotten.   *)
LEMMA RecordedRow ==
  ASSUME PagesInv, NEW f \in Flows,
         Published(f) \/ PublishFailed(f) \/ Withdrawn(f) \/ RemovalFailed(f) \/ ConfirmThrew(f) \/ OtherThrew(f)
  PROVE  /\ mapping' \in [status : {"none", "live", "failed", "removed"}, page : Ids \union {None},
                          object : Ids \union {None}, pending : Ids \union {None}, error : BOOLEAN]
         /\ mapping'.pending \in {mapping.pending, None}
<1> USE DEF PagesInv
<1>1. CASE Published(f)
  <2>1. flow[f].request \in Staged
    BY <1>1 DEF Published, Answered, FlowsConfirmed, Sends, NamesStaged
  <2>2. flow[f].request \in Ids /\ Target(flow[f].request) \in Ids
    BY <2>1, TargetType
  <2> QED
    <3>1. RecordPublication(flow[f].request) \/ UNCHANGED mapping
      BY <1>1 DEF Published, NotRecorded
    <3>2. CASE RecordPublication(flow[f].request)
      BY <2>2, <3>2 DEF RecordPublication
    <3>3. CASE UNCHANGED mapping
      BY <3>3 DEF TypeOK
    <3> QED
      BY <3>1, <3>2, <3>3
<1>2. ASSUME NEW retryable \in BOOLEAN, NEW current \in Ids \union {None}, RecordFailure(retryable, current)
      PROVE  /\ mapping' \in [status : {"none", "live", "failed", "removed"}, page : Ids \union {None},
                              object : Ids \union {None}, pending : Ids \union {None}, error : BOOLEAN]
             /\ mapping'.pending \in {mapping.pending, None}
  BY <1>2 DEF RecordFailure, TypeOK
<1>3. flow[f].current \in Ids \union {None} /\ None \in Ids \union {None}
  BY DEF TypeOK
<1>4. CASE PublishFailed(f)
  <2>1. Retryables(f) \subseteq BOOLEAN
    BY DEF Retryables
  <2> QED
    BY <1>2, <1>3, <1>4, <2>1 DEF PublishFailed, NotRecorded, TypeOK
<1>5. CASE Withdrawn(f)
  BY <1>5 DEF Withdrawn, NotRecorded, MarkRemoved, TypeOK
<1>6. CASE RemovalFailed(f) \/ ConfirmThrew(f)
  <2>1. (flow[f].answer = "unavailable") \in BOOLEAN
    OBVIOUS
  <2>2. CASE RemovalFailed(f)
    <3>1. RecordFailure(flow[f].answer = "unavailable", None) \/ UNCHANGED mapping
      BY <2>2 DEF RemovalFailed, NotRecorded
    <3> QED
      BY <1>2, <1>3, <2>1, <3>1 DEF TypeOK
  <2>3. CASE ConfirmThrew(f)
    <3>1. RecordFailure(TRUE, None) \/ UNCHANGED mapping
      BY <2>3 DEF ConfirmThrew
    <3> QED
      BY <1>2, <1>3, <3>1 DEF TypeOK
  <2> QED
    BY <1>6, <2>2, <2>3
<1>7. CASE OtherThrew(f)
  BY <1>7 DEF OtherThrew, row, TypeOK
<1> QED
  BY <1>1, <1>4, <1>5, <1>6, <1>7

LEMMA ResultKeeps ==
  ASSUME PagesInv, NEW f \in Flows,
         Published(f) \/ PublishFailed(f) \/ Withdrawn(f) \/ RemovalFailed(f) \/ ConfirmThrew(f) \/ OtherThrew(f)
  PROVE  PagesInv'
<1> USE DEF PagesInv
<1>1. UNCHANGED <<requests, confirmed, host>>
  BY DEF Published, PublishFailed, Withdrawn, RemovalFailed, ConfirmThrew, OtherThrew, row
<1>2. /\ mapping' \in [status : {"none", "live", "failed", "removed"}, page : Ids \union {None},
                       object : Ids \union {None}, pending : Ids \union {None}, error : BOOLEAN]
      /\ mapping'.pending \in {mapping.pending, None}
  BY RecordedRow
<1>3. \/ Throws(f) /\ UNCHANGED review /\ flow[f].pc # "idle"
      \/ \E phase \in {"complete", "editing", "finalized"} : Ends(f, phase)
  BY DEF Published, PublishFailed, Withdrawn, RemovalFailed, ConfirmThrew, OtherThrew,
         Recorded, NotRecorded, Answered
<1>4. review' \in [phase : {"closed", "editing", "finalized", "busy", "complete"}, staged : Ids \union {None}]
      /\ review'.staged = review.staged
  BY <1>3 DEF TypeOK, Ends, Patch
<1>5. \E r \in FlowRecord : Sends(r) /\ flow' = [flow EXCEPT ![f] = r]
  <2>1. CASE Throws(f) /\ flow[f].pc # "idle"
    BY <2>1, ThrownFlow
  <2>2. CASE flow' = [flow EXCEPT ![f] = Idle]
    <3>1. Idle \in FlowRecord /\ Idle.pc = "idle"
      BY DEF Idle, FlowRecord
    <3> QED
      BY <2>2, <3>1 DEF Sends
  <2> QED
    BY <1>3, <2>1, <2>2 DEF Ends
<1>6. flow' \in [Flows -> FlowRecord] /\ FlowsConfirmed'
  BY <1>1, <1>5, FlowMoves
<1>7. TypeOK'
  <2>1. crossed' \in BOOLEAN
    <3>1. crossed' = crossed \/ \E same \in BOOLEAN : crossed' = (crossed \/ same)
      BY DEF Published, PublishFailed, Withdrawn, RemovalFailed, ConfirmThrew, OtherThrew,
             Recorded, NotRecorded, row
    <3> QED
      BY <3>1 DEF TypeOK
  <2> QED
    BY <1>1, <1>2, <1>4, <1>6, <2>1 DEF TypeOK, FlowRecord, host
<1>8. NamesStaged' /\ HostConfirmed'
  BY <1>1, <1>2, <1>4 DEF NamesStaged, HostConfirmed, Staged, host
<1> QED
  BY <1>6, <1>7, <1>8

(* The application quits: what was sent may still arrive.                   *)
LEMMA QuitKeeps == PagesInv /\ Quit => PagesInv'
<1> SUFFICES ASSUME PagesInv, Quit PROVE PagesInv'
  OBVIOUS
<1> USE DEF PagesInv
<1>1. wire' \subseteq confirmed
  BY DEF Quit, FlowsConfirmed, Sends, HostConfirmed
<1>2. flow' \in [Flows -> FlowRecord] /\ \A f \in Flows : flow'[f].pc = "idle"
  BY DEF Quit, Idle, FlowRecord
<1>3. TypeOK'
  BY <1>1, <1>2 DEF Quit, TypeOK, FlowRecord, row
<1> QED
  BY <1>1, <1>2, <1>3 DEF Quit, NamesStaged, FlowsConfirmed, Sends, HostConfirmed, Staged, row

-----------------------------------------------------------------------------
LEMMA PagesStep == PagesInv /\ [Next]_vars => PagesInv'
<1> SUFFICES ASSUME PagesInv, [Next]_vars PROVE PagesInv'
  OBVIOUS
<1>1. CASE UNCHANGED vars
  BY <1>1 DEF vars, dialog, host, PagesInv, TypeOK, NamesStaged, FlowsConfirmed, Sends, HostConfirmed, Staged, row
<1>2. CASE Next
  <2>1. CASE \E f \in Flows : FlowStep(f)
    BY <2>1, AdvanceKeeps, AnswerKeeps, ResultKeeps DEF FlowStep
  <2>2. CASE \E f \in Flows :
               ConfirmPublish(f) \/ RetryPublication(f) \/ RetryRemoval(f) \/ ConfirmRemoval(f)
    BY <2>2, ClickKeeps
  <2> QED
    BY <1>2, <2>1, <2>2, DialogKeeps, FinalizeKeeps, LateKeeps, QuitKeeps DEF Next
<1> QED
  BY <1>1, <1>2

LEMMA PagesInvHolds == Spec => []PagesInv
  BY InitPages, PagesStep, PTL DEF Spec

(* The row, the dialog, the flows and the host stay within their types.     *)
THEOREM PagesTypesHold == Spec => []TypeOK
<1>1. PagesInv => TypeOK
  BY DEF PagesInv
<1> QED
  BY <1>1, PagesInvHolds, PTL

(* What leaves the machine is a request the user confirmed, however many    *)
(* flows run: a flow compares digests when it loads the staged bytes, and   *)
(* carries those bytes from then on (verifyPendingDigest).                  *)
THEOREM OnlyConfirmedLeavesHolds == Spec => []OnlyConfirmedLeaves
<1>1. PagesInv => OnlyConfirmedLeaves
  BY DEF PagesInv, FlowsConfirmed, Sends, HostConfirmed, OnlyConfirmedLeaves
<1> QED
  BY <1>1, PagesInvHolds, PTL

-----------------------------------------------------------------------------
(***************************************************************************)
(* What the row keeps of the outcomes, for any number of handlers.          *)
(*                                                                          *)
(* The argument is about the operation staged last.  As long as no result   *)
(* of an earlier one is recorded over it (crossed), it is staged, recorded, *)
(* or left the row with an answer after which it can no longer be accepted: *)
(* it was refused, or its parent was replaced, and objects never come back. *)
(* A second handler that carries the same operation finds that answer too.  *)
(***************************************************************************)
Latest == Len(requests)

(* A handler past the comparison of digests and before its result.          *)
Carries(r) == r.pc \in {"send", "sent", "answered"}

(* The host will never accept this operation any more.                      *)
Hopeless(n) == n \notin accepted /\ (n \in refused \/ ~Fits(n))

(* The page of the row does not show the object of the row.                 *)
Unlisted == ~site[mapping.page].listed \/ site[mapping.page].object # mapping.object

(* Objects and parents are accepted publications.                           *)
ObjectsAccepted ==
  /\ \A p \in Ids : site[p].object \in accepted \cup {None}
  /\ mapping.page # None => mapping.object \in accepted
  /\ \A n \in Staged : Revises(n) => requests[n].parent \in accepted

(* Only the last operation is staged, and a removal names a page.           *)
RowInv ==
  /\ mapping.pending \in {None, Latest}
  /\ mapping.status = "removed" => mapping.pending = None
  /\ \A n \in Staged : requests[n].kind = "remove" => requests[n].page # None /\ mapping.page # None

(* What a handler carries fits its mode, and its answer is what the host    *)
(* did, also when it is recorded late.                                      *)
Truthful(r) ==
  /\ Carries(r) => requests[r.request].kind = IF r.mode = "remove" THEN "remove" ELSE "publish"
  /\ r.current \in accepted \cup {None}
  /\ r.pc = "answered" => /\ r.answer = "accepted" => r.request \in accepted
                          /\ r.answer \in {"conflict", "refused"} => Hopeless(r.request)
                          /\ r.answer # "conflict" => r.current = None

HandlersInv == \A f \in Flows : Truthful(flow[f])

(* The row tells of the last operation what became of it.                   *)
Told(n) ==
  \/ mapping.pending = n
  \/ Hopeless(n)
  \/ n \in accepted /\ requests[n].kind = "publish" /\ mapping.object = n /\ mapping.page = Target(n)
  \/ n \in accepted /\ requests[n].kind = "remove" /\ mapping.status = "removed"

(* A removal carried out shows on the site.                                 *)
RemovalShows(n) ==
  requests[n].kind = "remove" => requests[n].page = mapping.page /\ (n \in accepted => Unlisted)

LastInv ==
  ~crossed =>
    /\ Latest # None => Told(Latest) /\ RemovalShows(Latest)
    /\ mapping.status = "removed" =>
         Latest # None /\ requests[Latest].kind = "remove" /\ Latest \in accepted

OutcomeInv == ObjectsAccepted /\ RowInv /\ HandlersInv /\ LastInv
PublicationInv == PagesInv /\ OutcomeInv

RowRecord == [status : {"none", "live", "failed", "removed"}, page : Ids \union {None},
              object : Ids \union {None}, pending : Ids \union {None}, error : BOOLEAN]
RequestRecord == [kind : {"publish", "remove"}, page : Ids \union {None}, parent : Ids \union {None}]

(* The types the lemmas below need, element by element.                     *)
LEMMA PagesTypes ==
  ASSUME TypeOK
  PROVE  /\ mapping \in RowRecord
         /\ flow \in [Flows -> FlowRecord]
         /\ \A p \in Ids : site[p] \in [object : Ids \union {None}, listed : BOOLEAN]
         /\ site \in [Ids -> [object : Ids \union {None}, listed : BOOLEAN]]
         /\ \A n \in Staged : requests[n] \in RequestRecord /\ n \in Ids /\ Target(n) \in Ids
         /\ None \notin Ids /\ Latest \in Nat /\ (Latest # None => Latest \in Staged)
         /\ Latest \in Ids \union {None}
<1>1. mapping \in RowRecord /\ flow \in [Flows -> FlowRecord]
      /\ site \in [Ids -> [object : Ids \union {None}, listed : BOOLEAN]]
  BY DEF TypeOK, RowRecord, FlowRecord
<1>2. ASSUME NEW n \in Staged
      PROVE  requests[n] \in RequestRecord /\ n \in Ids /\ Target(n) \in Ids
  <2>1. requests[n] \in RequestRecord
    <3>1. DOMAIN requests = Staged
      BY DEF TypeOK, Staged
    <3>2. \A S, q, i : q \in Seq(S) /\ i \in DOMAIN q => q[i] \in S
      BY ElementOfSeq
    <3> QED
      BY <3>1, <3>2 DEF TypeOK, RequestRecord
  <2> QED
    BY <2>1, TargetType
<1>3. None \notin Ids /\ Latest \in Nat /\ (Latest # None => Latest \in Staged)
      /\ Latest \in Ids \union {None}
  BY PagesAssumption DEF TypeOK, Ids, None, Latest, Staged
<1> QED
  BY <1>1, <1>2, <1>3

(* A publication newly accepted puts an object nobody has seen on its page. *)
LEMMA Accepting ==
  ASSUME TypeOK, NEW n \in Staged, HostAccepts(n)
  PROVE  /\ accepted' = accepted \cup {n} /\ refused' = refused
         /\ n \in accepted => site' = site
         /\ n \notin accepted => n \notin refused /\ Fits(n)
         /\ n \notin accepted /\ requests[n].kind = "remove" =>
              \A p \in Ids : /\ site'[p].object = site[p].object
                             /\ site'[p].listed = IF p = Target(n) THEN FALSE ELSE site[p].listed
         /\ n \notin accepted /\ requests[n].kind # "remove" =>
              \A p \in Ids : IF p = Target(n) THEN site'[p].object = n ELSE site'[p] = site[p]
<1>1. CASE n \in accepted
  BY <1>1 DEF HostAccepts
<1>2. CASE n \notin accepted
  <2>1. /\ accepted' = accepted \cup {n} /\ refused' = refused /\ n \notin refused /\ Fits(n)
        /\ site' = [site EXCEPT ![Target(n)] =
                      IF requests[n].kind = "remove" THEN [site[Target(n)] EXCEPT !.listed = FALSE]
                      ELSE [object |-> n, listed |-> TRUE]]
    BY <1>2 DEF HostAccepts
  <2>2. site \in [Ids -> [object : Ids \union {None}, listed : BOOLEAN]] /\ Target(n) \in Ids
    BY PagesTypes
  <2>3. CASE requests[n].kind = "remove"
    BY <1>2, <2>1, <2>2, <2>3
  <2>4. CASE requests[n].kind # "remove"
    BY <1>2, <2>1, <2>2, <2>4
  <2> QED
    BY <2>3, <2>4
<1> QED
  BY <1>1, <1>2

(* The host deals with a confirmed request, whoever sent it.                *)
LEMMA HostProgress ==
  ASSUME PublicationInv, NEW n \in confirmed, UNCHANGED row,
         HostAccepts(n) \/ HostRefuses(n) \/ UNCHANGED <<site, accepted, refused>>
  PROVE  /\ ObjectsAccepted' /\ RowInv' /\ LastInv'
         /\ \A m \in Staged : Hopeless(m) => Hopeless(m)'
         /\ accepted \subseteq accepted'
         /\ \A g \in Flows : \A r \in FlowRecord : r = flow[g] => Truthful(r)'
<1> USE DEF PublicationInv, OutcomeInv, PagesInv
<1>0. /\ mapping \in RowRecord
      /\ \A m \in Staged : requests[m] \in RequestRecord /\ m \in Ids /\ Target(m) \in Ids
      /\ None \notin Ids
      /\ n \in Staged /\ Staged' = Staged /\ Latest' = Latest /\ accepted \subseteq Staged
      /\ (Latest # None => Latest \in Staged)
      /\ confirmed \subseteq Staged
      /\ \A m \in Staged : Target(m)' = Target(m) /\ Revises(m)' = Revises(m)
      /\ UNCHANGED <<requests, mapping, crossed>>
  <2>1. n \in Staged /\ Staged' = Staged /\ Latest' = Latest /\ confirmed \subseteq Staged
        /\ accepted \subseteq Staged
    BY DEF NamesStaged, HostConfirmed, Staged, Latest, row
  <2>2. \A m \in Staged : Target(m)' = Target(m) /\ Revises(m)' = Revises(m)
    BY DEF Target, Revises, row
  <2> QED
    BY <2>1, <2>2, PagesTypes DEF row
<1>1. /\ accepted \subseteq accepted' /\ accepted' \subseteq accepted \cup {n}
      /\ n \in accepted' /\ n \notin accepted => HostAccepts(n) /\ Fits(n) /\ n \notin refused
      /\ refused \subseteq refused'
  BY <1>0, Accepting DEF HostRefuses
<1>2. ASSUME NEW p \in Ids
      PROVE  \/ site'[p].object = site[p].object /\ (site'[p].listed => site[p].listed)
             \/ site'[p].object = n /\ n \in accepted' \ accepted
  <2>1. CASE HostAccepts(n) /\ n \notin accepted
    <3>1. /\ accepted' = accepted \cup {n}
          /\ requests[n].kind = "remove" =>
               \A q \in Ids : /\ site'[q].object = site[q].object
                              /\ site'[q].listed = IF q = Target(n) THEN FALSE ELSE site[q].listed
          /\ requests[n].kind # "remove" =>
               \A q \in Ids : IF q = Target(n) THEN site'[q].object = n ELSE site'[q] = site[q]
      BY <1>0, <2>1, Accepting
    <3>2. CASE requests[n].kind = "remove"
      BY <3>1, <3>2
    <3>3. CASE requests[n].kind # "remove"
      BY <2>1, <3>1, <3>3
    <3> QED
      BY <3>2, <3>3
  <2>2. CASE HostAccepts(n) /\ n \in accepted
    BY <2>2 DEF HostAccepts
  <2>3. CASE HostRefuses(n) \/ UNCHANGED <<site, accepted, refused>>
    BY <2>3 DEF HostRefuses
  <2> QED
    BY <2>1, <2>2, <2>3
<1>3. ASSUME NEW m \in Staged, Hopeless(m)
      PROVE  Hopeless(m)'
  <2>1. m \notin accepted'
    BY <1>1, <1>3 DEF Hopeless
  <2>2. CASE m \in refused
    BY <1>1, <2>1, <2>2 DEF Hopeless
  <2>3. CASE ~Fits(m)
    <3>1. /\ requests[m].page \in Ids /\ Revises(m)
          /\ site[requests[m].page].object # requests[m].parent /\ requests[m].parent \in accepted
      BY <1>0, <2>3 DEF Fits, Revises, RequestRecord, ObjectsAccepted
    <3>2. site'[requests[m].page].object # requests[m].parent
      BY <1>2, <3>1
    <3>3. ~Fits(m)'
      BY <1>0, <3>1, <3>2 DEF Fits, Revises
    <3> QED
      BY <2>1, <3>3 DEF Hopeless
  <2> QED
    BY <1>3, <2>2, <2>3 DEF Hopeless
<1>4. ASSUME mapping.page # None, Unlisted
      PROVE  Unlisted'
  <2>1. mapping.page \in Ids /\ mapping.object \in accepted
    BY <1>0, <1>4 DEF RowRecord, ObjectsAccepted
  <2>2. site'[mapping.page].object # mapping.object \/ ~site'[mapping.page].listed
    BY <1>2, <1>4, <2>1 DEF Unlisted
  <2> QED
    BY <1>0, <2>2 DEF Unlisted
<1>5. ASSUME requests[n].kind = "remove", requests[n].page = mapping.page, n \in accepted', n \notin accepted
      PROVE  Unlisted'
  <2>1. Target(n) = mapping.page /\ mapping.page \in Ids
    BY <1>0, <1>5 DEF RowInv, Target
  <2>2. ~site'[mapping.page].listed
    BY <1>0, <1>1, <1>5, <2>1, Accepting
  <2> QED
    BY <1>0, <2>2 DEF Unlisted
<1>6. ObjectsAccepted'
  <2>1. \A p \in Ids : site'[p].object \in accepted' \cup {None}
    BY <1>1, <1>2 DEF ObjectsAccepted
  <2>2. mapping'.page # None => mapping'.object \in accepted'
    BY <1>0, <1>1 DEF ObjectsAccepted
  <2>3. \A m \in Staged' : Revises(m)' => requests'[m].parent \in accepted'
    BY <1>0, <1>1 DEF ObjectsAccepted
  <2> QED
    BY <2>1, <2>2, <2>3 DEF ObjectsAccepted
<1>7. RowInv'
  BY <1>0 DEF RowInv
<1>8. LastInv'
  <2> SUFFICES ASSUME ~crossed
               PROVE  /\ Latest # None => Told(Latest)' /\ RemovalShows(Latest)'
                      /\ mapping.status = "removed" =>
                           Latest # None /\ requests[Latest].kind = "remove" /\ Latest \in accepted'
    BY <1>0 DEF LastInv, Told, RemovalShows, Hopeless, Fits, Revises, Target
  <2>1. ASSUME Latest # None
        PROVE  Told(Latest)'
    <3>1. Told(Latest) /\ Latest \in Staged
      BY <1>0, <2>1 DEF LastInv
    <3>2. CASE Hopeless(Latest)
      BY <1>0, <1>3, <3>1, <3>2 DEF Told, Hopeless, Fits, Revises
    <3>3. CASE ~Hopeless(Latest)
      BY <1>0, <1>1, <3>1, <3>3 DEF Told
    <3> QED
      BY <3>2, <3>3
  <2>2. ASSUME Latest # None, requests[Latest].kind = "remove"
        PROVE  requests[Latest].page = mapping.page /\ (Latest \in accepted' => Unlisted')
    <3>1. requests[Latest].page = mapping.page /\ mapping.page # None
          /\ (Latest \in accepted => Unlisted)
      BY <1>0, <2>2 DEF LastInv, RemovalShows, RowInv
    <3> QED
      BY <1>1, <1>4, <1>5, <2>2, <3>1
  <2> QED
    BY <1>0, <1>1, <2>1, <2>2 DEF LastInv, RemovalShows
<1>9. ASSUME NEW g \in Flows, NEW r \in FlowRecord, r = flow[g]
      PROVE  Truthful(r)'
  <2>1. Truthful(r) /\ (Carries(r) => r.request \in Staged)
    BY <1>0, <1>9 DEF HandlersInv, FlowsConfirmed, Sends, Carries
  <2>2. r.pc = "answered" => r.request \in Staged
    BY <2>1 DEF Carries
  <2> QED
    BY <1>0, <1>1, <1>3, <2>1, <2>2 DEF Truthful, Carries
<1> QED
  BY <1>1, <1>3, <1>6, <1>7, <1>8, <1>9

(* What the handlers know afterwards, said of the records themselves.       *)
LEMMA HandlersNext ==
  ASSUME flow' \in [Flows -> FlowRecord],
         \A g \in Flows : \A r \in FlowRecord : r = flow'[g] => Truthful(r)'
  PROVE  HandlersInv'
<1> SUFFICES ASSUME NEW g \in Flows
             PROVE  Truthful(flow[g])'
  BY DEF HandlersInv
<1>1. PICK r \in FlowRecord : r = flow'[g]
  BY Zenon
<1>2. Truthful(r)'
  BY <1>1
<1> QED
  BY <1>1, <1>2 DEF Truthful, Carries, Hopeless, Fits, Revises

(* Where row and host stay, only the handlers can change.                   *)
LEMMA RowAndHostKept ==
  ASSUME OutcomeInv, UNCHANGED <<row, site, accepted, refused>>,
         flow' \in [Flows -> FlowRecord],
         \A g \in Flows : \A r \in FlowRecord : r = flow'[g] => Truthful(r)
  PROVE  OutcomeInv'
<1> USE DEF OutcomeInv
<1>1. ObjectsAccepted' /\ RowInv'
  BY DEF ObjectsAccepted, RowInv, Revises, Staged, Latest, row
<1>2. LastInv'
  BY DEF LastInv, Told, RemovalShows, Latest, Unlisted, Target, Hopeless, Fits, Revises, row
<1>3. ASSUME NEW g \in Flows, NEW r \in FlowRecord, r = flow'[g]
      PROVE  Truthful(r)'
  <2>1. Truthful(r)
    BY <1>3
  <2> QED
    BY <2>1 DEF Truthful, Carries, Hopeless, Fits, Revises, row
<1> QED
  BY <1>1, <1>2, <1>3, HandlersNext

(* Staging: the new operation is the one the row tells of.                  *)
LEMMA StagedNext ==
  ASSUME PublicationInv, UNCHANGED host,
         Len(requests) < MaxRequests, NEW x \in RequestRecord, requests' = Append(requests, x),
         x.page = mapping.page,
         x.kind = "publish" => x.parent = mapping.object,
         x.kind = "remove" => mapping.page # None,
         mapping'.pending = Len(requests'), mapping'.page = mapping.page,
         mapping'.object = mapping.object, mapping'.status # "removed",
         flow' \in [Flows -> FlowRecord],
         \A g \in Flows : flow'[g] = flow[g] \/ (flow'[g].pc = "load" /\ flow'[g].current = None)
  PROVE  OutcomeInv'
<1> USE DEF PublicationInv, OutcomeInv, PagesInv
<1>0. /\ Latest' = Latest + 1 /\ Latest \in Nat /\ Staged' = Staged \cup {Latest'} /\ Latest' \notin Staged
      /\ requests'[Latest'] = x /\ \A m \in Staged : requests'[m] = requests[m]
      /\ accepted \subseteq Staged /\ confirmed \subseteq Staged
      /\ None \notin Staged /\ x.kind \in {"publish", "remove"} /\ Latest' # None
  <2>1. Latest' = Latest + 1 /\ Latest \in Nat /\ Latest' \notin Staged /\ Latest' # None
        /\ Staged' = Staged \cup {Latest'} /\ None \notin Staged
    BY AppendRequest DEF Latest, Staged, TypeOK, RequestRecord, None
  <2>2. requests'[Latest'] = x /\ \A m \in Staged : requests'[m] = requests[m]
    BY <2>1 DEF TypeOK, Staged, Latest, RequestRecord
  <2>3. accepted \subseteq Staged /\ confirmed \subseteq Staged
    BY DEF NamesStaged, HostConfirmed
  <2> QED
    BY <2>1, <2>2, <2>3 DEF RequestRecord
<1>1. \A m \in Staged : Revises(m)' = Revises(m) /\ Hopeless(m)' = Hopeless(m)
  <2>1. \A m \in Staged : Revises(m)' = Revises(m) /\ Fits(m)' = Fits(m)
    BY <1>0 DEF Revises, Fits, host
  <2> QED
    BY <2>1 DEF Hopeless, host
<1>2. ObjectsAccepted'
  <2>1. ASSUME NEW m \in Staged', Revises(m)'
        PROVE  requests'[m].parent \in accepted'
    <3>1. CASE m \in Staged
      BY <1>0, <1>1, <2>1, <3>1 DEF ObjectsAccepted, host
    <3>2. CASE m = Latest'
      BY <1>0, <2>1, <3>2 DEF Revises, ObjectsAccepted, host
    <3> QED
      BY <1>0, <3>1, <3>2
  <2>2. \A p \in Ids : site'[p].object \in accepted' \cup {None}
    BY DEF ObjectsAccepted, host
  <2>3. mapping'.page # None => mapping'.object \in accepted'
    BY DEF ObjectsAccepted, host
  <2> QED
    BY <2>1, <2>2, <2>3 DEF ObjectsAccepted
<1>3. RowInv'
  <2>1. mapping'.pending = Latest'
    BY DEF Latest
  <2> QED
    BY <1>0, <2>1 DEF RowInv
<1>4. LastInv'
  <2>1. Told(Latest)'
    BY DEF Told, Latest
  <2>2. RemovalShows(Latest)'
    BY <1>0 DEF RemovalShows, host
  <2> QED
    BY <2>1, <2>2 DEF LastInv
<1>5. ASSUME NEW g \in Flows, NEW r \in FlowRecord, r = flow'[g]
      PROVE  Truthful(r)'
  <2>1. CASE r = flow[g]
    <3>1. Truthful(r)
      BY <2>1 DEF HandlersInv
    <3>2. Carries(r) => r.request \in Staged
      BY <1>0, <2>1 DEF FlowsConfirmed, Sends, Carries
    <3> QED
      BY <1>0, <1>1, <3>1, <3>2 DEF Truthful, Carries, host
  <2>2. CASE r.pc = "load" /\ r.current = None
    BY <2>2 DEF Carries, Truthful
  <2> QED
    BY <1>5, <2>1, <2>2
<1> QED
  BY <1>2, <1>3, <1>4, <1>5, HandlersNext

LEMMA DialogOutcome ==
  ASSUME PublicationInv, OpenReview \/ CloseReview \/ NothingStaged \/ UNCHANGED vars
  PROVE  OutcomeInv'
<1>1. UNCHANGED <<row, flow, site, accepted, refused>>
  BY DEF OpenReview, CloseReview, NothingStaged, vars, dialog, host
<1>2. flow \in [Flows -> FlowRecord]
  BY PagesTypes DEF PublicationInv, PagesInv
<1>3. \A g \in Flows : \A r \in FlowRecord : r = flow'[g] => Truthful(r)
  BY <1>1 DEF PublicationInv, OutcomeInv, HandlersInv
<1> QED
  BY <1>1, <1>2, <1>3, RowAndHostKept DEF PublicationInv

LEMMA ClickOutcome ==
  ASSUME PublicationInv, NEW f \in Flows,
         ConfirmPublish(f) \/ RetryPublication(f) \/ RetryRemoval(f) \/ ConfirmRemoval(f),
         flow' \in [Flows -> FlowRecord]
  PROVE  OutcomeInv'
<1> USE DEF PublicationInv, PagesInv
<1>1. ASSUME NEW mode, NEW n, Starts(f, mode, n)
      PROVE  \A g \in Flows : flow'[g] = flow[g] \/ (flow'[g].pc = "load" /\ flow'[g].current = None)
  <2>1. flow' = [flow EXCEPT ![f] = [Idle EXCEPT !.pc = "load", !.mode = mode, !.id = n]]
    BY <1>1 DEF Starts
  <2> QED
    BY <2>1, PagesTypes DEF Idle
<1>2. ASSUME NEW mode, NEW n, Starts(f, mode, n), UNCHANGED <<row, host>>
      PROVE  OutcomeInv'
  <2>1. ASSUME NEW g \in Flows, NEW r \in FlowRecord, r = flow'[g]
        PROVE  Truthful(r)
    <3>1. CASE r = flow[g]
      BY <3>1 DEF OutcomeInv, HandlersInv
    <3>2. CASE r.pc = "load" /\ r.current = None
      BY <3>2 DEF Carries, Truthful
    <3> QED
      BY <1>1, <1>2, <2>1, <3>1, <3>2
  <2> QED
    BY <1>2, <2>1, RowAndHostKept DEF host
<1>3. CASE ConfirmPublish(f) \/ RetryPublication(f) \/ RetryRemoval(f)
  BY <1>2, <1>3 DEF ConfirmPublish, RetryPublication, RetryRemoval
<1>4. ASSUME StageRemoval, Starts(f, "remove", Len(requests')), UNCHANGED host
      PROVE  OutcomeInv'
  <2> DEFINE x == [kind |-> "remove", page |-> mapping.page, parent |-> None]
  <2>1. x \in RequestRecord /\ mapping \in RowRecord
    BY PagesTypes DEF RequestRecord, RowRecord
  <2>2. /\ Len(requests) < MaxRequests /\ requests' = Append(requests, x) /\ mapping.page # None
        /\ mapping'.pending = Len(requests') /\ mapping'.page = mapping.page
        /\ mapping'.object = mapping.object /\ mapping'.status = mapping.status
    BY <1>4, <2>1 DEF StageRemoval, RowRecord
  <2>3. mapping.status # "removed"
    BY <1>4 DEF StageRemoval, OutcomeInv, RowInv
  <2>4. x.kind = "remove" /\ x.page = mapping.page
    OBVIOUS
  <2> HIDE DEF x
  <2> QED
    BY <1>1, <1>4, <2>1, <2>2, <2>3, <2>4, StagedNext
<1>5. CASE ConfirmRemoval(f)
  BY <1>2, <1>4, <1>5 DEF ConfirmRemoval
<1> QED
  BY <1>3, <1>5

LEMMA FinalizeOutcome ==
  ASSUME PublicationInv, FinalizeReview
  PROVE  OutcomeInv'
<1> USE DEF PublicationInv, PagesInv
<1> DEFINE x == [kind |-> "publish", page |-> mapping.page, parent |-> mapping.object]
<1>1. x \in RequestRecord /\ mapping \in RowRecord /\ flow \in [Flows -> FlowRecord]
  BY PagesTypes DEF RequestRecord, RowRecord
<1>2. /\ Len(requests) < MaxRequests /\ requests' = Append(requests, x)
      /\ mapping'.pending = Len(requests') /\ mapping'.page = mapping.page
      /\ mapping'.object = mapping.object /\ mapping'.status # "removed"
      /\ UNCHANGED flow /\ UNCHANGED host
  BY <1>1 DEF FinalizeReview, StagePublication, RowRecord
<1>3. x.kind = "publish" /\ x.page = mapping.page /\ x.parent = mapping.object
  OBVIOUS
<1> HIDE DEF x
<1> QED
  BY <1>1, <1>2, <1>3, StagedNext

(* A handler that has forgotten what it carried knows nothing untrue.       *)
LEMMA ForgottenTruthful ==
  ASSUME PublicationInv, NEW f \in Flows, Throws(f) \/ flow' = [flow EXCEPT ![f] = Idle]
  PROVE  /\ flow' \in [Flows -> FlowRecord]
         /\ \A g \in Flows : flow'[g] = flow[g] \/ (~Carries(flow'[g]) /\ flow'[g].current = None)
<1>1. flow \in [Flows -> FlowRecord]
  BY PagesTypes DEF PublicationInv, PagesInv
<1>2. PICK r \in FlowRecord : flow' = [flow EXCEPT ![f] = r] /\ ~Carries(r) /\ r.current = None
  <2>1. CASE Throws(f)
    <3> DEFINE r == [Idle EXCEPT !.pc = "threw", !.mode = flow[f].mode]
    <3>1. r \in FlowRecord /\ r.pc = "threw" /\ r.current = None
      BY <1>1 DEF FlowRecord, Idle
    <3>2. flow' = [flow EXCEPT ![f] = r]
      BY <2>1 DEF Throws
    <3> HIDE DEF r
    <3> QED
      BY <3>1, <3>2 DEF Carries
  <2>2. CASE flow' = [flow EXCEPT ![f] = Idle]
    <3>1. Idle \in FlowRecord /\ Idle.pc = "idle" /\ Idle.current = None
      BY DEF Idle, FlowRecord
    <3> QED
      BY <2>2, <3>1 DEF Carries
  <2> QED
    BY <2>1, <2>2
<1> HIDE DEF FlowRecord
<1> QED
  BY <1>1, <1>2

(* The row and the host stay, and one handler forgets.                      *)
LEMMA ForgettingOutcome ==
  ASSUME PublicationInv, NEW f \in Flows, Throws(f) \/ flow' = [flow EXCEPT ![f] = Idle],
         UNCHANGED <<row, site, accepted, refused>>
  PROVE  OutcomeInv'
<1>1. /\ flow' \in [Flows -> FlowRecord]
      /\ \A g \in Flows : flow'[g] = flow[g] \/ (~Carries(flow'[g]) /\ flow'[g].current = None)
  BY ForgottenTruthful
<1>2. ASSUME NEW g \in Flows, NEW r \in FlowRecord, r = flow'[g]
      PROVE  Truthful(r)
  <2>1. CASE r = flow[g]
    BY <2>1 DEF PublicationInv, OutcomeInv, HandlersInv
  <2>2. CASE ~Carries(r) /\ r.current = None
    BY <2>2 DEF Truthful, Carries
  <2> QED
    BY <1>1, <1>2, <2>1, <2>2
<1> QED
  BY <1>1, <1>2, RowAndHostKept DEF PublicationInv

LEMMA AdvanceOutcome ==
  ASSUME PublicationInv, NEW f \in Flows, LoadStaged(f) \/ Send(f), flow' \in [Flows -> FlowRecord]
  PROVE  OutcomeInv'
<1> USE DEF PublicationInv, PagesInv
<1>1. UNCHANGED <<row, site, accepted, refused>> /\ flow \in [Flows -> FlowRecord]
  BY PagesTypes DEF LoadStaged, Send, host
<1>2. CASE Throws(f)
  BY <1>1, <1>2, ForgettingOutcome
<1>3. CASE ~Throws(f)
  <2>1. ASSUME NEW r \in FlowRecord, r = flow'[f]
        PROVE  Truthful(r)
    <3>1. PICK q \in FlowRecord : q = flow[f]
      BY <1>1
    <3>2. /\ r.pc \in {"send", "sent"} /\ r.current = q.current /\ r.mode = q.mode
          /\ (LoadStaged(f) => r.request = mapping.pending /\ Verified(f))
          /\ (Send(f) => r.request = q.request /\ q.pc = "send")
      BY <1>1, <1>3, <2>1, <3>1 DEF LoadStaged, Send, FlowRecord
    <3>3. Truthful(q)
      BY <3>1 DEF OutcomeInv, HandlersInv
    <3>4. requests[r.request].kind = IF r.mode = "remove" THEN "remove" ELSE "publish"
      <4>1. CASE LoadStaged(f)
        BY <3>1, <3>2, <4>1 DEF Verified, KindPending
      <4>2. CASE Send(f)
        BY <3>2, <3>3, <4>2 DEF Truthful, Carries
      <4> QED
        BY <4>1, <4>2
    <3> QED
      BY <3>2, <3>3, <3>4 DEF Truthful
  <2>2. \A g \in Flows : g # f => flow'[g] = flow[g]
    BY <1>1, <1>3 DEF LoadStaged, Send
  <2>3. \A g \in Flows : \A r \in FlowRecord : r = flow'[g] => Truthful(r)
    BY <2>1, <2>2 DEF OutcomeInv, HandlersInv
  <2> QED
    BY <1>1, <2>3, RowAndHostKept
<1> QED
  BY <1>2, <1>3

(* The host answers one handler.                                            *)
LEMMA AnswerOutcome ==
  ASSUME PublicationInv, NEW f \in Flows, HostAnswers(f), flow' \in [Flows -> FlowRecord]
  PROVE  OutcomeInv'
<1> USE DEF PublicationInv, PagesInv
<1>0. PICK n : n = flow[f].request
  OBVIOUS
<1>1. /\ UNCHANGED row /\ Carries(flow[f]) /\ n \in confirmed /\ flow[f].pc = "sent"
      /\ flow \in [Flows -> FlowRecord] /\ n \in Staged
  BY <1>0, PagesTypes DEF HostAnswers, FlowsConfirmed, Sends, Carries, NamesStaged
<1>2. HostAccepts(n) \/ HostRefuses(n) \/ UNCHANGED <<site, accepted, refused>>
  BY <1>0 DEF HostAnswers, HostConflicts
<1>3. /\ ObjectsAccepted' /\ RowInv' /\ LastInv'
      /\ \A g \in Flows : \A r \in FlowRecord : r = flow[g] => Truthful(r)'
  BY <1>1, <1>2, HostProgress
<1>4. PICK answer \in {"accepted", "conflict", "refused", "unavailable"} : \E current \in {None, site[Target(n)].object} :
        /\ flow' = [flow EXCEPT ![f].pc = "answered", ![f].answer = answer, ![f].current = current]
        /\ answer = "accepted" => n \in accepted'
        /\ answer = "refused" => n \notin accepted' /\ n \in refused'
        /\ answer = "conflict" => /\ n \notin accepted /\ ~Fits(n)
                                  /\ UNCHANGED <<site, accepted, refused>>
        /\ answer # "conflict" => current = None
  <2>1. CASE HostAccepts(n) /\ flow' = [flow EXCEPT ![f].pc = "answered", ![f].answer = "accepted", ![f].current = None]
    BY <2>1 DEF HostAccepts
  <2>2. CASE HostRefuses(n) /\ flow' = [flow EXCEPT ![f].pc = "answered", ![f].answer = "refused", ![f].current = None]
    BY <2>2 DEF HostRefuses
  <2>3. CASE HostConflicts(n) /\ \E current \in {None, site[Target(n)].object} :
              flow' = [flow EXCEPT ![f].pc = "answered", ![f].answer = "conflict", ![f].current = current]
    BY <2>3 DEF HostConflicts
  <2>4. CASE /\ flow' = [flow EXCEPT ![f].pc = "answered", ![f].answer = "unavailable", ![f].current = None]
             /\ UNCHANGED <<site, accepted, refused>>
    BY <2>4
  <2> QED
    BY <1>0, <2>1, <2>2, <2>3, <2>4 DEF HostAnswers
<1>5. PICK current \in {None, site[Target(n)].object} :
        /\ flow' = [flow EXCEPT ![f].pc = "answered", ![f].answer = answer, ![f].current = current]
        /\ answer = "accepted" => n \in accepted'
        /\ answer = "refused" => n \notin accepted' /\ n \in refused'
        /\ answer = "conflict" => /\ n \notin accepted /\ ~Fits(n)
                                  /\ UNCHANGED <<site, accepted, refused>>
        /\ answer # "conflict" => current = None
  BY <1>4
<1>6. current \in accepted' \cup {None}
  <2>1. Target(n) \in Ids
    BY <1>1, PagesTypes
  <2> QED
    BY <1>5, <2>1 DEF OutcomeInv, ObjectsAccepted
<1>7. answer \in {"refused", "conflict"} => Hopeless(n)'
  BY <1>1, <1>5 DEF Hopeless, Fits, Revises, row
<1>8. ASSUME NEW g \in Flows, NEW r \in FlowRecord, r = flow'[g]
      PROVE  Truthful(r)'
  <2>1. CASE g # f
    BY <1>1, <1>3, <1>5, <1>8, <2>1
  <2>2. CASE g = f
    <3>1. PICK q \in FlowRecord : q = flow[f]
      BY <1>1
    <3>2. /\ r.pc = "answered" /\ r.answer = answer /\ r.current = current
          /\ r.mode = q.mode /\ r.request = q.request /\ q.request = n
      BY <1>0, <1>1, <1>5, <1>8, <2>2, <3>1 DEF FlowRecord
    <3>3. Truthful(q)' /\ Carries(q)
      BY <1>1, <1>3, <3>1
    <3>4. answer \in {"refused", "conflict"} => Hopeless(r.request)'
      BY <1>7, <3>2 DEF Hopeless, Fits, Revises
    <3> QED
      BY <1>5, <1>6, <3>2, <3>3, <3>4 DEF Truthful, Carries
  <2> QED
    BY <2>1, <2>2
<1> QED
  BY <1>3, <1>8, HandlersNext DEF OutcomeInv

LEMMA LateOutcome ==
  ASSUME PublicationInv, LateArrival
  PROVE  OutcomeInv'
<1> USE DEF PublicationInv, PagesInv
<1>1. PICK n \in wire : (HostAccepts(n) \/ HostRefuses(n)) /\ wire' = wire \ {n}
  BY DEF LateArrival
<1>2. UNCHANGED <<row, flow>> /\ n \in confirmed /\ flow \in [Flows -> FlowRecord]
  BY PagesTypes DEF LateArrival, dialog, HostConfirmed, row
<1>3. /\ ObjectsAccepted' /\ RowInv' /\ LastInv'
      /\ \A g \in Flows : \A r \in FlowRecord : r = flow[g] => Truthful(r)'
  BY <1>1, <1>2, HostProgress
<1> QED
  BY <1>2, <1>3, HandlersNext DEF OutcomeInv

(* A recorded result: what is to be shown of the row, the host staying and  *)
(* the handler forgetting.                                                  *)
LEMMA RecordedOutcome ==
  ASSUME PublicationInv, NEW f \in Flows, NEW phase, Recorded(f, phase), UNCHANGED <<requests, host>>,
         mapping'.page # None => mapping'.object \in accepted,
         mapping.page # None => mapping'.page # None,
         mapping'.pending \in {None, mapping.pending},
         mapping'.status = "removed" => mapping'.pending = None,
         LastInv'
  PROVE  OutcomeInv'
<1> USE DEF PublicationInv, PagesInv
<1>1. /\ flow' \in [Flows -> FlowRecord]
      /\ \A g \in Flows : flow'[g] = flow[g] \/ (~Carries(flow'[g]) /\ flow'[g].current = None)
  BY ForgottenTruthful DEF Recorded, Ends
<1>2. ObjectsAccepted'
  BY DEF OutcomeInv, ObjectsAccepted, Revises, Staged, host
<1>3. RowInv'
  BY DEF OutcomeInv, RowInv, Staged, Latest
<1>4. ASSUME NEW g \in Flows, NEW r \in FlowRecord, r = flow'[g]
      PROVE  Truthful(r)'
  <2>1. CASE r = flow[g]
    <3>1. Truthful(r)
      BY <2>1 DEF OutcomeInv, HandlersInv
    <3> QED
      BY <3>1 DEF Truthful, Carries, Hopeless, Fits, Revises, host
  <2>2. CASE ~Carries(r) /\ r.current = None
    BY <2>2 DEF Truthful, Carries
  <2> QED
    BY <1>1, <1>4, <2>1, <2>2
<1> QED
  BY <1>1, <1>2, <1>3, <1>4, HandlersNext DEF OutcomeInv

(* The result that matters is that of the last operation.                   *)
LEMMA OwnResult ==
  ASSUME PublicationInv, NEW f \in Flows, NEW phase, Recorded(f, phase), flow[f].pc = "answered",
         UNCHANGED requests, ~crossed'
  PROVE  /\ ~crossed /\ flow[f].request = Latest /\ Latest' = Latest /\ Latest # None /\ Latest \in Staged
         /\ Told(Latest) /\ RemovalShows(Latest)
<1> USE DEF PublicationInv, PagesInv
<1>1. ~crossed /\ flow[f].request = Latest /\ Latest' = Latest
  BY DEF Recorded, Latest
<1>2. Latest \in Staged /\ Latest # None
  <2>1. Latest \in Staged
    BY <1>1 DEF FlowsConfirmed, Sends, NamesStaged
  <2> QED
    BY <2>1, PagesTypes
<1> QED
  BY <1>1, <1>2 DEF OutcomeInv, LastInv

(* The receipt of a publication.                                            *)
LEMMA PublishedOutcome ==
  ASSUME PublicationInv, NEW f \in Flows, Published(f)
  PROVE  OutcomeInv'
<1> USE DEF PublicationInv, PagesInv
<1>1. UNCHANGED <<requests, host>> /\ flow[f].pc = "answered" /\ flow[f].answer = "accepted" /\ Publishes(f)
  BY DEF Published, Answered
<1>2. CASE NotRecorded(f)
  BY <1>1, <1>2, ForgettingOutcome DEF NotRecorded, row, host
<1>3. CASE RecordPublication(flow[f].request) /\ Recorded(f, "complete")
  <2>1. PICK n : n = flow[f].request
    OBVIOUS
  <2>2. n \in accepted /\ requests[n].kind = "publish"
    BY <1>1, <2>1 DEF OutcomeInv, HandlersInv, Truthful, Carries, Publishes
  <2>3. n \in Staged /\ Target(n) \in Ids /\ None \notin Ids
    BY <2>2, PagesTypes DEF HostConfirmed, NamesStaged
  <2>4. mapping'.page = Target(n) /\ mapping'.object = n /\ mapping'.pending = None /\ mapping'.status = "live"
    BY <1>3, <2>1 DEF RecordPublication
  <2>5. LastInv'
    <3> SUFFICES ASSUME ~crossed'
                 PROVE  /\ Latest' # None => Told(Latest)' /\ RemovalShows(Latest)'
                        /\ mapping'.status # "removed"
      BY <2>4 DEF LastInv
    <3>1. n = Latest /\ Latest' = Latest
      BY <1>1, <1>3, <2>1, OwnResult
    <3> QED
      BY <1>1, <2>2, <2>4, <3>1 DEF Told, RemovalShows, Target, host
  <2> QED
    BY <1>1, <1>3, <2>2, <2>3, <2>4, <2>5, RecordedOutcome
<1> QED
  BY <1>2, <1>3 DEF Published

(* The receipt of a removal.                                                *)
LEMMA WithdrawnOutcome ==
  ASSUME PublicationInv, NEW f \in Flows, Withdrawn(f)
  PROVE  OutcomeInv'
<1> USE DEF PublicationInv, PagesInv
<1>1. UNCHANGED <<requests, host>> /\ flow[f].pc = "answered" /\ flow[f].answer = "accepted"
      /\ flow[f].mode = "remove"
  BY DEF Withdrawn, Answered
<1>2. CASE NotRecorded(f)
  BY <1>1, <1>2, ForgettingOutcome DEF NotRecorded, row, host
<1>3. CASE MarkRemoved /\ Recorded(f, "complete")
  <2>1. PICK n : n = flow[f].request
    OBVIOUS
  <2>2. n \in accepted /\ requests[n].kind = "remove"
    BY <1>1, <2>1 DEF OutcomeInv, HandlersInv, Truthful, Carries
  <2>3. mapping'.page = mapping.page /\ mapping'.object = mapping.object /\ mapping'.pending = None
        /\ mapping'.status = "removed"
    <3>1. mapping \in RowRecord
      BY PagesTypes
    <3> QED
      BY <1>3, <3>1 DEF MarkRemoved, RowRecord
  <2>4. LastInv'
    <3> SUFFICES ASSUME ~crossed'
                 PROVE  /\ Told(Latest)' /\ RemovalShows(Latest)'
                        /\ Latest' # None /\ requests'[Latest'].kind = "remove" /\ Latest' \in accepted'
      BY DEF LastInv
    <3>1. n = Latest /\ Latest' = Latest /\ Latest # None /\ RemovalShows(Latest)
      BY <1>1, <1>3, <2>1, OwnResult
    <3>2. Told(Latest)'
      BY <1>1, <2>2, <2>3, <3>1 DEF Told, host
    <3>3. RemovalShows(Latest)'
      BY <1>1, <2>2, <2>3, <3>1 DEF RemovalShows, Unlisted, host
    <3> QED
      BY <1>1, <2>2, <3>1, <3>2, <3>3 DEF host
  <2>5. mapping'.page # None => mapping'.object \in accepted
    BY <2>3 DEF OutcomeInv, ObjectsAccepted
  <2> QED
    BY <1>1, <1>3, <2>3, <2>4, <2>5, RecordedOutcome
<1> QED
  BY <1>2, <1>3 DEF Withdrawn

(* A failure that is final concerns an operation without hope, and one that *)
(* may be retried leaves the row as it is.                                  *)
LEMMA FailureOutcome ==
  ASSUME PublicationInv, NEW f \in Flows, NEW phase, Recorded(f, phase), UNCHANGED <<requests, host>>,
         flow[f].pc = "answered", flow[f].answer \in Failures,
         NEW retryable \in BOOLEAN, NEW current, RecordFailure(retryable, current),
         flow[f].answer = "unavailable" => retryable /\ current = None,
         current \in accepted \cup {None},
         flow[f].mode = "remove" => current = None
  PROVE  OutcomeInv'
<1> USE DEF PublicationInv, PagesInv
<1>0. mapping \in RowRecord /\ flow[f] \in FlowRecord /\ Truthful(flow[f])
  BY PagesTypes DEF OutcomeInv, HandlersInv
<1>1. PICK n : n = flow[f].request
  OBVIOUS
<1>2. /\ flow[f].answer = "unavailable" \/ Hopeless(n)
      /\ requests[n].kind = IF flow[f].mode = "remove" THEN "remove" ELSE "publish"
  BY <1>0, <1>1 DEF Truthful, Carries, Failures
<1>3. /\ mapping'.page = mapping.page /\ mapping'.pending = (IF retryable THEN mapping.pending ELSE None)
      /\ mapping'.object = (IF current = None THEN mapping.object ELSE current)
      /\ mapping'.status = (IF retryable THEN mapping.status ELSE "failed")
  BY <1>0 DEF RecordFailure, RowRecord
<1>4. LastInv'
  <2> SUFFICES ASSUME ~crossed'
               PROVE  /\ Told(Latest)' /\ RemovalShows(Latest)'
                      /\ mapping'.status = "removed" => Latest' # None /\ requests'[Latest'].kind = "remove"
                                                        /\ Latest' \in accepted'
    BY DEF LastInv
  <2>1. /\ ~crossed /\ n = Latest /\ Latest' = Latest /\ Latest # None /\ Latest \in Staged
        /\ Told(Latest) /\ RemovalShows(Latest)
    BY <1>1, OwnResult
  <2>2. Told(Latest)'
    <3>1. CASE Hopeless(Latest)
      BY <2>1, <3>1 DEF Told, Hopeless, Fits, Revises, host
    <3>2. CASE flow[f].answer = "unavailable"
      BY <1>3, <2>1, <3>2 DEF Told, Hopeless, Fits, Revises, Target, host
    <3> QED
      BY <1>2, <2>1, <3>1, <3>2
  <2>3. RemovalShows(Latest)'
    BY <1>2, <1>3, <2>1 DEF RemovalShows, Unlisted, host
  <2>4. mapping'.status = "removed" => requests[Latest].kind = "remove" /\ Latest \in accepted
    BY <1>3, <2>1 DEF OutcomeInv, LastInv
  <2> QED
    BY <2>1, <2>2, <2>3, <2>4 DEF host
<1>5. mapping'.page # None => mapping'.object \in accepted
  BY <1>3 DEF OutcomeInv, ObjectsAccepted
<1>6. mapping'.status = "removed" => mapping'.pending = None
  BY <1>3 DEF OutcomeInv, RowInv
<1> QED
  BY <1>3, <1>4, <1>5, <1>6, RecordedOutcome

LEMMA FailedOutcome ==
  ASSUME PublicationInv, NEW f \in Flows, PublishFailed(f) \/ RemovalFailed(f)
  PROVE  OutcomeInv'
<1> USE DEF PublicationInv, PagesInv
<1>1. UNCHANGED <<requests, host>> /\ flow[f].pc = "answered" /\ flow[f].answer \in Failures
      /\ Truthful(flow[f])
  BY DEF PublishFailed, RemovalFailed, Answered, OutcomeInv, HandlersInv
<1>2. CASE NotRecorded(f)
  BY <1>1, <1>2, ForgettingOutcome DEF NotRecorded, row, host
<1>3. CASE PublishFailed(f) /\ ~NotRecorded(f)
  <2>1. PICK retryable \in Retryables(f) : RecordFailure(retryable, flow[f].current)
    BY <1>3 DEF PublishFailed
  <2>2. retryable \in BOOLEAN /\ (flow[f].answer = "unavailable" => retryable)
    BY <2>1 DEF Retryables
  <2>3. /\ flow[f].current \in accepted \cup {None} /\ flow[f].mode # "remove"
        /\ flow[f].answer = "unavailable" => flow[f].current = None
    BY <1>1, <1>3 DEF Truthful, PublishFailed, Publishes
  <2>4. PICK phase : Recorded(f, phase)
    BY <1>3 DEF PublishFailed
  <2> QED
    BY <1>1, <2>1, <2>2, <2>3, <2>4, FailureOutcome
<1>4. CASE RemovalFailed(f) /\ ~NotRecorded(f)
  <2>1. RecordFailure(flow[f].answer = "unavailable", None) /\ Recorded(f, "editing")
    BY <1>4 DEF RemovalFailed
  <2>2. (flow[f].answer = "unavailable") \in BOOLEAN
    OBVIOUS
  <2> QED
    BY <1>1, <2>1, <2>2, FailureOutcome
<1> QED
  BY <1>2, <1>3, <1>4

(* Where nothing was answered the row only learns that there is an error.   *)
LEMMA ThrewOutcome ==
  ASSUME PublicationInv, NEW f \in Flows, ConfirmThrew(f) \/ OtherThrew(f)
  PROVE  OutcomeInv'
<1> USE DEF PublicationInv, PagesInv, OutcomeInv
<1>1. UNCHANGED <<requests, crossed, host>> /\ flow' = [flow EXCEPT ![f] = Idle]
  BY DEF ConfirmThrew, OtherThrew, Ends, row
<1>2. mapping'.page = mapping.page /\ mapping'.object = mapping.object
      /\ mapping'.pending = mapping.pending /\ mapping'.status = mapping.status
  <2>1. mapping \in RowRecord
    BY PagesTypes
  <2> QED
    BY <2>1 DEF ConfirmThrew, OtherThrew, RecordFailure, RowRecord, row
<1>3. /\ flow' \in [Flows -> FlowRecord]
      /\ \A g \in Flows : flow'[g] = flow[g] \/ (~Carries(flow'[g]) /\ flow'[g].current = None)
  BY <1>1, ForgottenTruthful
<1>4. ASSUME NEW g \in Flows, NEW r \in FlowRecord, r = flow'[g]
      PROVE  Truthful(r)'
  <2>1. CASE r = flow[g]
    <3>1. Truthful(r)
      BY <2>1 DEF HandlersInv
    <3> QED
      BY <1>1, <3>1 DEF Truthful, Carries, Hopeless, Fits, Revises, host
  <2>2. CASE ~Carries(r) /\ r.current = None
    BY <2>2 DEF Truthful, Carries
  <2> QED
    BY <1>3, <1>4, <2>1, <2>2
<1>5. ObjectsAccepted'
  BY <1>1, <1>2 DEF ObjectsAccepted, Revises, Staged, host
<1>6. RowInv'
  BY <1>1, <1>2 DEF RowInv, Staged, Latest
<1>7. LastInv'
  BY <1>1, <1>2 DEF LastInv, Told, RemovalShows, Latest, Unlisted, Target, Hopeless, Fits, Revises, host
<1> QED
  BY <1>3, <1>4, <1>5, <1>6, <1>7, HandlersNext

LEMMA QuitOutcome ==
  ASSUME PublicationInv, Quit
  PROVE  OutcomeInv'
<1>1. UNCHANGED <<row, site, accepted, refused>> /\ flow' = [f \in Flows |-> Idle]
  BY DEF Quit
<1>2. Idle \in FlowRecord /\ Idle.pc = "idle" /\ Idle.current = None
  BY DEF Idle, FlowRecord
<1>3. flow' \in [Flows -> FlowRecord]
  BY <1>1, <1>2
<1>4. \A g \in Flows : \A r \in FlowRecord : r = flow'[g] => Truthful(r)
  BY <1>1, <1>2 DEF Truthful, Carries
<1> QED
  BY <1>1, <1>3, <1>4, RowAndHostKept DEF PublicationInv

LEMMA PublicationStep == PublicationInv /\ [Next]_vars => PublicationInv'
<1> SUFFICES ASSUME PublicationInv, [Next]_vars PROVE PublicationInv'
  OBVIOUS
<1>1. PagesInv'
  BY PagesStep DEF PublicationInv
<1>2. flow' \in [Flows -> FlowRecord]
  BY <1>1 DEF PagesInv, TypeOK, FlowRecord
<1>3. ASSUME NEW f \in Flows, FlowStep(f)
      PROVE  OutcomeInv'
  <2>1. CASE LoadStaged(f) \/ Send(f)
    BY <1>2, <2>1, AdvanceOutcome
  <2>2. CASE HostAnswers(f)
    BY <1>2, <2>2, AnswerOutcome
  <2>3. CASE TransportFails(f)
    BY <2>3, ForgettingOutcome DEF TransportFails
  <2>4. CASE Published(f)
    BY <2>4, PublishedOutcome
  <2>5. CASE Withdrawn(f)
    BY <2>5, WithdrawnOutcome
  <2>6. CASE PublishFailed(f) \/ RemovalFailed(f)
    BY <2>6, FailedOutcome
  <2>7. CASE ConfirmThrew(f) \/ OtherThrew(f)
    BY <2>7, ThrewOutcome
  <2> QED
    BY <1>3, <2>1, <2>2, <2>3, <2>4, <2>5, <2>6, <2>7 DEF FlowStep
<1>4. OutcomeInv'
  <2>1. CASE OpenReview \/ CloseReview \/ NothingStaged \/ UNCHANGED vars
    BY <2>1, DialogOutcome
  <2>2. CASE FinalizeReview
    BY <2>2, FinalizeOutcome
  <2>3. CASE LateArrival
    BY <2>3, LateOutcome
  <2>4. CASE Quit
    BY <2>4, QuitOutcome
  <2>5. CASE \E f \in Flows :
               ConfirmPublish(f) \/ RetryPublication(f) \/ RetryRemoval(f) \/ ConfirmRemoval(f)
    BY <1>2, <2>5, ClickOutcome
  <2> QED
    BY <1>3, <2>1, <2>2, <2>3, <2>4, <2>5 DEF Next
<1> QED
  BY <1>1, <1>4 DEF PublicationInv

LEMMA InitPublication == Init => PublicationInv
<1> SUFFICES ASSUME Init PROVE PublicationInv
  OBVIOUS
<1>1. PagesInv /\ Latest = 0 /\ Staged = {}
  BY InitPages DEF Init, Latest, Staged
<1>2. ObjectsAccepted /\ RowInv
  BY <1>1 DEF Init, ObjectsAccepted, RowInv, None
<1>3. HandlersInv
  BY DEF Init, HandlersInv, Truthful, Carries, Idle
<1>4. LastInv
  BY <1>1 DEF Init, LastInv, None
<1> QED
  BY <1>1, <1>2, <1>3, <1>4 DEF PublicationInv, OutcomeInv

LEMMA PublicationInvHolds == Spec => []PublicationInv
  BY InitPublication, PublicationStep, PTL DEF Spec

(* What the host did for the operation staged last is recorded or will be   *)
(* found by a retry, however many handlers run: only the result of an       *)
(* earlier operation, recorded over it, may hide it.                        *)
THEOREM LatestIsTrackedHolds == Spec => []LatestIsTracked
<1>1. PublicationInv => LatestIsTracked
  <2> SUFFICES ASSUME PublicationInv, Latest \in accepted, ~crossed
               PROVE  Told(Latest) /\ ~Hopeless(Latest)
    BY DEF LatestIsTracked, Told, Latest
  <2>1. Latest # None
    BY DEF PublicationInv, PagesInv, HostConfirmed, NamesStaged, Staged, None
  <2> QED
    BY <2>1 DEF PublicationInv, OutcomeInv, LastInv, Hopeless
<1> QED
  BY <1>1, PublicationInvHolds, PTL

(* However many handlers run, a row marked removed names a page the host    *)
(* does not list, or one on which another object was published since, until *)
(* the result of an earlier operation is recorded over the removal.         *)
THEOREM RemovedIsWithdrawnHolds == Spec => []RemovedIsWithdrawn
<1>1. PublicationInv => RemovedIsWithdrawn
  BY DEF PublicationInv, OutcomeInv, LastInv, RemovalShows, Unlisted, RemovedIsWithdrawn
<1> QED
  BY <1>1, PublicationInvHolds, PTL

(* The staged operation leaves the row for its own answer, for a newer one  *)
(* or under the result of an earlier one.                                   *)
LEMMA StagedLeavesRow ==
  ASSUME PublicationInv, [Next]_vars,
         mapping.pending # None, mapping.error, mapping'.pending # mapping.pending
  PROVE  requests' # requests \/ crossed' \/ \E f \in Flows : OwnAnswer(f)
<1> USE DEF PublicationInv, PagesInv
<1>1. mapping \in RowRecord /\ mapping.pending = Latest
  BY PagesTypes DEF OutcomeInv, RowInv
<1>2. ASSUME NEW f \in Flows, NEW phase, Recorded(f, phase), Answered(f, {"accepted", "conflict", "refused"})
      PROVE  crossed' \/ OwnAnswer(f)
  BY <1>1, <1>2 DEF Recorded, OwnAnswer, Latest
<1>3. CASE FinalizeReview \/ \E f \in Flows : ConfirmRemoval(f) /\ ~UNCHANGED mapping
  <2>1. \E x \in RequestRecord : requests' = Append(requests, x) /\ Len(requests) < MaxRequests
    <3>1. [kind |-> "publish", page |-> mapping.page, parent |-> mapping.object] \in RequestRecord
      BY <1>1 DEF RequestRecord, RowRecord
    <3>2. [kind |-> "remove", page |-> mapping.page, parent |-> None] \in RequestRecord
      BY <1>1 DEF RequestRecord, RowRecord
    <3> QED
      BY <1>3, <3>1, <3>2 DEF FinalizeReview, StagePublication, ConfirmRemoval, StageRemoval, row
  <2>2. Len(requests') = Len(requests) + 1 /\ Len(requests) \in Nat
    BY <2>1, AppendRequest DEF RequestRecord
  <2> QED
    BY <2>2
<1>4. ASSUME NEW f \in Flows, Published(f) \/ Withdrawn(f)
      PROVE  crossed' \/ OwnAnswer(f)
  <2>1. \E phase : Recorded(f, phase)
    BY <1>4 DEF Published, Withdrawn, NotRecorded
  <2>2. Answered(f, {"accepted", "conflict", "refused"})
    BY <1>4 DEF Published, Withdrawn, Answered
  <2> QED
    BY <1>2, <2>1, <2>2
<1>5. ASSUME NEW f \in Flows, PublishFailed(f) \/ RemovalFailed(f)
      PROVE  crossed' \/ OwnAnswer(f)
  <2>1. \A current : ~RecordFailure(TRUE, current)
    BY <1>1 DEF RecordFailure, RowRecord
  <2>2. \E phase : Recorded(f, phase)
    BY <1>5 DEF PublishFailed, RemovalFailed, NotRecorded
  <2>3. Answered(f, {"accepted", "conflict", "refused"})
    BY <1>5, <2>1 DEF PublishFailed, RemovalFailed, NotRecorded, Retryables, Answered, Failures
  <2> QED
    BY <1>2, <2>2, <2>3
<1>6. ASSUME NEW f \in Flows, ConfirmThrew(f)
      PROVE  FALSE
  BY <1>1, <1>6 DEF ConfirmThrew, RecordFailure, RowRecord
<1>7. CASE ~UNCHANGED mapping /\ Next
  <2>1. ASSUME NEW f \in Flows, FlowStep(f)
        PROVE  Published(f) \/ Withdrawn(f) \/ PublishFailed(f) \/ RemovalFailed(f) \/ ConfirmThrew(f)
    BY <1>7, <2>1 DEF FlowStep, LoadStaged, Send, TransportFails, HostAnswers, OtherThrew, row
  <2>2. FinalizeReview \/ \E f \in Flows : ConfirmRemoval(f) \/ FlowStep(f)
    BY <1>7 DEF Next, OpenReview, CloseReview, NothingStaged, LateArrival, Quit,
                ConfirmPublish, RetryPublication, RetryRemoval, row
  <2> QED
    BY <1>3, <1>4, <1>5, <1>6, <1>7, <2>1, <2>2
<1> QED
  BY <1>7 DEF vars, row

(* A failed attempt keeps its operation staged, however many handlers run:  *)
(* it leaves the row for its own answer, for a newer operation, or under    *)
(* the recorded result of an earlier one.                                   *)
THEOREM FailedStaysStagedHolds == Spec => FailedStaysStaged
<1> DEFINE A == (mapping.pending # None /\ mapping.error /\ mapping'.pending # mapping.pending)
                  => (requests' # requests \/ crossed' \/ \E f \in Flows : OwnAnswer(f))
<1>1. PublicationInv /\ [Next]_vars => [A]_vars
  BY StagedLeavesRow
<1>2. FailedStaysStaged <=> [][A]_vars
  BY DEF FailedStaysStaged
<1> HIDE DEF A
<1> QED
  BY <1>1, <1>2, PublicationInvHolds, PTL DEF Spec
=============================================================================
