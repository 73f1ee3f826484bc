------------------------- MODULE IssuerServiceProofs --------------------------
(***************************************************************************)
(* Proofs about what the two issuer services share, for every set of       *)
(* requests, every capacity of the channel and every number of restarts:   *)
(* each action of IssuerService preserves ServiceInv, and LedgerInv.       *)
(***************************************************************************)
EXTENDS IssuerService, SequenceTheorems, TLAPS

(* Only a running worker has a call under way, and there is no worker while
   the process is down. *)
WorkerShape ==
    /\ worker # "running" => current = {}
    /\ main = "down" => worker = "off"

ServiceInv == ServiceTypeOK /\ NodeTypeOK /\ WorkerShape /\ NoOrphanedWaiter

(* What a worker may answer. *)
Response == Slot \ {"empty"}

-----------------------------------------------------------------------------
(* Queues. *)

(* The first entry and the rest are all there is in a queue. *)
LEMMA RangeHeadTail ==
    ASSUME NEW S, NEW s \in Seq(S), s # << >>
    PROVE  /\ Head(s) \in S
           /\ Tail(s) \in Seq(S)
           /\ Range(s) = {Head(s)} \cup Range(Tail(s))
<1>1. Len(s) \in Nat /\ Len(s) # 0 /\ \A i \in 1..Len(s) : s[i] \in S
  BY EmptySeq, LenProperties
<1>2. /\ Head(s) = s[1] /\ Head(s) \in S
      /\ Tail(s) \in Seq(S) /\ Len(Tail(s)) = Len(s) - 1
      /\ \A i \in 1..Len(Tail(s)) : Tail(s)[i] = s[i + 1]
  BY <1>1, HeadTailProperties
<1>3. DOMAIN s = 1..Len(s) /\ DOMAIN Tail(s) = 1..Len(Tail(s))
  BY <1>2, LenProperties
<1>4. \A x \in Range(s) : x \in {Head(s)} \cup Range(Tail(s))
  <2> SUFFICES ASSUME NEW i \in 1..Len(s), s[i] # Head(s)
               PROVE  s[i] \in Range(Tail(s))
    BY <1>3 DEF Range
  <2>1. i - 1 \in 1..Len(Tail(s)) /\ Tail(s)[i - 1] = s[i]
    BY <1>1, <1>2
  <2> QED
    BY <2>1, <1>3 DEF Range
<1>5. \A x \in Range(Tail(s)) : x \in Range(s)
  <2> SUFFICES ASSUME NEW i \in 1..Len(Tail(s))
               PROVE  Tail(s)[i] \in Range(s)
    BY <1>3 DEF Range
  <2>1. i + 1 \in 1..Len(s) /\ Tail(s)[i] = s[i + 1]
    BY <1>1, <1>2
  <2> QED
    BY <2>1, <1>3 DEF Range
<1>6. Head(s) \in Range(s)
  BY <1>1, <1>2, <1>3 DEF Range
<1> QED
  BY <1>2, <1>4, <1>5, <1>6

(* An entry at the end adds itself to what there is. *)
LEMMA RangeAppend ==
    ASSUME NEW S, NEW s \in Seq(S), NEW x \in S
    PROVE  /\ Append(s, x) \in Seq(S)
           /\ Range(Append(s, x)) = Range(s) \cup {x}
<1>1. /\ Append(s, x) \in Seq(S) /\ Len(s) \in Nat
      /\ Len(Append(s, x)) = Len(s) + 1
      /\ \A i \in 1..Len(s) : Append(s, x)[i] = s[i]
      /\ Append(s, x)[Len(s) + 1] = x
  BY AppendProperties, LenProperties
<1>2. DOMAIN s = 1..Len(s) /\ DOMAIN Append(s, x) = 1..Len(s) + 1
  BY <1>1, LenProperties
<1>3. \A y \in Range(Append(s, x)) : y \in Range(s) \cup {x}
  <2> SUFFICES ASSUME NEW i \in 1..Len(s) + 1
               PROVE  Append(s, x)[i] \in Range(s) \cup {x}
    BY <1>2 DEF Range
  <2>1. CASE i = Len(s) + 1
    BY <2>1, <1>1
  <2>2. CASE i # Len(s) + 1
    BY <2>2, <1>1, <1>2 DEF Range
  <2> QED
    BY <2>1, <2>2
<1>4. \A y \in Range(s) : y \in Range(Append(s, x))
  BY <1>1, <1>2 DEF Range
<1>5. x \in Range(Append(s, x))
  BY <1>1, <1>2 DEF Range
<1> QED
  BY <1>1, <1>3, <1>4, <1>5

(* The entries of a queue are of its type. *)
LEMMA RangeType ==
    ASSUME NEW S, NEW s \in Seq(S)
    PROVE  Range(s) \subseteq S
BY LenProperties DEF Range

-----------------------------------------------------------------------------
(* The invariant. *)

(* It holds of a service that was never started, on an account without
   transactions. *)
LEMMA ServiceInitInv == ServiceInit /\ NodeInit => ServiceInv
<1> SUFFICES ASSUME ServiceInit, NodeInit
             PROVE  ServiceInv
  OBVIOUS
<1>1. ServiceTypeOK
  <2>1. /\ hs \in [Requests -> HandlerState] /\ reply \in [Requests -> Reply]
        /\ slot \in [Requests -> Slot] /\ told \in [Requests -> Told]
    BY DEF ServiceInit, HandlerState, Reply, Slot, Told
  <2>2. chan \in Seq(Requests) /\ current \subseteq Requests
    BY DEF ServiceInit
  <2>3. nonce \in Nat /\ starts \in 0..MaxStarts
    BY ServiceAssumption DEF ServiceInit
  <2>4. died \in BOOLEAN
    BY DEF ServiceInit
  <2> QED
    BY <2>1, <2>2, <2>3, <2>4 DEF ServiceInit, ServiceTypeOK, NodeAnswer
<1>2. NodeTypeOK
  BY DEF NodeInit, NodeTypeOK
<1>3. WorkerShape
  BY DEF ServiceInit, WorkerShape
<1>4. NoOrphanedWaiter
  BY DEF ServiceInit, NoOrphanedWaiter
<1> QED
  BY <1>1, <1>2, <1>3, <1>4 DEF ServiceInv

(* A handler that returns or is dropped takes only its own one-shot channel
   with it. *)
LEMMA FinishPreserves ==
    ASSUME ServiceInv, NEW r \in Requests, NEW status \in Reply, Finish(r, status)
    PROVE  ServiceInv'
<1>1. ServiceTypeOK'
  BY DEF ServiceInv, ServiceTypeOK, Finish, HandlerState, Slot, workerVars, lifeVars
<1>2. NodeTypeOK'
  BY DEF ServiceInv, NodeTypeOK, Finish, nodeVars
<1>3. WorkerShape'
  BY DEF ServiceInv, WorkerShape, Finish, workerVars, lifeVars
<1>4. NoOrphanedWaiter'
  BY DEF ServiceInv, ServiceTypeOK, NoOrphanedWaiter, Finish, workerVars
<1> QED
  BY <1>1, <1>2, <1>3, <1>4 DEF ServiceInv

(* What a request handler does keeps the invariant: in particular a request
   that is cancelled leaves the other waiters to a worker. *)
LEMMA HandlerPreserves ==
    ASSUME ServiceInv, NEW r \in Requests, Handler(r)
    PROVE  ServiceInv'
<1>1. CASE Arrive(r)
  <2>1. ServiceTypeOK'
    BY <1>1 DEF ServiceInv, ServiceTypeOK, Arrive, HandlerState, workerVars, lifeVars
  <2>2. NodeTypeOK'
    BY <1>1 DEF ServiceInv, NodeTypeOK, Arrive, nodeVars
  <2>3. WorkerShape'
    BY <1>1 DEF ServiceInv, WorkerShape, Arrive, workerVars, lifeVars
  <2>4. NoOrphanedWaiter'
    BY <1>1 DEF ServiceInv, ServiceTypeOK, NoOrphanedWaiter, Arrive, workerVars
  <2> QED
    BY <2>1, <2>2, <2>3, <2>4 DEF ServiceInv
<1>2. CASE Enqueue(r)
  <2>1. chan' \in Seq(Requests) /\ Range(chan') = Range(chan) \cup {r}
    BY <1>2, RangeAppend DEF ServiceInv, ServiceTypeOK, Enqueue
  <2>2. ServiceTypeOK'
    BY <1>2, <2>1 DEF ServiceInv, ServiceTypeOK, Enqueue, HandlerState, workerVars, lifeVars
  <2>3. NodeTypeOK'
    BY <1>2 DEF ServiceInv, NodeTypeOK, Enqueue, nodeVars
  <2>4. WorkerShape'
    BY <1>2 DEF ServiceInv, WorkerShape, Enqueue, workerVars, lifeVars
  <2>5. NoOrphanedWaiter'
    BY <1>2, <2>1 DEF ServiceInv, ServiceTypeOK, NoOrphanedWaiter, Enqueue, workerVars
  <2> QED
    BY <2>2, <2>3, <2>4, <2>5 DEF ServiceInv
<1>3. CASE SendFails(r)
  BY <1>3, FinishPreserves DEF SendFails, Reply
<1>4. CASE GetResponse(r)
  <2>1. slot[r] \in Reply \/ slot[r] = "closed"
    BY <1>4 DEF GetResponse, ServiceInv, ServiceTypeOK, Slot, Reply
  <2> QED
    BY <1>4, <2>1, FinishPreserves DEF GetResponse, Reply
<1>5. CASE Cancel(r)
  BY <1>5, FinishPreserves DEF Cancel, Reply
<1>6. CASE RejectRequest(r)
  BY <1>6, FinishPreserves DEF RejectRequest, Reply
<1> QED
  BY <1>1, <1>2, <1>3, <1>4, <1>5, <1>6 DEF Handler

-----------------------------------------------------------------------------
(* The worker. *)

(* A response that is sent is received or not needed. *)
LEMMA DeliveredProperties ==
    ASSUME ServiceInv, NEW r \in Requests, NEW v \in Response
    PROVE  /\ Delivered(r, v) \in [Requests -> Slot]
           /\ hs[r] = "waiting" => Delivered(r, v)[r] # "empty"
           /\ \A q \in Requests : slot[q] # "empty" => Delivered(r, v)[q] # "empty"
BY DEF Delivered, Response, ServiceInv, ServiceTypeOK

(* The worker takes the first request of the queue and answers it at once. *)
LEMMA RespondAtOncePreserves ==
    ASSUME ServiceInv, NEW r \in Requests, NEW v \in Response, RespondAtOnce(r, v)
    PROVE  ServiceInv'
<1>1. chan' \in Seq(Requests) /\ Range(chan) = {r} \cup Range(chan')
  BY RangeHeadTail DEF RespondAtOnce, Next1, ServiceInv, ServiceTypeOK
<1>2. ServiceTypeOK'
  BY <1>1, DeliveredProperties
     DEF ServiceInv, ServiceTypeOK, RespondAtOnce, handlerVars, workerVars, lifeVars
<1>3. NodeTypeOK'
  BY DEF ServiceInv, NodeTypeOK, RespondAtOnce, nodeVars
<1>4. WorkerShape'
  BY DEF ServiceInv, WorkerShape, RespondAtOnce, workerVars, lifeVars
<1>5. NoOrphanedWaiter'
  BY <1>1, DeliveredProperties
     DEF ServiceInv, NoOrphanedWaiter, RespondAtOnce, handlerVars, workerVars
<1> QED
  BY <1>2, <1>3, <1>4, <1>5 DEF ServiceInv

(* The worker takes the first request of the queue and calls the node. *)
LEMMA SubmitPreserves ==
    ASSUME ServiceInv, NEW r \in Requests, Submit(r)
    PROVE  ServiceInv'
<1>1. chan' \in Seq(Requests) /\ Range(chan) = {r} \cup Range(chan')
  BY RangeHeadTail DEF Submit, Next1, ServiceInv, ServiceTypeOK
<1>2. ServiceTypeOK'
  BY <1>1 DEF ServiceInv, ServiceTypeOK, Submit, NodeAnswer, handlerVars, lifeVars
<1>3. NodeTypeOK'
  <2>1. [req |-> r, nonce |-> nonce, at |-> sends] \in Message
    BY DEF ServiceInv, ServiceTypeOK, NodeTypeOK, Message
  <2> QED
    BY <2>1 DEF ServiceInv, NodeTypeOK, Submit, Transmit
<1>4. WorkerShape'
  BY DEF ServiceInv, WorkerShape, Submit, Next1, lifeVars
<1>5. NoOrphanedWaiter'
  BY <1>1 DEF ServiceInv, NoOrphanedWaiter, Submit, Next1, handlerVars
<1> QED
  BY <1>2, <1>3, <1>4, <1>5 DEF ServiceInv

(* The worker answers the request whose call has ended and carries on. *)
LEMMA RespondPreserves ==
    ASSUME ServiceInv, NEW r \in Requests, NEW v \in Response, Respond(r, v),
           nonce' \in Nat, told' \in [Requests -> Told]
    PROVE  ServiceInv'
<1>1. ServiceTypeOK'
  BY DeliveredProperties
     DEF ServiceInv, ServiceTypeOK, Respond, NodeAnswer, handlerVars, lifeVars
<1>2. NodeTypeOK'
  BY DEF ServiceInv, NodeTypeOK, Respond, nodeVars
<1>3. WorkerShape'
  BY DEF ServiceInv, WorkerShape, Respond, lifeVars
<1>4. NoOrphanedWaiter'
  BY DeliveredProperties DEF ServiceInv, NoOrphanedWaiter, Respond, handlerVars
<1> QED
  BY <1>1, <1>2, <1>3, <1>4 DEF ServiceInv

(* The worker answers the request whose call has ended and returns: whoever
   waits in its queue finds the response channel closed. *)
LEMMA RespondAndEndPreserves ==
    ASSUME ServiceInv, NEW r \in Requests, NEW v \in Response, RespondAndEnd(r, v),
           nonce' \in Nat, told' \in [Requests -> Told]
    PROVE  ServiceInv'
<1>1. ServiceTypeOK'
  <2>1. slot' \in [Requests -> Slot]
    BY DeliveredProperties DEF RespondAndEnd, Slot
  <2>2. chan' \in Seq(Requests)
    BY DEF RespondAndEnd
  <2> QED
    BY <2>1, <2>2 DEF ServiceInv, ServiceTypeOK, RespondAndEnd, NodeAnswer, handlerVars, lifeVars
<1>2. NodeTypeOK'
  BY DEF ServiceInv, NodeTypeOK, RespondAndEnd, nodeVars
<1>3. WorkerShape'
  BY DEF ServiceInv, WorkerShape, RespondAndEnd, lifeVars
<1>4. NoOrphanedWaiter'
  <2> SUFFICES ASSUME NEW q \in Requests, hs[q] = "waiting"
               PROVE  slot'[q] # "empty"
    BY DEF NoOrphanedWaiter, RespondAndEnd, handlerVars
  <2> QED
    BY DeliveredProperties DEF ServiceInv, NoOrphanedWaiter, RespondAndEnd
<1> QED
  BY <1>1, <1>2, <1>3, <1>4 DEF ServiceInv

(* The worker returns when nobody can send to it any more. *)
LEMMA SendersGonePreserves ==
    ASSUME ServiceInv, SendersGone
    PROVE  ServiceInv'
<1>1. ServiceTypeOK'
  BY DEF ServiceInv, ServiceTypeOK, SendersGone, handlerVars, lifeVars
<1>2. NodeTypeOK'
  BY DEF ServiceInv, NodeTypeOK, SendersGone, nodeVars
<1>3. WorkerShape'
  BY DEF ServiceInv, WorkerShape, SendersGone, lifeVars
<1>4. NoOrphanedWaiter'
  BY DEF ServiceInv, NoOrphanedWaiter, SendersGone, Active, handlerVars
<1> QED
  BY <1>1, <1>2, <1>3, <1>4 DEF ServiceInv

-----------------------------------------------------------------------------
(* The node and the process. *)

(* The node changes its own state, and the answer it gives the worker. *)
LEMMA NodePreserves ==
    ASSUME ServiceInv, Node
    PROVE  ServiceInv'
<1>1. ASSUME NEW m \in inflight, Admit(m)
      PROVE  NodeTypeOK'
  <2>1. m \in Message
    BY DEF ServiceInv, NodeTypeOK
  <2> QED
    BY <1>1, <2>1 DEF ServiceInv, NodeTypeOK, Admit
<1>2. ASSUME NEW m \in inflight, Refuse(m)
      PROVE  NodeTypeOK'
  BY <1>2 DEF ServiceInv, NodeTypeOK, Refuse
<1>3. ASSUME Finalize
      PROVE  NodeTypeOK'
  <2>1. Head(pending) \in Message /\ Tail(pending) \in Seq(Message)
    BY <1>3, RangeHeadTail DEF ServiceInv, NodeTypeOK, Finalize
  <2> QED
    BY <1>3, <2>1 DEF ServiceInv, NodeTypeOK, Finalize
<1>4. ASSUME Expire
      PROVE  NodeTypeOK'
  <2>1. Range(pending) \subseteq Message
    BY RangeType DEF ServiceInv, NodeTypeOK
  <2>2. pending' \in Seq(Message)
    BY <1>4 DEF Expire
  <2> QED
    BY <1>4, <2>1, <2>2 DEF ServiceInv, NodeTypeOK, Expire
<1>5. ASSUME NodeTypeOK', answer' \in NodeAnswer,
             UNCHANGED <<handlerVars, slot, chan, worker, current, nonce, told, lifeVars>>
      PROVE  ServiceInv'
  <2>1. ServiceTypeOK'
    BY <1>5 DEF ServiceInv, ServiceTypeOK, handlerVars, lifeVars
  <2>2. WorkerShape'
    BY <1>5 DEF ServiceInv, WorkerShape, lifeVars
  <2>3. NoOrphanedWaiter'
    BY <1>5 DEF ServiceInv, NoOrphanedWaiter, handlerVars
  <2> QED
    BY <1>5, <2>1, <2>2, <2>3 DEF ServiceInv
<1>6. ASSUME NEW m \in inflight, NodeAdmits(m)
      PROVE  ServiceInv'
  BY <1>6, <1>1, <1>5 DEF NodeAdmits, ServiceInv, ServiceTypeOK, NodeAnswer
<1>7. ASSUME NEW m \in inflight, NodeRefuses(m)
      PROVE  ServiceInv'
  BY <1>7, <1>2, <1>5 DEF NodeRefuses, ServiceInv, ServiceTypeOK, NodeAnswer
<1>8. ASSUME ChainMoves
      PROVE  ServiceInv'
  BY <1>8, <1>3, <1>4, <1>5
     DEF ChainMoves, ServiceInv, ServiceTypeOK, serviceVars, handlerVars, lifeVars
<1> QED
  BY <1>6, <1>7, <1>8 DEF Node

(* A start takes over the node's number; nobody waits yet. *)
LEMMA StartPreserves ==
    ASSUME ServiceInv, Start
    PROVE  ServiceInv'
<1>1. NextNonce \in Nat
  BY LenProperties DEF ServiceInv, NodeTypeOK, NextNonce
<1>2. starts + 1 \in 0..MaxStarts
  BY ServiceAssumption DEF ServiceInv, ServiceTypeOK, Start
<1>3. ServiceTypeOK'
  BY <1>1, <1>2 DEF ServiceInv, ServiceTypeOK, Start, handlerVars
<1>4. NodeTypeOK'
  BY DEF ServiceInv, NodeTypeOK, Start, nodeVars
<1>5. WorkerShape'
  BY DEF ServiceInv, WorkerShape, Start
<1>6. NoOrphanedWaiter'
  BY DEF ServiceInv, NoOrphanedWaiter, Start, handlerVars
<1> QED
  BY <1>3, <1>4, <1>5, <1>6 DEF ServiceInv

(* When the process ends, nobody waits any more. *)
LEMMA HaltPreserves ==
    ASSUME ServiceInv, Halt
    PROVE  ServiceInv'
<1>1. ServiceTypeOK'
  <2>1. hs' \in [Requests -> HandlerState] /\ slot' \in [Requests -> Slot]
    BY DEF Halt, HandlerState, Slot
  <2>2. chan' \in Seq(Requests)
    BY DEF Halt
  <2>3. died' \in BOOLEAN
    BY DEF Halt
  <2> QED
    BY <2>1, <2>2, <2>3 DEF ServiceInv, ServiceTypeOK, Halt, NodeAnswer
<1>2. NodeTypeOK'
  BY DEF ServiceInv, NodeTypeOK, Halt, nodeVars
<1>3. WorkerShape'
  BY DEF WorkerShape, Halt
<1>4. NoOrphanedWaiter'
  BY DEF NoOrphanedWaiter, Halt
<1> QED
  BY <1>1, <1>2, <1>3, <1>4 DEF ServiceInv

(* The aborted worker drops the response senders it held. *)
LEMMA MainAbortsPreserves ==
    ASSUME ServiceInv, MainAborts
    PROVE  ServiceInv'
<1>1. ServiceTypeOK'
  <2>1. slot' \in [Requests -> Slot]
    BY DEF ServiceInv, ServiceTypeOK, MainAborts, Slot
  <2>2. chan' \in Seq(Requests)
    BY DEF MainAborts
  <2> QED
    BY <2>1, <2>2 DEF ServiceInv, ServiceTypeOK, MainAborts, NodeAnswer, handlerVars
<1>2. NodeTypeOK'
  BY DEF ServiceInv, NodeTypeOK, MainAborts, nodeVars
<1>3. WorkerShape'
  BY DEF ServiceInv, WorkerShape, MainAborts
<1>4. NoOrphanedWaiter'
  <2> SUFFICES ASSUME NEW q \in Requests, hs[q] = "waiting"
               PROVE  slot'[q] # "empty"
    BY DEF NoOrphanedWaiter, MainAborts, handlerVars
  <2> QED
    BY DEF MainAborts
<1> QED
  BY <1>1, <1>2, <1>3, <1>4 DEF ServiceInv

(* The steps of start_services that concern neither worker nor handlers. *)
LEMMA LifePreserves ==
    ASSUME ServiceInv,
           TaskEnded \/ Signal \/ ServerDrains \/ ServerFinishes \/ ServerFails \/ MainStops
    PROVE  ServiceInv'
<1> USE DEF TaskEnded, Signal, ServerDrains, ServerFinishes, ServerFails, MainStops
<1>1. died' \in BOOLEAN
  BY DEF ServiceInv, ServiceTypeOK
<1>2. ServiceTypeOK'
  BY <1>1 DEF ServiceInv, ServiceTypeOK, handlerVars, workerVars
<1>3. NodeTypeOK'
  BY DEF ServiceInv, NodeTypeOK, nodeVars
<1>4. WorkerShape'
  BY DEF ServiceInv, WorkerShape, workerVars
<1>5. NoOrphanedWaiter'
  BY DEF ServiceInv, NoOrphanedWaiter, handlerVars, workerVars
<1> QED
  BY <1>2, <1>3, <1>4, <1>5 DEF ServiceInv

(* Start, shutdown and crashes keep the invariant. *)
LEMMA ProcessPreserves ==
    ASSUME ServiceInv, Start \/ Shutdown \/ Interrupt
    PROVE  ServiceInv'
BY StartPreserves, HaltPreserves, MainAbortsPreserves, LifePreserves
   DEF Shutdown, Interrupt, MainReturns, Crash

(* A step that changes nothing of the service and the node. *)
LEMMA StutterPreserves ==
    ASSUME ServiceInv, UNCHANGED <<serviceVars, nodeVars>>
    PROVE  ServiceInv'
BY DEF ServiceInv, ServiceTypeOK, NodeTypeOK, WorkerShape, NoOrphanedWaiter,
       serviceVars, nodeVars

-----------------------------------------------------------------------------
(* The ledger: sequence numbers and answers.  ServiceInv with RequestsInv and
   NumbersInv is LedgerInv, which each action preserves, and which implies
   NonceTracksNode, AtMostOneUnacknowledged and ReplyTruthful. *)


(* The answers that say that a transaction was not made. *)
Refusals == {"bad_request", "too_many_requests"}

(* Nothing of r is on the chain, or on its way there. *)
NotSent(r) == \A m \in Sent : m.req # r

(* The transactions the account holds. *)
Held == Range(final) \cup Range(pending)

(* What this run of the process sent, and what it got acknowledged. *)
Mine == {m \in Sent : m.req \in ThisRun}
Counted == {m \in Mine : m.req \in Acked}

(* How far this run has come by what the node answered: the worker's number,
   or one more while the worker has yet to count an acknowledgement. *)
Reached == IF answer = "ok" THEN nonce + 1 ELSE nonce

-----------------------------------------------------------------------------
(* The life of a request. *)

(* A request is once in the channel, or with the worker, who takes it up once;
   until then nobody has answered it. *)
QueuedOnce ==
    /\ \A i, j \in 1..Len(chan) : chan[i] = chan[j] => i = j
    /\ \A q, r \in current : q = r
    /\ Range(chan) \cap current = {}
    /\ current = {} => answer = "none"
    /\ \A r \in Range(chan) \cup current :
          /\ hs[r] \in {"waiting", "done"}
          /\ told[r] = "nothing"
          /\ slot[r] = "empty"
          /\ reply[r] \notin {"ok"} \cup Refusals

(* Nothing is sent for a request before the worker has taken it. *)
NothingBefore ==
    /\ \A r \in Requests : hs[r] \in {"idle", "sending"} =>
          told[r] = "nothing" /\ reply[r] = "none" /\ slot[r] = "empty" /\ NotSent(r)
    /\ \A r \in Range(chan) : NotSent(r)

(* What client and worker know of a request is true. *)
AnswersAreTrue ==
    \A r \in Requests :
        /\ "ok" \in {reply[r], slot[r]} => told[r] = "ok"
        /\ {reply[r], slot[r]} \cap Refusals # {} => NotSent(r)
        /\ told[r] = "ok" => \E m \in EverAdmitted : m.req = r
        /\ told[r] = "refused" => NotSent(r)

(* A new run knows none of the requests of the earlier ones, and the worker
   loses sight of no request of its own. *)
RunsApart ==
    /\ main = "down" => server = "down" /\ \A r \in Requests : hs[r] \in {"idle", "gone"}
    /\ worker = "running" => \A m \in Sent :
          told[m.req] = "nothing" => m.req \in current \/ hs[m.req] = "gone"

RequestsInv == QueuedOnce /\ NothingBefore /\ AnswersAreTrue /\ RunsApart

-----------------------------------------------------------------------------
(* The numbers. *)

(* Every request has one transaction at most, which is admitted once. *)
SentOnce ==
    /\ \A a, b \in Sent : a.req = b.req => a = b
    /\ inflight \cap EverAdmitted = {}

(* The transaction of the call that is under way is the youngest, it has the
   worker's number, and the answer tells where it is. *)
CallsOwn ==
    /\ \A m \in Sent : m.req \in current =>
          /\ m.nonce = nonce
          /\ m \in EverAdmitted <=> answer = "ok"
          /\ m \in inflight <=> answer = "none"
          /\ \A o \in Sent : o # m => o.at < m.at
    /\ answer = "ok" => \E m \in EverAdmitted : m.req \in current

(* The account's transactions have the numbers of their places. *)
InOrder ==
    /\ \A i \in 1..Len(final) : final[i].nonce = i
    /\ \A i \in 1..Len(pending) : pending[i].nonce = Len(final) + i
    /\ \A m \in Sent : m.at < sends

(* Below the worker's number is what was acknowledged, and from there on what
   was not. *)
NumbersFit ==
    /\ nonce > 0
    /\ \A m \in Mine : m.nonce <= nonce
    /\ \A m \in Counted : m.nonce < nonce
    /\ \A m \in Held : m.req \in Acked => m.nonce < nonce
    /\ \A m \in Held \cap Mine : m.nonce < Reached => m.req \in Acked \cup current
    /\ main # "down" => \A m \in Range(pending) : m.nonce < Reached => m \in Mine

(* A transaction that arrives late does not take a number that was counted:
   whatever has the number of a counted one is older, so that it expires
   first; and when the account has fallen back behind the worker's number, to
   which only an expired transaction can lead, there is nothing left that the
   node could admit. *)
LateComersMiss ==
    /\ Reached > NextNonce => \A m \in inflight : m.nonce # NextNonce
    /\ \A p \in Range(pending), m \in inflight :
          p.nonce < Reached /\ m.nonce = p.nonce => m.at < p.at
    /\ worker = "running" /\ nonce > NextNonce => expired \cap Counted # {}

NumbersInv == SentOnce /\ CallsOwn /\ InOrder /\ NumbersFit /\ LateComersMiss

LedgerInv == ServiceInv /\ RequestsInv /\ NumbersInv

-----------------------------------------------------------------------------
(* Types and frames. *)

(* Nothing is in an empty queue. *)
LEMMA RangeEmpty == Range(<< >>) = {}
BY DEF Range

(* The messages and numbers have their types. *)
LEMMA LedgerTypes ==
    ASSUME ServiceInv
    PROVE  /\ Sent \subseteq Message /\ EverAdmitted \subseteq Message
           /\ Held \subseteq EverAdmitted /\ EverAdmitted \subseteq Sent
           /\ inflight \subseteq Sent /\ Sent = EverAdmitted \cup inflight
           /\ Range(pending) \subseteq Held /\ expired \subseteq EverAdmitted
           /\ EverAdmitted = Held \cup expired
           /\ Mine \subseteq Sent /\ Counted \subseteq Mine
           /\ \A m \in Sent : m.req \in Requests /\ m.nonce \in Nat /\ m.at \in Nat
           /\ nonce \in Nat /\ Reached \in Nat /\ NextNonce \in Nat /\ sends \in Nat
           /\ Len(final) \in Nat /\ Len(pending) \in Nat
<1>1. /\ final \in Seq(Message) /\ pending \in Seq(Message) /\ expired \subseteq Message
      /\ inflight \subseteq Message /\ sends \in Nat /\ nonce \in Nat
  BY DEF ServiceInv, ServiceTypeOK, NodeTypeOK
<1>2. Range(final) \subseteq Message /\ Range(pending) \subseteq Message
  BY <1>1, RangeType
<1>3. Len(final) \in Nat /\ Len(pending) \in Nat
  BY <1>1, LenProperties
<1>4. Sent \subseteq Message
  BY <1>1, <1>2 DEF Sent, EverAdmitted
<1>5. \A m \in Message : m.req \in Requests /\ m.nonce \in Nat /\ m.at \in Nat
  BY DEF Message
<1> QED
  BY <1>1, <1>2, <1>3, <1>4, <1>5
     DEF Sent, EverAdmitted, Held, Mine, Counted, Reached, NextNonce

(* Where nothing of the node changes, no set of its messages does. *)
LEMMA NodeStays ==
    ASSUME UNCHANGED nodeVars
    PROVE  /\ UNCHANGED <<final, pending, expired, inflight, sends>>
           /\ Sent' = Sent /\ EverAdmitted' = EverAdmitted /\ Held' = Held
           /\ NextNonce' = NextNonce /\ Range(pending)' = Range(pending)
           /\ \A r : NotSent(r)' <=> NotSent(r)
BY DEF nodeVars, Sent, EverAdmitted, Held, NextNonce, NotSent

(* A step that changes nothing of the node, the worker's number and its
   acknowledgements leaves the numbers right, whether the call goes on or is
   given up, and whether the run goes on or ends. *)
LEMMA NumbersStay ==
    ASSUME LedgerInv, UNCHANGED <<nodeVars, nonce, Acked>>,
           \/ current' = current /\ answer' = answer
           \/ current' = {} /\ answer' = "none",
           Mine' = Mine \/ (Mine' = {} /\ main' = "down"),
           main = "down" => main' = "down",
           worker' = "running" => worker = "running" /\ main' # "down"
    PROVE  NumbersInv'
<1>1. ServiceInv /\ SentOnce /\ CallsOwn /\ InOrder /\ NumbersFit /\ LateComersMiss
  BY DEF LedgerInv, NumbersInv
<1>2. Reached' <= Reached /\ nonce' = nonce /\ Acked' = Acked /\ Reached' \in Nat
  BY <1>1, LedgerTypes DEF Reached
<1>3. SentOnce'
  BY <1>1, NodeStays DEF SentOnce
<1>4. CallsOwn'
  BY <1>1, NodeStays DEF CallsOwn
<1>5. InOrder'
  BY <1>1, NodeStays DEF InOrder
<1>6. /\ Counted' \subseteq Counted /\ Mine' \subseteq Mine
      /\ main' # "down" => Counted' = Counted /\ Mine' = Mine /\ main # "down"
  BY <1>2 DEF Counted
<1>7. NumbersFit'
  <2>1. ASSUME NEW m \in Held \cap Mine', m.nonce < Reached'
        PROVE  m.req \in Acked \cup current'
    <3>1. m \in Mine /\ m \in Sent /\ m.nonce \in Nat /\ m.nonce < Reached
      BY <2>1, <1>1, <1>2, <1>6, LedgerTypes
    <3>2. m.req \in Acked \cup current
      BY <2>1, <3>1, <1>1 DEF NumbersFit
    <3>3. CASE m.req \in current /\ answer' = "none"
      BY <2>1, <3>1, <3>3, <1>1, <1>2 DEF CallsOwn, Reached
    <3> QED
      BY <3>2, <3>3
  <2>2. ASSUME NEW m \in Range(pending), m.nonce < Reached', main' # "down"
        PROVE  m \in Mine'
    <3>1. m.nonce \in Nat /\ m.nonce < Reached
      BY <2>2, <1>1, <1>2, LedgerTypes
    <3> QED
      BY <2>2, <3>1, <1>1, <1>6 DEF NumbersFit
  <2>3. /\ nonce > 0
        /\ \A m \in Mine' : m.nonce <= nonce
        /\ \A m \in Counted' : m.nonce < nonce
        /\ \A m \in Held : m.req \in Acked => m.nonce < nonce
    BY <1>1, <1>6 DEF NumbersFit
  <2> QED
    BY <2>1, <2>2, <2>3, <1>2, NodeStays DEF NumbersFit
<1>8. LateComersMiss'
  <2>1. Reached' > NextNonce => \A m \in inflight : m.nonce # NextNonce
    BY <1>1, <1>2, LedgerTypes DEF LateComersMiss
  <2>2. ASSUME NEW p \in Range(pending), NEW m \in inflight,
               p.nonce < Reached', m.nonce = p.nonce
        PROVE  m.at < p.at
    <3>1. p.nonce \in Nat /\ p.nonce < Reached
      BY <2>2, <1>1, <1>2, LedgerTypes
    <3> QED
      BY <2>2, <3>1, <1>1 DEF LateComersMiss
  <2>3. worker' = "running" /\ nonce > NextNonce => expired \cap Counted' # {}
    BY <1>1, <1>6 DEF LateComersMiss
  <2> QED
    BY <2>1, <2>2, <2>3, <1>2, NodeStays DEF LateComersMiss
<1> QED
  BY <1>3, <1>4, <1>5, <1>7, <1>8 DEF NumbersInv

-----------------------------------------------------------------------------
(* The request handlers. *)

(* A handler that ends has not been told more than is true. *)
LEMMA FinishLedger ==
    ASSUME LedgerInv, NEW r \in Requests, NEW status \in Reply, Finish(r, status),
           main # "down", hs[r] # "gone",
           status = "ok" => told[r] = "ok",
           status \in Refusals => NotSent(r),
           status \in {"ok"} \cup Refusals => r \notin Range(chan) \cup current
    PROVE  LedgerInv'
<1>1. /\ ServiceInv /\ QueuedOnce /\ NothingBefore /\ AnswersAreTrue /\ RunsApart
      /\ hs \in [Requests -> HandlerState] /\ reply \in [Requests -> Reply]
      /\ slot \in [Requests -> Slot]
  BY DEF LedgerInv, RequestsInv, ServiceInv, ServiceTypeOK
<1>2. /\ hs' = [hs EXCEPT ![r] = "done"] /\ reply' = [reply EXCEPT ![r] = status]
      /\ slot' = [slot EXCEPT ![r] = "empty"]
      /\ UNCHANGED <<chan, worker, current, answer, nonce, told, main, server, nodeVars>>
      /\ \A q : NotSent(q)' <=> NotSent(q)
      /\ Sent' = Sent /\ EverAdmitted' = EverAdmitted
  BY NodeStays DEF Finish, workerVars, lifeVars
<1>3. ServiceInv'
  BY <1>1, FinishPreserves
<1>4. QueuedOnce'
  BY <1>1, <1>2 DEF QueuedOnce
<1>5. NothingBefore'
  BY <1>1, <1>2 DEF NothingBefore
<1>6. AnswersAreTrue'
  BY <1>1, <1>2 DEF AnswersAreTrue, Refusals
<1>7. RunsApart'
  BY <1>1, <1>2, LedgerTypes DEF RunsApart
<1>8. Mine' = Mine
  <2>1. hs[r] = "idle" => NotSent(r)
    BY <1>1 DEF NothingBefore
  <2>2. \A q \in Requests : q # r => (q \in ThisRun' <=> q \in ThisRun)
    BY <1>1, <1>2 DEF ThisRun
  <2>3. r \in ThisRun' /\ (r \in ThisRun \/ NotSent(r))
    BY <1>1, <1>2, <2>1 DEF ThisRun, HandlerState
  <2> QED
    BY <1>1, <1>2, <2>2, <2>3, LedgerTypes DEF Mine, NotSent
<1>9. NumbersInv'
  BY <1>2, <1>8, <1>3, NumbersStay DEF Acked, ServiceInv, WorkerShape
<1> QED
  BY <1>3, <1>4, <1>5, <1>6, <1>7, <1>9 DEF LedgerInv, RequestsInv

(* A request arrives, and waits for a place in the channel. *)
LEMMA ArriveLedger ==
    ASSUME LedgerInv, NEW r \in Requests, Arrive(r)
    PROVE  LedgerInv'
<1>1. /\ ServiceInv /\ QueuedOnce /\ NothingBefore /\ AnswersAreTrue /\ RunsApart
      /\ hs \in [Requests -> HandlerState]
  BY DEF LedgerInv, RequestsInv, ServiceInv, ServiceTypeOK
<1>2. /\ hs[r] = "idle" /\ hs' = [hs EXCEPT ![r] = "sending"] /\ server = "up"
      /\ UNCHANGED <<reply, slot, chan, worker, current, answer, nonce, told,
                     main, server, nodeVars>>
      /\ \A q : NotSent(q)' <=> NotSent(q)
      /\ Sent' = Sent /\ EverAdmitted' = EverAdmitted
  BY NodeStays DEF Arrive, workerVars, lifeVars
<1>3. ServiceInv'
  BY <1>1, HandlerPreserves DEF Handler
<1>4. QueuedOnce'
  BY <1>1, <1>2 DEF QueuedOnce
<1>5. NothingBefore'
  BY <1>1, <1>2 DEF NothingBefore
<1>6. AnswersAreTrue'
  BY <1>1, <1>2 DEF AnswersAreTrue
<1>7. main # "down" /\ NotSent(r)
  BY <1>1, <1>2 DEF RunsApart, NothingBefore
<1>8. RunsApart'
  BY <1>1, <1>2, <1>7, LedgerTypes DEF RunsApart, NotSent
<1>9. Mine' = Mine
  <2>1. \A q \in Requests : q # r => (q \in ThisRun' <=> q \in ThisRun)
    BY <1>1, <1>2 DEF ThisRun
  <2> QED
    BY <1>1, <1>2, <1>7, <2>1, LedgerTypes DEF Mine, NotSent
<1>10. NumbersInv'
  BY <1>2, <1>7, <1>9, NumbersStay DEF Acked
<1> QED
  BY <1>3, <1>4, <1>5, <1>6, <1>8, <1>10 DEF LedgerInv, RequestsInv

(* It gets one, behind requests that are not it. *)
LEMMA EnqueueLedger ==
    ASSUME LedgerInv, NEW r \in Requests, Enqueue(r)
    PROVE  LedgerInv'
<1>1. /\ ServiceInv /\ QueuedOnce /\ NothingBefore /\ AnswersAreTrue /\ RunsApart
      /\ hs \in [Requests -> HandlerState] /\ chan \in Seq(Requests)
  BY DEF LedgerInv, RequestsInv, ServiceInv, ServiceTypeOK
<1>2. /\ hs[r] = "sending" /\ hs' = [hs EXCEPT ![r] = "waiting"]
      /\ chan' = Append(chan, r)
      /\ UNCHANGED <<reply, slot, worker, current, answer, nonce, told,
                     main, server, nodeVars>>
      /\ \A q : NotSent(q)' <=> NotSent(q)
      /\ Sent' = Sent /\ EverAdmitted' = EverAdmitted
  BY NodeStays DEF Enqueue, workerVars, lifeVars
<1>3. ServiceInv'
  BY <1>1, HandlerPreserves DEF Handler
<1>4. Range(chan') = Range(chan) \cup {r} /\ r \notin Range(chan) \cup current
  BY <1>1, <1>2, RangeAppend DEF QueuedOnce
<1>5. /\ told[r] = "nothing" /\ reply[r] = "none" /\ slot[r] = "empty" /\ NotSent(r)
      /\ main # "down"
  BY <1>1, <1>2 DEF NothingBefore, RunsApart
<1>6. QueuedOnce'
  <2>1. \A i, j \in 1..Len(chan') : chan'[i] = chan'[j] => i = j
    <3>1. /\ Len(chan) \in Nat /\ Len(chan') = Len(chan) + 1 /\ chan'[Len(chan) + 1] = r
          /\ \A i \in 1..Len(chan) : chan'[i] = chan[i] /\ chan[i] # r
      BY <1>1, <1>2, <1>4, AppendProperties, LenProperties DEF Range
    <3> QED
      BY <1>1, <3>1 DEF QueuedOnce
  <2> QED
    BY <1>1, <1>2, <1>4, <1>5, <2>1 DEF QueuedOnce, Refusals
<1>7. NothingBefore'
  BY <1>1, <1>2, <1>4, <1>5 DEF NothingBefore
<1>8. AnswersAreTrue'
  BY <1>1, <1>2 DEF AnswersAreTrue
<1>9. RunsApart'
  BY <1>1, <1>2, <1>5, LedgerTypes DEF RunsApart
<1>10. Mine' = Mine
  <2>1. ThisRun' = ThisRun
    BY <1>1, <1>2 DEF ThisRun
  <2> QED
    BY <1>2, <2>1 DEF Mine
<1>11. NumbersInv'
  BY <1>2, <1>5, <1>10, NumbersStay DEF Acked
<1> QED
  BY <1>3, <1>6, <1>7, <1>8, <1>9, <1>11 DEF LedgerInv, RequestsInv

(* What a request handler does keeps the invariant: in particular a request
   that it refuses by itself has never been sent. *)
LEMMA HandlerLedger ==
    ASSUME LedgerInv, NEW r \in Requests, Handler(r)
    PROVE  LedgerInv'
<1>1. /\ QueuedOnce /\ NothingBefore /\ AnswersAreTrue /\ RunsApart
      /\ slot \in [Requests -> Slot]
  BY DEF LedgerInv, RequestsInv, ServiceInv, ServiceTypeOK
<1>2. CASE SendFails(r)
  BY <1>1, <1>2, FinishLedger DEF SendFails, RunsApart, Reply, Refusals
<1>3. CASE GetResponse(r)
  <2>1. PICK status \in Reply :
           /\ Finish(r, status) /\ hs[r] = "waiting" /\ slot[r] # "empty"
           /\ status \in {"ok"} \cup Refusals => status = slot[r]
    BY <1>1, <1>3 DEF GetResponse, Slot, Reply, Refusals
  <2>2. r \notin Range(chan) \cup current /\ main # "down"
    BY <1>1, <2>1 DEF QueuedOnce, RunsApart
  <2>3. status = "ok" => told[r] = "ok"
    BY <1>1, <2>1 DEF AnswersAreTrue, Refusals
  <2>4. status \in Refusals => NotSent(r)
    BY <1>1, <2>1 DEF AnswersAreTrue, Refusals
  <2> QED
    BY <2>1, <2>2, <2>3, <2>4, FinishLedger
<1>4. CASE Cancel(r)
  BY <1>1, <1>4, FinishLedger DEF Cancel, Active, RunsApart, Reply, Refusals
<1>5. CASE RejectRequest(r)
  <2>1. Finish(r, "bad_request") /\ hs[r] = "idle" /\ main # "down" /\ NotSent(r)
    BY <1>1, <1>5 DEF RejectRequest, RunsApart, NothingBefore
  <2>2. r \notin Range(chan) \cup current
    BY <1>1, <2>1 DEF QueuedOnce
  <2> QED
    BY <2>1, <2>2, FinishLedger DEF Reply
<1> QED
  BY <1>2, <1>3, <1>4, <1>5, ArriveLedger, EnqueueLedger DEF Handler

-----------------------------------------------------------------------------
(* The worker. *)

(* The request the worker takes is not in the channel a second time. *)
LEMMA TakeFirst ==
    ASSUME LedgerInv, NEW r \in Requests, Next1(r), chan' = Tail(chan)
    PROVE  /\ Range(chan) = {r} \cup Range(chan') /\ r \notin Range(chan')
           /\ \A i, j \in 1..Len(chan') : chan'[i] = chan'[j] => i = j
<1>1. chan \in Seq(Requests) /\ chan # << >> /\ r = Head(chan) /\ QueuedOnce
  BY DEF LedgerInv, RequestsInv, ServiceInv, ServiceTypeOK, Next1
<1>2. Range(chan) = {r} \cup Range(chan')
  BY <1>1, RangeHeadTail
<1>3. /\ Len(chan) \in Nat /\ Len(chan) # 0 /\ r = chan[1]
      /\ chan' \in Seq(Requests) /\ Len(chan') = Len(chan) - 1
      /\ \A i \in 1..Len(chan') : chan'[i] = chan[i + 1]
  BY <1>1, HeadTailProperties, EmptySeq, LenProperties
<1>4. DOMAIN chan' = 1..Len(chan')
  BY <1>3, LenProperties
<1>5. \A i, j \in 1..Len(chan) : chan[i] = chan[j] => i = j
  BY <1>1 DEF QueuedOnce
<1>6. \A i \in 1..Len(chan') : i + 1 \in 1..Len(chan) /\ 1 \in 1..Len(chan)
  BY <1>3
<1>7. \A i \in 1..Len(chan') : chan'[i] # r
  BY <1>3, <1>5, <1>6
<1>8. \A i, j \in 1..Len(chan') : chan'[i] = chan'[j] => i = j
  BY <1>3, <1>5, <1>6
<1> QED
  BY <1>2, <1>4, <1>7, <1>8 DEF Range

(* The worker answers a request without a call: it refuses it, and nothing of
   it was ever sent. *)
LEMMA RespondAtOnceLedger ==
    ASSUME LedgerInv, NEW r \in Requests, NEW v \in Response, v # "ok", RespondAtOnce(r, v)
    PROVE  LedgerInv'
<1>1. /\ ServiceInv /\ QueuedOnce /\ NothingBefore /\ AnswersAreTrue /\ RunsApart
      /\ hs \in [Requests -> HandlerState] /\ slot \in [Requests -> Slot]
  BY DEF LedgerInv, RequestsInv, ServiceInv, ServiceTypeOK
<1>2. /\ chan' = Tail(chan) /\ slot' = Delivered(r, v)
      /\ UNCHANGED <<hs, reply, worker, current, answer, nonce, told, main, server, nodeVars>>
      /\ \A q : NotSent(q)' <=> NotSent(q)
      /\ Sent' = Sent /\ EverAdmitted' = EverAdmitted
  BY NodeStays DEF RespondAtOnce, handlerVars, workerVars, lifeVars
<1>3. ServiceInv'
  BY <1>1, RespondAtOncePreserves
<1>4. /\ Range(chan) = {r} \cup Range(chan') /\ r \notin Range(chan')
      /\ \A i, j \in 1..Len(chan') : chan'[i] = chan'[j] => i = j
  BY <1>2, TakeFirst DEF RespondAtOnce
<1>5. /\ \A q \in Requests : q # r => slot'[q] = slot[q]
      /\ slot'[r] = slot[r] \/ slot'[r] = v
      /\ hs[r] \in {"waiting", "done"} /\ NotSent(r)
  BY <1>1, <1>2, <1>4 DEF Delivered, QueuedOnce, NothingBefore
<1>6. QueuedOnce'
  BY <1>1, <1>2, <1>4, <1>5, RangeType, <1>3
     DEF QueuedOnce, ServiceInv, ServiceTypeOK
<1>7. NothingBefore'
  BY <1>1, <1>2, <1>4, <1>5 DEF NothingBefore
<1>8. AnswersAreTrue'
  BY <1>1, <1>2, <1>5 DEF AnswersAreTrue
<1>9. RunsApart'
  BY <1>1, <1>2 DEF RunsApart
<1>10. NumbersInv'
  <2>1. ThisRun' = ThisRun /\ Mine' = Mine /\ Acked' = Acked
    BY <1>2 DEF ThisRun, Mine, Acked
  <2>2. worker' = "running" => worker = "running" /\ main' # "down"
    BY <1>1, <1>2 DEF ServiceInv, WorkerShape
  <2> QED
    BY <1>2, <2>1, <2>2, NumbersStay
<1> QED
  BY <1>3, <1>6, <1>7, <1>8, <1>9, <1>10 DEF LedgerInv, RequestsInv

(* Whatever the worker answers at the end of a call, the requests stay right
   when the answer is what the node told it. *)
LEMMA EndLedger ==
    ASSUME LedgerInv, NEW r \in Requests, NEW v \in Response, NEW t \in Told \ {"nothing"},
           Respond(r, v) \/ RespondAndEnd(r, v), told' = [told EXCEPT ![r] = t],
           v = "ok" => t = "ok", v \in Refusals => t = "refused",
           t = "ok" => \E m \in EverAdmitted : m.req = r, t = "refused" => NotSent(r),
           nonce' \in Nat, NumbersInv'
    PROVE  LedgerInv'
<1>1. /\ ServiceInv /\ QueuedOnce /\ NothingBefore /\ AnswersAreTrue /\ RunsApart
      /\ hs \in [Requests -> HandlerState] /\ slot \in [Requests -> Slot]
      /\ told \in [Requests -> Told] /\ chan \in Seq(Requests)
  BY DEF LedgerInv, RequestsInv, ServiceInv, ServiceTypeOK
<1>2. /\ current = {r} /\ current' = {} /\ answer' = "none"
      /\ UNCHANGED <<hs, reply, main, server, nodeVars>>
      /\ worker' = "running" => worker = "running"
      /\ \A q : NotSent(q)' <=> NotSent(q)
      /\ Sent' = Sent /\ EverAdmitted' = EverAdmitted
  BY NodeStays DEF Respond, RespondAndEnd, handlerVars, lifeVars
<1>3. ServiceInv'
  <2>1. told' \in [Requests -> Told]
    BY <1>1
  <2> QED
    BY <1>1, <2>1, RespondPreserves, RespondAndEndPreserves
<1>4. chan' = chan \/ chan' = << >>
  BY DEF Respond, RespondAndEnd
<1>5. Range(chan') \subseteq Range(chan) /\ r \notin Range(chan')
  BY <1>1, <1>2, <1>4, RangeEmpty DEF QueuedOnce
<1>6. /\ \A q \in Requests : q # r =>
            slot'[q] = slot[q] \/ (slot'[q] = "closed" /\ hs[q] = "waiting" /\ chan' = << >>)
      /\ slot'[r] = slot[r] \/ slot'[r] = v
      /\ hs[r] \in {"waiting", "done"}
  BY <1>1, <1>2 DEF Delivered, QueuedOnce, Respond, RespondAndEnd
<1>7. QueuedOnce'
  <2>1. \A i, j \in 1..Len(chan') : chan'[i] = chan'[j] => i = j
    BY <1>1, <1>4 DEF QueuedOnce
  <2>2. \A q \in Range(chan') : /\ q \in Requests /\ q # r /\ slot'[q] = slot[q]
                                 /\ told'[q] = told[q]
    BY <1>1, <1>4, <1>5, <1>6, RangeType, RangeEmpty
  <2> QED
    BY <1>1, <1>2, <1>5, <2>1, <2>2 DEF QueuedOnce
<1>8. NothingBefore'
  BY <1>1, <1>2, <1>5, <1>6 DEF NothingBefore
<1>9. AnswersAreTrue'
  <2> SUFFICES ASSUME NEW q \in Requests
               PROVE  /\ "ok" \in {reply[q], slot'[q]} => told'[q] = "ok"
                      /\ {reply[q], slot'[q]} \cap Refusals # {} => NotSent(q)
                      /\ told'[q] = "ok" => \E m \in EverAdmitted : m.req = q
                      /\ told'[q] = "refused" => NotSent(q)
    BY <1>2 DEF AnswersAreTrue
  <2>1. CASE q # r
    BY <1>1, <1>6, <2>1 DEF AnswersAreTrue, Refusals
  <2>2. CASE q = r
    <3>1. reply[r] \notin {"ok"} \cup Refusals /\ slot[r] = "empty" /\ told'[r] = t
      BY <1>1, <1>2 DEF QueuedOnce
    <3> QED
      BY <1>6, <2>2, <3>1 DEF Refusals
  <2> QED
    BY <2>1, <2>2
<1>10. RunsApart'
  <2>1. \A q \in Requests : told'[q] = "nothing" => told[q] = "nothing" /\ q # r
    BY <1>1
  <2> QED
    BY <1>1, <1>2, <2>1, LedgerTypes DEF RunsApart
<1> QED
  BY <1>3, <1>7, <1>8, <1>9, <1>10 DEF LedgerInv, RequestsInv

(* A call that was refused or not answered leaves the numbers as they are. *)
LEMMA NotAcknowledgedLedger ==
    ASSUME LedgerInv, NEW r \in Requests, NEW v \in Response \ {"ok"},
           Respond(r, v) \/ RespondAndEnd(r, v),
           \/ \E why \in {"invalid_argument", "node_rejected"} : Refused(r, why)
           \/ Unanswered(r) /\ v \notin Refusals
    PROVE  LedgerInv'
<1>1. /\ ServiceInv /\ QueuedOnce /\ CallsOwn /\ told \in [Requests -> Told] /\ nonce \in Nat
      /\ main = "down" => worker = "off"
  BY DEF LedgerInv, RequestsInv, NumbersInv, ServiceInv, ServiceTypeOK, WorkerShape
<1>2. PICK t \in {"refused", "no_answer"} :
         /\ told' = [told EXCEPT ![r] = t] /\ nonce' = nonce
         /\ t = "refused" => answer \in {"invalid_argument", "node_rejected"}
         /\ v \in Refusals => t = "refused"
  BY DEF Refused, Unanswered
<1>3. /\ current = {r} /\ current' = {} /\ answer' = "none"
      /\ UNCHANGED <<hs, main, nodeVars>> /\ (worker' = "running" => worker = "running")
  BY DEF Respond, RespondAndEnd, handlerVars, lifeVars
<1>4. t = "refused" => NotSent(r)
  BY <1>1, <1>2, <1>3, LedgerTypes DEF CallsOwn, NotSent
<1>5. Acked' = Acked /\ Mine' = Mine
  <2>1. told[r] = "nothing"
    BY <1>1, <1>3 DEF QueuedOnce
  <2>2. Acked' = Acked
    BY <1>1, <1>2, <2>1 DEF Acked
  <2>3. ThisRun' = ThisRun /\ Sent' = Sent
    BY <1>3, NodeStays DEF ThisRun
  <2> QED
    BY <2>2, <2>3 DEF Mine
<1>6. NumbersInv'
  BY <1>1, <1>2, <1>3, <1>5, NumbersStay
<1> QED
  BY <1>1, <1>2, <1>4, <1>6, EndLedger DEF Told

(* The numbers of the account's transactions, as places. *)
LEMMA PlacesFit ==
    ASSUME ServiceInv, InOrder
    PROVE  /\ \A m \in Range(final) : m.nonce \in 1..Len(final)
           /\ \A m \in Range(pending) : m.nonce \in Len(final) + 1..NextNonce - 1
           /\ \A a, b \in Held : a.nonce = b.nonce => a = b
<1>1. /\ final \in Seq(Message) /\ pending \in Seq(Message)
      /\ Len(final) \in Nat /\ Len(pending) \in Nat
      /\ DOMAIN final = 1..Len(final) /\ DOMAIN pending = 1..Len(pending)
  BY LenProperties DEF ServiceInv, NodeTypeOK
<1>2. ASSUME NEW m \in Range(final)
      PROVE  m.nonce \in 1..Len(final) /\ m = final[m.nonce]
  BY <1>1, <1>2 DEF Range, InOrder
<1>3. ASSUME NEW m \in Range(pending)
      PROVE  /\ m.nonce \in Len(final) + 1..Len(final) + Len(pending)
             /\ m = pending[m.nonce - Len(final)]
  <2>1. PICK i \in 1..Len(pending) : m = pending[i]
    BY <1>1, <1>3 DEF Range
  <2>2. m.nonce = Len(final) + i
    BY <2>1 DEF InOrder
  <2>3. m.nonce - Len(final) = i
    BY <1>1, <2>2
  <2> QED
    BY <1>1, <2>1, <2>2, <2>3
<1>4. ASSUME NEW a \in Held, NEW b \in Held, a.nonce = b.nonce
      PROVE  a = b
  <2>1. CASE a \in Range(final) /\ b \in Range(final)
    BY <1>2, <1>4, <2>1
  <2>2. CASE a \in Range(pending) /\ b \in Range(pending)
    BY <1>3, <1>4, <2>2
  <2>3. CASE \/ a \in Range(final) /\ b \in Range(pending)
             \/ b \in Range(final) /\ a \in Range(pending)
    BY <1>1, <1>2, <1>3, <1>4, <2>3
  <2> QED
    BY <2>1, <2>2, <2>3 DEF Held
<1>5. NextNonce - 1 = Len(final) + Len(pending)
  BY <1>1 DEF NextNonce
<1> QED
  BY <1>2, <1>3, <1>4, <1>5

(* The acknowledgement is counted: the transaction is at the place that has
   the worker's number, or it has been there and expired since. *)
LEMMA AcknowledgedNumbers ==
    ASSUME LedgerInv, NEW r \in Requests, Acknowledged(r), current = {r}, current' = {},
           answer' = "none", UNCHANGED <<hs, main, nodeVars>>,
           worker' = "running" => worker = "running"
    PROVE  /\ \E m \in EverAdmitted : m.req = r
           /\ NumbersInv'
<1>1. /\ ServiceInv /\ QueuedOnce /\ AnswersAreTrue /\ told \in [Requests -> Told]
      /\ SentOnce /\ CallsOwn /\ InOrder /\ NumbersFit /\ LateComersMiss
  BY DEF LedgerInv, RequestsInv, NumbersInv, ServiceInv, ServiceTypeOK
<1>2. /\ answer = "ok" /\ nonce' = nonce + 1 /\ told' = [told EXCEPT ![r] = "ok"]
      /\ Reached = nonce + 1 /\ Reached' = Reached /\ nonce \in Nat
  BY <1>1, LedgerTypes DEF Acknowledged, Reached
<1>3. PICK c \in EverAdmitted : c.req = r
  BY <1>1, <1>2 DEF CallsOwn
<1>4. /\ c \in Sent /\ c.nonce = nonce /\ r \in current
      /\ \A m \in Sent : m.req = r => m = c
  BY <1>1, <1>3, LedgerTypes DEF CallsOwn, SentOnce
<1>5. Acked' = Acked \cup {r}
  BY <1>1, <1>2 DEF Acked
<1>6. r \in ThisRun /\ ThisRun' = ThisRun
  BY <1>1, <1>4 DEF QueuedOnce, ThisRun
<1>7. Mine' = Mine /\ Counted' = Counted \cup {c} /\ c \in Mine
  BY <1>3, <1>4, <1>5, <1>6, NodeStays DEF Mine, Counted
<1>8. SentOnce' /\ InOrder'
  BY <1>1, NodeStays DEF SentOnce, InOrder
<1>9. CallsOwn'
  BY DEF CallsOwn
<1>10. NumbersFit'
  <2>1. nonce + 1 > 0 /\ \A m \in Mine : m.nonce <= nonce + 1
    BY <1>1, <1>2, LedgerTypes DEF NumbersFit
  <2>2. \A m \in Counted' : m.nonce < nonce + 1
    BY <1>1, <1>2, <1>4, <1>7, LedgerTypes DEF NumbersFit
  <2>3. \A m \in Held : m.req \in Acked' => m.nonce < nonce + 1
    BY <1>1, <1>2, <1>4, <1>5, LedgerTypes DEF NumbersFit
  <2>4. \A m \in Held \cap Mine : m.nonce < Reached => m.req \in Acked'
    BY <1>1, <1>5, <1>4 DEF NumbersFit, QueuedOnce
  <2>5. main # "down" => \A m \in Range(pending) : m.nonce < Reached => m \in Mine
    BY <1>1 DEF NumbersFit
  <2> QED
    BY <1>2, <1>7, <2>1, <2>2, <2>3, <2>4, <2>5, NodeStays DEF NumbersFit
<1>11. LateComersMiss'
  <2>1. nonce + 1 > NextNonce => c \in expired
    <3>1. c \in Held => c.nonce \in 1..NextNonce - 1
      BY <1>1, PlacesFit, LedgerTypes DEF Held, NextNonce
    <3> QED
      BY <1>1, <1>2, <1>3, <1>4, <3>1, LedgerTypes
  <2> QED
    BY <1>1, <1>2, <1>7, <2>1, NodeStays DEF LateComersMiss
<1> QED
  BY <1>3, <1>8, <1>9, <1>10, <1>11 DEF NumbersInv

(* So the worker may answer "ok", or end without the secrets. *)
LEMMA AcknowledgedLedger ==
    ASSUME LedgerInv, NEW r \in Requests, NEW v \in Response \ Refusals, Acknowledged(r),
           Respond(r, v) \/ RespondAndEnd(r, v)
    PROVE  LedgerInv'
<1>1. /\ current = {r} /\ current' = {} /\ answer' = "none"
      /\ UNCHANGED <<hs, main, nodeVars>> /\ (worker' = "running" => worker = "running")
  BY DEF Respond, RespondAndEnd, handlerVars, lifeVars
<1>2. told' = [told EXCEPT ![r] = "ok"] /\ nonce' \in Nat
  BY LedgerTypes DEF LedgerInv, Acknowledged
<1>3. (\E m \in EverAdmitted : m.req = r) /\ NumbersInv'
  BY <1>1, AcknowledgedNumbers
<1> QED
  BY <1>2, <1>3, EndLedger DEF Told

(* The worker sends the next transaction under its own number: the youngest,
   and the only one of its request. *)
LEMMA SubmitLedger ==
    ASSUME LedgerInv, NEW r \in Requests, Submit(r)
    PROVE  LedgerInv'
<1> DEFINE sent == [req |-> r, nonce |-> nonce, at |-> sends]
<1>1. /\ ServiceInv /\ QueuedOnce /\ NothingBefore /\ AnswersAreTrue /\ RunsApart
      /\ SentOnce /\ CallsOwn /\ InOrder /\ NumbersFit /\ LateComersMiss
      /\ nonce \in Nat /\ sends \in Nat
  BY DEF LedgerInv, RequestsInv, NumbersInv, ServiceInv, ServiceTypeOK, NodeTypeOK
<1>2. /\ chan' = Tail(chan) /\ current = {} /\ current' = {r} /\ answer' = "none"
      /\ answer = "none" /\ inflight' = inflight \cup {sent} /\ sends' = sends + 1
      /\ UNCHANGED <<hs, reply, slot, worker, nonce, told, main, server,
                     final, pending, expired>>
      /\ Next1(r)
  BY <1>1 DEF Submit, Next1, Transmit, QueuedOnce, handlerVars, lifeVars
<1>3. /\ sent.req = r /\ sent.nonce = nonce /\ sent.at = sends
      /\ EverAdmitted' = EverAdmitted /\ Sent' = Sent \cup {sent} /\ Held' = Held
      /\ NextNonce' = NextNonce /\ ThisRun' = ThisRun /\ Acked' = Acked
      /\ Reached = nonce /\ Reached' = nonce
  BY <1>2 DEF EverAdmitted, Sent, Held, NextNonce, ThisRun, Acked, Reached
<1> HIDE DEF sent
<1>4. ServiceInv'
  BY <1>1, SubmitPreserves
<1>5. /\ Range(chan) = {r} \cup Range(chan') /\ r \notin Range(chan')
      /\ \A i, j \in 1..Len(chan') : chan'[i] = chan'[j] => i = j
  BY <1>2, TakeFirst
<1>6. /\ hs[r] \in {"waiting", "done"} /\ NotSent(r) /\ told[r] = "nothing"
      /\ slot[r] = "empty" /\ reply[r] \notin {"ok"} \cup Refusals
  BY <1>1, <1>5 DEF QueuedOnce, NothingBefore
<1>7. \A q : q # r => (NotSent(q)' <=> NotSent(q))
  BY <1>3 DEF NotSent
<1>8. QueuedOnce'
  BY <1>1, <1>2, <1>5 DEF QueuedOnce
<1>9. NothingBefore'
  BY <1>1, <1>2, <1>5, <1>6, <1>7 DEF NothingBefore
<1>10. AnswersAreTrue'
  <2>1. \A q \in Requests : q # r => (NotSent(q)' <=> NotSent(q))
    BY <1>7
  <2> QED
    BY <1>1, <1>2, <1>3, <1>6, <2>1 DEF AnswersAreTrue, Refusals
<1>11. RunsApart'
  BY <1>1, <1>2, <1>3 DEF RunsApart
<1>12. sent \notin Sent /\ \A m \in Sent : m.req # r /\ m.at < sends /\ m.at \in Nat
  BY <1>1, <1>3, <1>6, LedgerTypes DEF NotSent, InOrder
<1>13. SentOnce'
  BY <1>1, <1>2, <1>3, <1>12, LedgerTypes DEF SentOnce
<1>14. CallsOwn'
  BY <1>1, <1>2, <1>3, <1>12, LedgerTypes DEF CallsOwn
<1>15. InOrder'
  BY <1>1, <1>2, <1>3, <1>12 DEF InOrder
<1>16. Mine' = Mine \cup {sent} /\ Counted' = Counted
  BY <1>3, <1>6 DEF Mine, Counted, ThisRun, Acked
<1>17. NumbersFit'
  <2>1. \A m \in Mine' : m.nonce <= nonce
    BY <1>1, <1>3, <1>16 DEF NumbersFit
  <2>2. \A m \in Held \cap Mine' : m \in Mine
    BY <1>1, <1>12, <1>16, LedgerTypes
  <2>3. Range(pending)' = Range(pending)
    BY <1>2
  <2> QED
    BY <1>1, <1>2, <1>3, <1>16, <2>1, <2>2, <2>3 DEF NumbersFit
<1>18. LateComersMiss'
  <2>1. nonce > NextNonce => nonce # NextNonce
    BY <1>1, LedgerTypes
  <2>2. \A p \in Range(pending) : p.nonce < nonce => sent.nonce # p.nonce
    BY <1>1, <1>3, LedgerTypes
  <2>3. Range(pending)' = Range(pending)
    BY <1>2
  <2> QED
    BY <1>1, <1>2, <1>3, <1>16, <2>1, <2>2, <2>3 DEF LateComersMiss
<1> QED
  BY <1>4, <1>8, <1>9, <1>10, <1>11, <1>13, <1>14, <1>15, <1>17, <1>18
     DEF LedgerInv, RequestsInv, NumbersInv

(* A worker that nobody can send to any more ends without a call. *)
LEMMA SendersGoneLedger ==
    ASSUME LedgerInv, SendersGone
    PROVE  LedgerInv'
<1>1. /\ ServiceInv /\ QueuedOnce /\ NothingBefore /\ AnswersAreTrue /\ RunsApart
  BY DEF LedgerInv, RequestsInv
<1>2. /\ UNCHANGED <<hs, reply, slot, chan, current, answer, nonce, told, main, server, nodeVars>>
      /\ worker' = "ended"
      /\ \A q : NotSent(q)' <=> NotSent(q)
      /\ Sent' = Sent /\ EverAdmitted' = EverAdmitted
  BY NodeStays DEF SendersGone, handlerVars, lifeVars
<1>3. ServiceInv'
  BY <1>1, SendersGonePreserves
<1>4. QueuedOnce' /\ NothingBefore' /\ AnswersAreTrue' /\ RunsApart'
  BY <1>1, <1>2 DEF QueuedOnce, NothingBefore, AnswersAreTrue, RunsApart
<1>5. NumbersInv'
  <2>1. Mine' = Mine /\ Acked' = Acked
    BY <1>2 DEF ThisRun, Mine, Acked
  <2> QED
    BY <1>2, <2>1, NumbersStay
<1> QED
  BY <1>3, <1>4, <1>5 DEF LedgerInv, RequestsInv

-----------------------------------------------------------------------------
(* The node. *)

(* What the node does makes no request more than it was: fewer transactions
   on their way, and more that were admitted. *)
LEMMA NodeRequests ==
    ASSUME RequestsInv, UNCHANGED <<handlerVars, slot, chan, worker, current, told, main, server>>,
           Sent' \subseteq Sent, EverAdmitted \subseteq EverAdmitted',
           current = {} => answer' = answer
    PROVE  RequestsInv'
<1>1. \A q : NotSent(q) => NotSent(q)'
  BY DEF NotSent
<1>2. QueuedOnce /\ NothingBefore /\ AnswersAreTrue /\ RunsApart
      /\ UNCHANGED <<hs, reply, slot, chan, worker, current, told, main, server>>
  BY DEF RequestsInv, handlerVars
<1>3. QueuedOnce' /\ NothingBefore' /\ AnswersAreTrue'
  BY <1>1, <1>2 DEF QueuedOnce, NothingBefore, AnswersAreTrue
<1>4. RunsApart'
  BY <1>2 DEF RunsApart
<1> QED
  BY <1>3, <1>4 DEF RequestsInv

(* The node admits a transaction: at the next place, with the next number. *)
LEMMA AdmitLedger ==
    ASSUME LedgerInv, NEW c \in inflight, NodeAdmits(c)
    PROVE  LedgerInv'
<1>1. /\ ServiceInv /\ RequestsInv /\ QueuedOnce /\ AnswersAreTrue /\ RunsApart
      /\ SentOnce /\ CallsOwn /\ InOrder /\ NumbersFit /\ LateComersMiss
      /\ pending \in Seq(Message) /\ c \in Message
  BY DEF LedgerInv, RequestsInv, NumbersInv, ServiceInv, NodeTypeOK
<1>2. /\ c.nonce = NextNonce /\ inflight' = inflight \ {c} /\ pending' = Append(pending, c)
      /\ answer' = IF c.req \in current THEN "ok" ELSE answer
      /\ UNCHANGED <<final, expired, sends, hs, reply, slot, chan, worker, current,
                     nonce, told, main, server>>
  BY DEF NodeAdmits, Admit, handlerVars, lifeVars
<1>3. ServiceInv'
  BY <1>1, NodePreserves DEF Node
<1>4. Range(pending') = Range(pending) \cup {c}
  BY <1>1, <1>2, RangeAppend
<1>5. /\ EverAdmitted' = EverAdmitted \cup {c} /\ Held' = Held \cup {c} /\ Sent' = Sent
      /\ c \notin EverAdmitted /\ c \in Sent /\ c \notin Held
  BY <1>1, <1>2, <1>4, LedgerTypes DEF EverAdmitted, Held, Sent, SentOnce
<1>6. NextNonce' = NextNonce + 1
  BY <1>1, <1>2, AppendProperties, LedgerTypes DEF NextNonce
<1>7. Mine' = Mine /\ Counted' = Counted /\ ThisRun' = ThisRun /\ Acked' = Acked
  BY <1>2, <1>5 DEF Mine, Counted, ThisRun, Acked
<1>8. c.req \notin Acked
  BY <1>1, <1>5, LedgerTypes DEF Acked, AnswersAreTrue, SentOnce
<1>9. c.req \in current => answer = "none" /\ nonce = NextNonce /\ Reached = nonce
  BY <1>1, <1>2, <1>5 DEF CallsOwn, Reached
<1>10. Reached <= NextNonce
  BY <1>1, <1>2, LedgerTypes DEF LateComersMiss
<1>11. Reached' = IF c.req \in current THEN nonce + 1 ELSE Reached
  BY <1>2 DEF Reached
<1>12. RequestsInv'
  BY <1>1, <1>2, <1>5, NodeRequests DEF handlerVars
<1>13. SentOnce'
  BY <1>1, <1>2, <1>5 DEF SentOnce
<1>14. CallsOwn'
  <2>1. ASSUME NEW m \in Sent, m.req \in current
        PROVE  /\ m.nonce = nonce
               /\ m \in EverAdmitted' <=> answer' = "ok"
               /\ m \in inflight' <=> answer' = "none"
               /\ \A o \in Sent : o # m => o.at < m.at
    <3>1. c.req \in current => c = m
      BY <1>1, <1>5, <2>1 DEF QueuedOnce, SentOnce
    <3>2. c.req \notin current => c # m
      BY <2>1
    <3> QED
      BY <1>1, <1>2, <1>5, <2>1, <3>1, <3>2 DEF CallsOwn
  <2>2. answer' = "ok" => \E m \in EverAdmitted' : m.req \in current
    BY <1>1, <1>2, <1>5 DEF CallsOwn
  <2> QED
    BY <1>2, <1>5, <2>1, <2>2 DEF CallsOwn
<1>15. InOrder'
  <2>1. /\ Len(pending) \in Nat /\ Len(pending') = Len(pending) + 1
        /\ \A i \in 1..Len(pending) : pending'[i] = pending[i]
        /\ pending'[Len(pending) + 1] = c
    BY <1>1, <1>2, AppendProperties, LenProperties
  <2>2. c.nonce = Len(final) + (Len(pending) + 1)
    BY <1>1, <1>2, LedgerTypes DEF NextNonce
  <2>3. ASSUME NEW i \in 1..Len(pending')
        PROVE  pending'[i].nonce = Len(final) + i
    <3>1. i \in 1..Len(pending) \/ i = Len(pending) + 1
      BY <2>1
    <3>2. \A j \in 1..Len(pending) : pending[j].nonce = Len(final) + j
      BY <1>1 DEF InOrder
    <3> QED
      BY <2>1, <2>2, <3>1, <3>2
  <2> QED
    BY <1>1, <1>2, <1>5, <2>3 DEF InOrder
<1>16. NumbersFit'
  <2>1. \A m \in Held' : m.req \in Acked => m.nonce < nonce
    BY <1>1, <1>5, <1>8 DEF NumbersFit
  <2>2. ASSUME NEW m \in Held' \cap Mine, m.nonce < Reached'
        PROVE  m.req \in Acked \cup current
    <3>1. CASE m = c
      BY <1>2, <1>10, <1>11, <2>2, <3>1, <1>1, LedgerTypes
    <3>2. CASE m # c /\ c.req \in current
      <4>1. m \in Held /\ m.nonce \in 1..NextNonce - 1
        BY <1>1, <1>5, <3>2, PlacesFit, LedgerTypes DEF Held, NextNonce
      <4>2. m.nonce < Reached
        BY <1>1, <1>9, <3>2, <4>1, LedgerTypes
      <4> QED
        BY <1>1, <4>1, <4>2, <2>2 DEF NumbersFit
    <3>3. CASE m # c /\ c.req \notin current
      BY <1>1, <1>5, <1>11, <2>2, <3>3 DEF NumbersFit
    <3> QED
      BY <3>1, <3>2, <3>3
  <2>3. ASSUME NEW m \in Range(pending'), m.nonce < Reached', main # "down"
        PROVE  m \in Mine
    <3>1. CASE m = c
      <4>1. c.req \in current
        BY <1>2, <1>10, <1>11, <2>3, <3>1, <1>1, LedgerTypes
      <4> QED
        BY <1>1, <1>5, <3>1, <4>1, LedgerTypes DEF QueuedOnce, Mine, ThisRun
    <3>2. CASE m # c
      <4>1. m \in Range(pending) /\ m.nonce \in Len(final) + 1..NextNonce - 1
        BY <1>1, <1>4, <2>3, <3>2, PlacesFit
      <4>2. m.nonce < Reached
        BY <1>1, <1>9, <1>11, <2>3, <4>1, LedgerTypes
      <4> QED
        BY <1>1, <4>1, <4>2, <2>3 DEF NumbersFit
    <3> QED
      BY <3>1, <3>2
  <2> QED
    BY <1>1, <1>2, <1>7, <2>1, <2>2, <2>3 DEF NumbersFit
<1>17. LateComersMiss'
  <2>1. ~(Reached' > NextNonce')
    BY <1>1, <1>6, <1>9, <1>10, <1>11, LedgerTypes
  <2>2. ASSUME NEW p \in Range(pending'), NEW m \in inflight', p.nonce < Reached',
               m.nonce = p.nonce
        PROVE  m.at < p.at
    <3>1. CASE p = c
      <4>1. c.req \in current
        BY <1>2, <1>10, <1>11, <2>2, <3>1, <1>1, LedgerTypes
      <4> QED
        BY <1>1, <1>2, <1>5, <2>2, <3>1, <4>1, LedgerTypes DEF CallsOwn
    <3>2. CASE p # c
      <4>1. p \in Range(pending) /\ p.nonce \in Len(final) + 1..NextNonce - 1
        BY <1>1, <1>4, <2>2, <3>2, PlacesFit
      <4>2. p.nonce < Reached
        BY <1>1, <1>9, <1>11, <2>2, <4>1, LedgerTypes
      <4> QED
        BY <1>1, <1>2, <4>1, <4>2, <2>2 DEF LateComersMiss
    <3> QED
      BY <3>1, <3>2
  <2>3. ~(nonce > NextNonce')
    BY <1>1, <1>6, <1>10, LedgerTypes DEF Reached
  <2> QED
    BY <1>2, <2>1, <2>2, <2>3 DEF LateComersMiss
<1> QED
  BY <1>3, <1>12, <1>13, <1>14, <1>15, <1>16, <1>17 DEF LedgerInv, NumbersInv

(* A transaction that the node refuses is nowhere any more. *)
LEMMA RefuseLedger ==
    ASSUME LedgerInv, NEW c \in inflight, NodeRefuses(c)
    PROVE  LedgerInv'
<1>1. /\ ServiceInv /\ RequestsInv /\ QueuedOnce /\ SentOnce /\ CallsOwn /\ InOrder
      /\ NumbersFit /\ LateComersMiss
  BY DEF LedgerInv, RequestsInv, NumbersInv
<1>2. PICK why \in {"invalid_argument", "node_rejected"} :
         /\ inflight' = inflight \ {c} /\ answer' = IF c.req \in current THEN why ELSE answer
         /\ UNCHANGED <<final, pending, expired, sends, hs, reply, slot, chan, worker, current,
                        nonce, told, main, server>>
  BY DEF NodeRefuses, Refuse, handlerVars, lifeVars
<1>3. ServiceInv'
  BY <1>1, NodePreserves DEF Node
<1>4. /\ EverAdmitted' = EverAdmitted /\ Held' = Held /\ NextNonce' = NextNonce
      /\ Range(pending)' = Range(pending) /\ Sent' = Sent \ {c}
      /\ c \notin EverAdmitted /\ c \in Sent
  BY <1>1, <1>2, LedgerTypes DEF EverAdmitted, Held, NextNonce, Sent, SentOnce
<1>5. /\ ThisRun' = ThisRun /\ Acked' = Acked /\ Mine' = Mine \ {c} /\ Counted' = Counted \ {c}
  BY <1>2, <1>4 DEF ThisRun, Acked, Mine, Counted
<1>6. Reached' = Reached
  BY <1>1, <1>2, <1>4 DEF Reached, CallsOwn
<1>7. RequestsInv'
  BY <1>1, <1>2, <1>4, NodeRequests DEF handlerVars
<1>8. SentOnce'
  BY <1>1, <1>2, <1>4 DEF SentOnce
<1>9. CallsOwn'
  <2>1. ASSUME NEW m \in Sent', m.req \in current
        PROVE  c.req \notin current
    BY <1>1, <1>4, <2>1 DEF QueuedOnce, SentOnce
  <2>2. answer' = "ok" => answer = "ok"
    BY <1>2
  <2> QED
    BY <1>1, <1>2, <1>4, <2>1, <2>2 DEF CallsOwn
<1>10. InOrder'
  BY <1>1, <1>2, <1>4 DEF InOrder
<1>11. NumbersFit'
  BY <1>1, <1>2, <1>4, <1>5, <1>6, LedgerTypes DEF NumbersFit
<1>12. LateComersMiss'
  <2>1. expired \cap Counted' = expired \cap Counted
    BY <1>1, <1>4, <1>5, LedgerTypes
  <2> QED
    BY <1>1, <1>2, <1>4, <1>6, <2>1 DEF LateComersMiss
<1> QED
  BY <1>3, <1>7, <1>8, <1>9, <1>10, <1>11, <1>12 DEF LedgerInv, NumbersInv

(* The oldest pending transaction becomes final and keeps its place. *)
LEMMA FinalizeLedger ==
    ASSUME LedgerInv, Finalize, UNCHANGED serviceVars
    PROVE  LedgerInv'
<1>1. /\ ServiceInv /\ RequestsInv /\ SentOnce /\ CallsOwn /\ InOrder
      /\ NumbersFit /\ LateComersMiss /\ final \in Seq(Message) /\ pending \in Seq(Message)
  BY DEF LedgerInv, NumbersInv, ServiceInv, NodeTypeOK
<1>2. /\ pending # << >> /\ final' = Append(final, Head(pending)) /\ pending' = Tail(pending)
      /\ UNCHANGED <<inflight, expired, sends, hs, reply, slot, chan, worker, current,
                     answer, nonce, told, main, server>>
  BY DEF Finalize, serviceVars
<1>3. ServiceInv'
  BY <1>1, NodePreserves DEF Node, ChainMoves
<1>4. /\ Head(pending) \in Message /\ Range(pending) = {Head(pending)} \cup Range(pending')
      /\ Range(final') = Range(final) \cup {Head(pending)}
  BY <1>1, <1>2, RangeHeadTail, RangeAppend
<1>5. /\ EverAdmitted' = EverAdmitted /\ Held' = Held /\ Sent' = Sent
      /\ Range(pending') \subseteq Range(pending)
  BY <1>2, <1>4 DEF EverAdmitted, Held, Sent
<1>6. /\ Len(pending) \in Nat \ {0} /\ Len(final) \in Nat
      /\ Len(pending') = Len(pending) - 1 /\ Len(final') = Len(final) + 1
      /\ \A i \in 1..Len(final) : final'[i] = final[i]
      /\ final'[Len(final) + 1] = pending[1]
      /\ \A i \in 1..Len(pending') : pending'[i] = pending[i + 1]
  BY <1>1, <1>2, <1>4, AppendProperties, HeadTailProperties, LenProperties, EmptySeq
<1>7. NextNonce' = NextNonce /\ Reached' = Reached
  BY <1>2, <1>6 DEF NextNonce, Reached
<1>8. Mine' = Mine /\ Counted' = Counted /\ ThisRun' = ThisRun /\ Acked' = Acked
  BY <1>2, <1>5 DEF Mine, Counted, ThisRun, Acked
<1>9. RequestsInv'
  BY <1>1, <1>2, <1>5, NodeRequests DEF handlerVars
<1>10. SentOnce' /\ CallsOwn'
  BY <1>1, <1>2, <1>5 DEF SentOnce, CallsOwn
<1>11. InOrder'
  <2>1. /\ \A i \in 1..Len(final) : final[i].nonce = i
        /\ \A i \in 1..Len(pending) : pending[i].nonce = Len(final) + i
    BY <1>1 DEF InOrder
  <2>2. ASSUME NEW i \in 1..Len(final')
        PROVE  final'[i].nonce = i
    <3>1. i \in 1..Len(final) \/ i = Len(final) + 1
      BY <1>6
    <3>2. pending[1].nonce = Len(final) + 1
      BY <1>6, <2>1
    <3> QED
      BY <1>6, <2>1, <3>1, <3>2
  <2>3. ASSUME NEW i \in 1..Len(pending')
        PROVE  pending'[i].nonce = Len(final') + i
    <3>1. i + 1 \in 1..Len(pending) /\ Len(final) + (i + 1) = Len(final') + i
      BY <1>6
    <3> QED
      BY <1>6, <2>1, <3>1
  <2> QED
    BY <1>1, <1>2, <1>5, <2>2, <2>3 DEF InOrder
<1>12. NumbersFit'
  BY <1>1, <1>2, <1>5, <1>7, <1>8 DEF NumbersFit
<1>13. LateComersMiss'
  BY <1>1, <1>2, <1>5, <1>7, <1>8 DEF LateComersMiss
<1> QED
  BY <1>3, <1>9, <1>10, <1>11, <1>12, <1>13 DEF LedgerInv, NumbersInv

(* The pending transactions expire: what has the number of the first of them,
   now the next one, and is still on its way was sent before it, so that it
   has expired too, unless the number was never counted. *)
LEMMA ExpireLedger ==
    ASSUME LedgerInv, Expire, UNCHANGED serviceVars
    PROVE  LedgerInv'
<1> DEFINE h == Head(pending)
<1>1. /\ ServiceInv /\ RequestsInv /\ SentOnce /\ CallsOwn /\ InOrder
      /\ NumbersFit /\ LateComersMiss /\ final \in Seq(Message) /\ pending \in Seq(Message)
      /\ WorkerShape
  BY DEF LedgerInv, NumbersInv, ServiceInv, NodeTypeOK
<1>2. /\ pending # << >> /\ pending' = << >> /\ expired' = expired \cup Range(pending)
      /\ inflight' = {m \in inflight : m.at > h.at}
      /\ UNCHANGED <<final, sends, hs, reply, slot, chan, worker, current,
                     answer, nonce, told, main, server>>
  BY DEF Expire, serviceVars
<1>3. ServiceInv'
  BY <1>1, NodePreserves DEF Node, ChainMoves
<1>4. /\ h \in Range(pending) /\ h.nonce = Len(final) + 1 /\ Len(pending) \in Nat \ {0}
  <2>1. h \in Range(pending)
    BY <1>1, <1>2, RangeHeadTail
  <2>2. Len(pending) \in Nat \ {0} /\ h = pending[1]
    BY <1>1, <1>2, HeadTailProperties, LenProperties, EmptySeq
  <2> QED
    BY <1>1, <2>1, <2>2 DEF InOrder
<1> HIDE DEF h
<1>5. /\ EverAdmitted' = EverAdmitted /\ Held' = Range(final) /\ Range(pending') = {}
      /\ inflight' \subseteq inflight /\ Sent' \subseteq Sent /\ Sent' = EverAdmitted \cup inflight'
      /\ Held' \subseteq Held
  BY <1>2, RangeEmpty DEF EverAdmitted, Held, Sent
<1>6. /\ NextNonce' = Len(final) + 1 /\ NextNonce' <= NextNonce /\ NextNonce' \in Nat
      /\ Reached' = Reached
  <2>1. Len(pending') = 0
    BY <1>2
  <2> QED
    BY <1>1, <1>2, <2>1, LedgerTypes DEF NextNonce, Reached
<1>7. /\ ThisRun' = ThisRun /\ Acked' = Acked /\ Mine' \subseteq Mine
      /\ Counted' = Counted \cap Sent' /\ Mine' = Mine \cap Sent'
  BY <1>2, <1>5 DEF Mine, Counted, ThisRun, Acked
<1>8. RequestsInv'
  BY <1>1, <1>2, <1>5, NodeRequests DEF handlerVars
<1>9. SentOnce'
  BY <1>1, <1>2, <1>5 DEF SentOnce
<1>10. CallsOwn'
  BY <1>1, <1>2, <1>5 DEF CallsOwn
<1>11. InOrder'
  BY <1>1, <1>2, <1>5 DEF InOrder
<1>12. NumbersFit'
  <2>1. \A m \in Held' \cap Mine' : m \in Held \cap Mine
    BY <1>5, <1>7
  <2> QED
    BY <1>1, <1>2, <1>5, <1>6, <1>7, <2>1 DEF NumbersFit
<1>13. LateComersMiss'
  <2>1. ASSUME Reached > NextNonce', NEW m \in inflight'
        PROVE  m.nonce # NextNonce'
    <3>1. m \in inflight /\ m.at > h.at /\ m.at \in Nat /\ h.at \in Nat
      BY <1>1, <1>2, <1>4, <2>1, LedgerTypes
    <3>2. h.nonce < Reached
      BY <1>1, <1>4, <1>6, <2>1, LedgerTypes
    <3> QED
      BY <1>1, <1>4, <1>6, <3>1, <3>2 DEF LateComersMiss
  <2>2. ASSUME worker = "running", nonce > NextNonce'
        PROVE  expired' \cap Counted' # {}
    <3>1. CASE nonce > NextNonce
      <4>1. PICK m \in expired : m \in Counted
        BY <1>1, <2>2, <3>1 DEF LateComersMiss
      <4>2. m \in Sent'
        BY <1>1, <1>5, <4>1, LedgerTypes
      <4> QED
        BY <1>2, <1>7, <4>1, <4>2
    <3>2. CASE ~(nonce > NextNonce)
      <4> DEFINE i == nonce - 1 - Len(final)
      <4>1. i \in 1..Len(pending) /\ Len(final) + i = nonce - 1
        BY <1>1, <1>4, <1>6, <2>2, <3>2, LedgerTypes DEF NextNonce
      <4>2. pending[i] \in Range(pending) /\ pending[i].nonce = nonce - 1
        BY <1>1, <4>1, LenProperties DEF InOrder, Range
      <4>3. PICK m \in Range(pending) : m.nonce = nonce - 1
        BY <4>2
      <4>4. m \in Sent /\ m \in Held /\ m \in EverAdmitted /\ nonce \in Nat /\ m.nonce < nonce
        BY <1>1, <4>3, LedgerTypes
      <4>5. m.nonce < Reached /\ main # "down"
        BY <1>1, <2>2, <4>4, LedgerTypes DEF Reached, WorkerShape
      <4>6. m \in Mine /\ m.req \in Acked \cup current
        BY <1>1, <4>3, <4>4, <4>5 DEF NumbersFit
      <4>7. m.req \notin current
        BY <1>1, <4>3, <4>4 DEF CallsOwn
      <4> QED
        BY <1>2, <1>5, <1>7, <4>3, <4>4, <4>6, <4>7 DEF Counted
    <3> QED
      BY <3>1, <3>2
  <2> QED
    BY <1>2, <1>5, <1>6, <2>1, <2>2 DEF LateComersMiss
<1> QED
  BY <1>3, <1>8, <1>9, <1>10, <1>11, <1>12, <1>13 DEF LedgerInv, NumbersInv

(* Whatever the node does, worker and account stay in step. *)
LEMMA NodeLedger ==
    ASSUME LedgerInv, Node
    PROVE  LedgerInv'
BY AdmitLedger, RefuseLedger, FinalizeLedger, ExpireLedger DEF Node, ChainMoves

-----------------------------------------------------------------------------
(* The process. *)

(* A start takes over the node's number: no request of the new run has been
   sent, and nothing is pending that could expire. *)
LEMMA StartLedger ==
    ASSUME LedgerInv, Start
    PROVE  LedgerInv'
<1>1. /\ ServiceInv /\ QueuedOnce /\ NothingBefore /\ AnswersAreTrue /\ RunsApart
      /\ SentOnce /\ CallsOwn /\ InOrder /\ WorkerShape /\ hs \in [Requests -> HandlerState]
  BY DEF LedgerInv, RequestsInv, NumbersInv, ServiceInv, ServiceTypeOK
<1>2. /\ main = "down" /\ pending = << >> /\ nonce' = NextNonce
      /\ UNCHANGED <<hs, reply, slot, chan, current, answer, told, nodeVars>>
      /\ \A q : NotSent(q)' <=> NotSent(q)
      /\ Sent' = Sent /\ EverAdmitted' = EverAdmitted /\ Held' = Held
      /\ NextNonce' = NextNonce /\ Range(pending)' = Range(pending)
      /\ UNCHANGED <<final, pending, expired, inflight, sends>>
  BY NodeStays DEF Start, AllFinal, handlerVars
<1>3. current = {} /\ answer = "none"
  BY <1>1, <1>2 DEF WorkerShape, QueuedOnce
<1>4. ThisRun' = {} /\ Mine' = {} /\ Counted' = {}
  BY <1>1, <1>2 DEF ThisRun, RunsApart, Mine, Counted
<1>5. Reached' = NextNonce /\ main' # "down"
  BY <1>2, <1>3 DEF Reached, Start
<1>6. ServiceInv'
  BY <1>1, StartPreserves
<1>7. QueuedOnce' /\ NothingBefore' /\ AnswersAreTrue'
  BY <1>1, <1>2 DEF QueuedOnce, NothingBefore, AnswersAreTrue
<1>8. RunsApart'
  <2>1. \A m \in Sent : hs[m.req] = "gone"
    BY <1>1, <1>2, LedgerTypes DEF RunsApart, NothingBefore, NotSent
  <2> QED
    BY <1>2, <1>5, <2>1 DEF RunsApart
<1>9. SentOnce' /\ CallsOwn' /\ InOrder'
  BY <1>1, <1>2, <1>3 DEF SentOnce, CallsOwn, InOrder
<1>10. Range(pending) = {}
  BY <1>2, RangeEmpty
<1>11. NumbersFit'
  <2>1. NextNonce > 0 /\ \A m \in Held : m.nonce < NextNonce
    BY <1>1, <1>10, PlacesFit, LedgerTypes DEF Held, NextNonce
  <2> QED
    BY <1>2, <1>4, <1>5, <1>10, <2>1 DEF NumbersFit
<1>12. LateComersMiss'
  BY <1>1, <1>2, <1>4, <1>5, <1>10, LedgerTypes DEF LateComersMiss
<1> QED
  BY <1>6, <1>7, <1>8, <1>9, <1>11, <1>12 DEF LedgerInv, RequestsInv, NumbersInv

(* The aborted worker gives up its call, and the requests it had queued. *)
LEMMA MainAbortsLedger ==
    ASSUME LedgerInv, MainAborts
    PROVE  LedgerInv'
<1>1. /\ ServiceInv /\ QueuedOnce /\ NothingBefore /\ AnswersAreTrue /\ RunsApart
      /\ slot \in [Requests -> Slot]
  BY DEF LedgerInv, RequestsInv, ServiceInv, ServiceTypeOK
<1>2. /\ UNCHANGED <<hs, reply, nonce, told, server, nodeVars>>
      /\ main # "down" /\ main' # "down" /\ worker' = "off" /\ current' = {} /\ answer' = "none"
      /\ chan' = << >> /\ Range(chan') = {}
      /\ \A r \in Requests : \/ slot'[r] = slot[r]
                             \/ slot'[r] = "closed" /\ hs[r] = "waiting"
      /\ \A q : NotSent(q)' <=> NotSent(q)
      /\ Sent' = Sent /\ EverAdmitted' = EverAdmitted
  BY NodeStays, RangeEmpty DEF MainAborts, handlerVars
<1>3. ServiceInv'
  BY <1>1, MainAbortsPreserves
<1>4. QueuedOnce'
  BY <1>2 DEF QueuedOnce
<1>5. NothingBefore'
  BY <1>1, <1>2 DEF NothingBefore
<1>6. AnswersAreTrue'
  BY <1>1, <1>2 DEF AnswersAreTrue, Refusals
<1>7. RunsApart'
  BY <1>2 DEF RunsApart
<1>8. NumbersInv'
  <2>1. ThisRun' = ThisRun /\ Mine' = Mine /\ Acked' = Acked
    BY <1>2 DEF ThisRun, Mine, Acked
  <2> QED
    BY <1>2, <2>1, NumbersStay
<1> QED
  BY <1>3, <1>4, <1>5, <1>6, <1>7, <1>8 DEF LedgerInv, RequestsInv

(* When the process ends, nothing remains of this run but what it sent. *)
LEMMA HaltLedger ==
    ASSUME LedgerInv, Halt
    PROVE  LedgerInv'
<1>1. /\ ServiceInv /\ QueuedOnce /\ NothingBefore /\ AnswersAreTrue /\ RunsApart
      /\ hs \in [Requests -> HandlerState]
  BY DEF LedgerInv, RequestsInv, ServiceInv, ServiceTypeOK
<1>2. /\ UNCHANGED <<reply, nonce, told, nodeVars>>
      /\ main' = "down" /\ server' = "down" /\ worker' = "off" /\ current' = {} /\ answer' = "none"
      /\ chan' = << >> /\ Range(chan') = {}
      /\ hs' = [r \in Requests |-> IF hs[r] = "idle" THEN "idle" ELSE "gone"]
      /\ slot' = [r \in Requests |-> "empty"]
      /\ \A q : NotSent(q)' <=> NotSent(q)
      /\ Sent' = Sent /\ EverAdmitted' = EverAdmitted
  BY NodeStays, RangeEmpty DEF Halt
<1>3. ServiceInv'
  BY <1>1, HaltPreserves
<1>4. QueuedOnce'
  BY <1>2 DEF QueuedOnce
<1>5. NothingBefore'
  BY <1>1, <1>2 DEF NothingBefore
<1>6. AnswersAreTrue'
  BY <1>1, <1>2 DEF AnswersAreTrue, Refusals
<1>7. RunsApart'
  BY <1>2 DEF RunsApart
<1>8. NumbersInv'
  <2>1. Mine' = {} /\ Acked' = Acked
    BY <1>2 DEF ThisRun, Mine, Acked
  <2> QED
    BY <1>2, <2>1, NumbersStay
<1> QED
  BY <1>3, <1>4, <1>5, <1>6, <1>7, <1>8 DEF LedgerInv, RequestsInv

(* The steps of start_services that concern neither worker nor handlers. *)
LEMMA LifeLedger ==
    ASSUME LedgerInv,
           TaskEnded \/ Signal \/ ServerDrains \/ ServerFinishes \/ ServerFails \/ MainStops
    PROVE  LedgerInv'
<1>1. /\ ServiceInv /\ QueuedOnce /\ NothingBefore /\ AnswersAreTrue /\ RunsApart
      /\ main = "down" => worker = "off"
  BY DEF LedgerInv, RequestsInv, ServiceInv, WorkerShape
<1>2. /\ UNCHANGED <<hs, reply, slot, chan, worker, current, answer, nonce, told, nodeVars>>
      /\ main' = "down" <=> main = "down"
      /\ server' = server \/ server # "down"
      /\ \A q : NotSent(q)' <=> NotSent(q)
      /\ Sent' = Sent /\ EverAdmitted' = EverAdmitted
  BY NodeStays DEF TaskEnded, Signal, ServerDrains, ServerFinishes, ServerFails, MainStops,
                   handlerVars, workerVars
<1>3. ServiceInv'
  BY <1>1, LifePreserves
<1>4. QueuedOnce' /\ NothingBefore' /\ AnswersAreTrue'
  BY <1>1, <1>2 DEF QueuedOnce, NothingBefore, AnswersAreTrue
<1>5. RunsApart'
  BY <1>1, <1>2 DEF RunsApart
<1>6. NumbersInv'
  <2>1. ThisRun' = ThisRun /\ Mine' = Mine /\ Acked' = Acked
    BY <1>2 DEF ThisRun, Mine, Acked
  <2> QED
    BY <1>1, <1>2, <2>1, NumbersStay
<1> QED
  BY <1>3, <1>4, <1>5, <1>6 DEF LedgerInv, RequestsInv

(* Start, shutdown and crashes keep the invariant. *)
LEMMA ProcessLedger ==
    ASSUME LedgerInv, Start \/ Shutdown \/ Interrupt
    PROVE  LedgerInv'
BY StartLedger, HaltLedger, MainAbortsLedger, LifeLedger
   DEF Shutdown, Interrupt, MainReturns, Crash

(* So does a step that changes nothing of service and node. *)
LEMMA StutterLedger ==
    ASSUME LedgerInv, UNCHANGED <<serviceVars, nodeVars>>
    PROVE  LedgerInv'
<1>1. ServiceInv /\ QueuedOnce /\ NothingBefore /\ AnswersAreTrue /\ RunsApart /\ WorkerShape
  BY DEF LedgerInv, RequestsInv, ServiceInv
<1>2. /\ UNCHANGED <<hs, reply, slot, chan, worker, current, answer, nonce, told, main, server,
                     nodeVars>>
      /\ \A q : NotSent(q)' <=> NotSent(q)
      /\ Sent' = Sent /\ EverAdmitted' = EverAdmitted
  BY NodeStays DEF serviceVars
<1>3. ServiceInv'
  BY <1>1, StutterPreserves
<1>4. RequestsInv'
  BY <1>1, <1>2 DEF RequestsInv, QueuedOnce, NothingBefore, AnswersAreTrue, RunsApart
<1>5. NumbersInv'
  <2>1. ThisRun' = ThisRun /\ Mine' = Mine /\ Acked' = Acked
    BY <1>2 DEF ThisRun, Mine, Acked
  <2> QED
    BY <1>1, <1>2, <2>1, NumbersStay DEF WorkerShape
<1> QED
  BY <1>3, <1>4, <1>5 DEF LedgerInv

(* The invariant holds of a service that was never started, on an account
   without transactions. *)
LEMMA LedgerInit == ServiceInit /\ NodeInit => LedgerInv
<1> SUFFICES ASSUME ServiceInit, NodeInit
             PROVE  LedgerInv
  OBVIOUS
<1>1. /\ Sent = {} /\ EverAdmitted = {} /\ Held = {} /\ Range(pending) = {} /\ Range(chan) = {}
  BY RangeEmpty DEF ServiceInit, NodeInit, Sent, EverAdmitted, Held
<1>2. Mine = {} /\ Counted = {} /\ NextNonce = 1 /\ Reached = 1
  BY <1>1 DEF Mine, Counted, NextNonce, Reached, ServiceInit, NodeInit
<1>3. RequestsInv
  BY <1>1 DEF RequestsInv, QueuedOnce, NothingBefore, AnswersAreTrue, RunsApart, NotSent,
              Refusals, ServiceInit
<1>4. NumbersInv
  BY <1>1, <1>2 DEF NumbersInv, SentOnce, CallsOwn, InOrder, NumbersFit, LateComersMiss,
                    ServiceInit, NodeInit
<1> QED
  BY <1>3, <1>4, ServiceInitInv DEF LedgerInv

-----------------------------------------------------------------------------
(* What follows. *)

(* The account's transactions, oldest first, have the numbers 1, 2, ... *)
LEMMA AdmittedInOrder ==
    ASSUME LedgerInv
    PROVE  /\ Len(Admitted) \in Nat /\ Len(Admitted) = NextNonce - 1
           /\ \A i \in 1..Len(Admitted) : Admitted[i] \in Held /\ Admitted[i].nonce = i
           /\ Range(Admitted) = Held
<1>1. /\ ServiceInv /\ InOrder /\ final \in Seq(Message) /\ pending \in Seq(Message)
  BY DEF LedgerInv, NumbersInv, ServiceInv, NodeTypeOK
<1>2. /\ Len(final) \in Nat /\ Len(pending) \in Nat
      /\ DOMAIN final = 1..Len(final) /\ DOMAIN pending = 1..Len(pending)
  BY <1>1, LenProperties
<1>3. /\ Admitted \in Seq(Message) /\ Len(Admitted) = Len(final) + Len(pending)
      /\ \A i \in 1..Len(final) + Len(pending) :
            Admitted[i] = IF i <= Len(final) THEN final[i] ELSE pending[i - Len(final)]
  BY <1>1, ConcatProperties DEF Admitted
<1>4. ASSUME NEW i \in 1..Len(Admitted)
      PROVE  Admitted[i] \in Held /\ Admitted[i].nonce = i
  <2>1. CASE i <= Len(final)
    BY <1>1, <1>2, <1>3, <2>1 DEF InOrder, Held, Range
  <2>2. CASE i > Len(final)
    <3>1. /\ i - Len(final) \in 1..Len(pending) /\ Admitted[i] = pending[i - Len(final)]
          /\ Len(final) + (i - Len(final)) = i
      BY <1>2, <1>3, <2>2
    <3> QED
      BY <1>1, <1>2, <3>1 DEF InOrder, Held, Range
  <2> QED
    BY <1>2, <1>3, <2>1, <2>2
<1>5. ASSUME NEW m \in Held
      PROVE  m \in Range(Admitted)
  <2>1. m.nonce \in 1..Len(Admitted)
    BY <1>1, <1>2, <1>3, PlacesFit DEF Held, NextNonce
  <2>2. Admitted[m.nonce] = m
    BY <1>1, <1>4, <2>1, PlacesFit
  <2>3. DOMAIN Admitted = 1..Len(Admitted)
    BY <1>3, LenProperties
  <2> QED
    BY <2>1, <2>2, <2>3 DEF Range
<1>6. Range(Admitted) \subseteq Held
  BY <1>3, <1>4, LenProperties DEF Range
<1> QED
  BY <1>2, <1>3, <1>4, <1>5, <1>6 DEF NextNonce

(* Whatever happens to requests, calls and runs, the worker's number and the
   node's differ only as NonceTracksNode allows. *)
LEMMA LedgerTracksNode ==
    ASSUME LedgerInv
    PROVE  NonceTracksNode
<1>1. /\ ServiceInv /\ QueuedOnce /\ AnswersAreTrue /\ RunsApart
      /\ SentOnce /\ CallsOwn /\ NumbersFit /\ LateComersMiss /\ nonce \in Nat
      /\ told \in [Requests -> Told] /\ hs \in [Requests -> HandlerState]
  BY DEF LedgerInv, RequestsInv, NumbersInv, ServiceInv, ServiceTypeOK
<1> SUFFICES ASSUME worker = "running"
             PROVE  /\ \A i \in 1..Len(Admitted) :
                          Admitted[i].req \in ThisRun =>
                              (Admitted[i].req \in Acked <=> i < nonce)
                    /\ \A i \in nonce..Len(Admitted) :
                          LET r == Admitted[i].req
                          IN  \/ r \in current \/ told[r] = "no_answer"
                              \/ hs[r] = "gone" /\ told[r] = "nothing"
                    /\ nonce > NextNonce => \E m \in expired : m.req \in Acked \cap ThisRun
  BY DEF NonceTracksNode
<1>2. ASSUME NEW i \in 1..Len(Admitted), Admitted[i].req \in ThisRun
      PROVE  Admitted[i].req \in Acked <=> i < nonce
  <2>1. PICK m \in Held : m = Admitted[i] /\ m.nonce = i
    BY <1>2, AdmittedInOrder
  <2>2. m \in Held \cap Mine /\ m \in Sent
    BY <1>1, <1>2, <2>1, LedgerTypes DEF Mine
  <2>3. m.req \in Acked => i < nonce
    BY <1>1, <2>1 DEF NumbersFit
  <2>4. ASSUME i < nonce
        PROVE  m.req \in Acked
    <3>1. m.nonce < Reached
      BY <1>1, <1>2, <2>1, <2>4 DEF Reached
    <3>2. m.req \in Acked \cup current
      BY <1>1, <2>2, <3>1 DEF NumbersFit
    <3>3. m.req \notin current
      BY <1>1, <2>1, <2>2, <2>4 DEF CallsOwn
    <3> QED
      BY <3>2, <3>3
  <2> QED
    BY <2>1, <2>3, <2>4
<1>3. ASSUME NEW i \in nonce..Len(Admitted)
      PROVE  LET r == Admitted[i].req
             IN  \/ r \in current \/ told[r] = "no_answer"
                 \/ hs[r] = "gone" /\ told[r] = "nothing"
  <2>1. PICK m \in Held : m = Admitted[i] /\ m.nonce = i
    <3>1. i \in 1..Len(Admitted)
      BY <1>1, <1>3, AdmittedInOrder DEF NumbersFit
    <3> QED
      BY <3>1, AdmittedInOrder
  <2>2. m \in Sent /\ m.req \in Requests
    BY <1>1, <2>1, LedgerTypes
  <2>3. told[m.req] # "ok"
    BY <1>1, <1>3, <2>1, <2>2 DEF NumbersFit, Acked
  <2>4. told[m.req] # "refused"
    BY <1>1, <2>2 DEF AnswersAreTrue, NotSent
  <2>5. told[m.req] = "nothing" => m.req \in current \/ hs[m.req] = "gone"
    BY <1>1, <2>2 DEF RunsApart
  <2>6. told[m.req] \in {"nothing", "no_answer"}
    BY <1>1, <2>2, <2>3, <2>4 DEF Told
  <2> QED
    BY <2>1, <2>5, <2>6
<1>4. nonce > NextNonce => \E m \in expired : m.req \in Acked \cap ThisRun
  BY <1>1 DEF LateComersMiss, Counted, Mine
<1> QED
  BY <1>2, <1>3, <1>4

(* Two transactions that this run did not get acknowledged would both have
   the worker's number. *)
LEMMA LedgerLeavesOne ==
    ASSUME LedgerInv
    PROVE  AtMostOneUnacknowledged
<1>1. /\ ServiceInv /\ InOrder /\ CallsOwn /\ NumbersFit /\ nonce \in Nat
  BY DEF LedgerInv, NumbersInv, ServiceInv, ServiceTypeOK
<1>2. ASSUME NEW m \in Held, m.req \in ThisRun \ Acked
      PROVE  m.nonce = nonce
  <2>1. m \in Mine /\ m \in Sent /\ m.nonce \in Nat
    BY <1>1, <1>2, LedgerTypes DEF Mine
  <2>2. m.nonce <= nonce
    BY <1>1, <2>1 DEF NumbersFit
  <2>3. CASE m.req \in current
    BY <1>1, <2>1, <2>3 DEF CallsOwn
  <2>4. CASE m.req \notin current
    <3>1. ~(m.nonce < Reached)
      BY <1>1, <1>2, <2>1, <2>4 DEF NumbersFit
    <3> QED
      BY <1>1, <2>1, <2>2, <3>1 DEF Reached
  <2> QED
    BY <2>3, <2>4
<1>3. \A a, b \in Held : {a.req, b.req} \subseteq ThisRun \ Acked => a = b
  BY <1>1, <1>2, PlacesFit
<1> QED
  BY <1>3, AdmittedInOrder DEF AtMostOneUnacknowledged

(* What clients are told is true. *)
LEMMA LedgerTellsTruth ==
    ASSUME LedgerInv
    PROVE  ReplyTruthful
BY DEF LedgerInv, RequestsInv, AnswersAreTrue, ReplyTruthful, Refusals, NotSent, Acked

-----------------------------------------------------------------------------
(* What a run has counted changes where the worker counts, and nowhere else. *)

(* What was counted was admitted. *)
LEMMA CountedWasAdmitted ==
    ASSUME LedgerInv
    PROVE  Counted = {m \in EverAdmitted : m.req \in Acked \cap ThisRun}
<1>1. ServiceInv /\ AnswersAreTrue /\ SentOnce
  BY DEF LedgerInv, RequestsInv, NumbersInv
<1>2. ASSUME NEW m \in Sent, m.req \in Acked
      PROVE  m \in EverAdmitted
  BY <1>1, <1>2, LedgerTypes DEF AnswersAreTrue, SentOnce, Acked
<1> QED
  BY <1>1, <1>2, LedgerTypes DEF Counted, Mine

(* Neither a new request nor a late transaction adds to it. *)
LEMMA CountedStays ==
    ASSUME LedgerInv, LedgerInv', Acked' = Acked,
           \/ EverAdmitted' = EverAdmitted
           \/ \E c \in inflight : EverAdmitted' = EverAdmitted \cup {c},
           ThisRun' \cap Acked \in {ThisRun \cap Acked, {}}
    PROVE  Counted' \in {Counted, {}}
<1>1. Counted = {m \in EverAdmitted : m.req \in Acked \cap ThisRun}
  BY CountedWasAdmitted
<1>2. Counted' = {m \in EverAdmitted' : m.req \in Acked \cap ThisRun'}
  <2>1. (Counted = {m \in EverAdmitted : m.req \in Acked \cap ThisRun})'
    BY CountedWasAdmitted, PTL
  <2> QED
    BY <2>1
<1>3. \A c \in inflight : c.req \notin Acked
  <2>1. ServiceInv /\ AnswersAreTrue /\ SentOnce
    BY DEF LedgerInv, RequestsInv, NumbersInv
  <2> QED
    BY <2>1, LedgerTypes DEF AnswersAreTrue, SentOnce, Acked
<1>4. \A m \in EverAdmitted' : m.req \in Acked => m \in EverAdmitted
  BY <1>3
<1>5. EverAdmitted \subseteq EverAdmitted'
  OBVIOUS
<1> QED
  BY <1>1, <1>2, <1>4, <1>5

(* A call that ends without an acknowledgement. *)
NotAcknowledged(r) ==
    /\ \E v \in Response : Respond(r, v) \/ RespondAndEnd(r, v)
    /\ Unanswered(r) \/ \E why \in NodeAnswer \ {"none", "ok"} : Refused(r, why)

(* Every step but a start and an acknowledgement leaves the worker's number
   and what was counted, or ends the run. *)
LEMMA OthersCountNothing ==
    ASSUME LedgerInv, LedgerInv',
           \/ \E r \in Requests : \/ Handler(r) \/ Submit(r) \/ NotAcknowledged(r)
                                 \/ \E v \in Response : RespondAtOnce(r, v)
           \/ SendersGone \/ Node \/ Shutdown \/ Interrupt
    PROVE  nonce' = nonce /\ Counted' \in {Counted, {}}
<1> USE DEF handlerVars, workerVars, lifeVars
<1>1. /\ ServiceInv /\ QueuedOnce /\ NothingBefore
      /\ hs \in [Requests -> HandlerState] /\ told \in [Requests -> Told]
  BY DEF LedgerInv, RequestsInv, ServiceInv, ServiceTypeOK
<1>2. ASSUME UNCHANGED <<told, hs>>
      PROVE  Acked' = Acked /\ ThisRun' = ThisRun
  BY <1>2 DEF Acked, ThisRun
<1>3. CASE \E r \in Requests : Handler(r)
  <2>1. PICK r \in Requests : Handler(r)
    BY <1>3
  <2>2. /\ UNCHANGED <<nonce, told, nodeVars>>
        /\ \/ hs[r] \in {"idle", "sending", "waiting"}
              /\ \E h \in {"sending", "waiting", "done"} : hs' = [hs EXCEPT ![r] = h]
    BY <2>1 DEF Handler, RejectRequest, Arrive, Enqueue, SendFails, GetResponse, Cancel, Finish,
                Active
  <2>3. hs[r] = "idle" => r \notin Acked
    BY <1>1 DEF NothingBefore, Acked
  <2>4. Acked' = Acked /\ ThisRun' \cap Acked = ThisRun \cap Acked
    BY <1>1, <2>2, <2>3 DEF Acked, ThisRun
  <2> QED
    BY <2>2, <2>4, NodeStays, CountedStays
<1>4. CASE \E r \in Requests, v \in Response : RespondAtOnce(r, v)
  <2>1. UNCHANGED <<nonce, told, hs, nodeVars>>
    BY <1>4 DEF RespondAtOnce
  <2> QED
    BY <1>2, <2>1, NodeStays, CountedStays
<1>5. CASE \E r \in Requests : Submit(r)
  <2>1. UNCHANGED <<nonce, told, hs, EverAdmitted>>
    BY <1>5 DEF Submit, Transmit, EverAdmitted
  <2> QED
    BY <1>2, <2>1, CountedStays
<1>6. CASE \E r \in Requests : NotAcknowledged(r)
  <2>1. PICK r \in Requests : NotAcknowledged(r)
    BY <1>6
  <2>2. /\ UNCHANGED <<nonce, hs, nodeVars>> /\ r \in current
        /\ \E t \in {"refused", "no_answer"} : told' = [told EXCEPT ![r] = t]
    BY <2>1 DEF NotAcknowledged, Respond, RespondAndEnd, Refused, Unanswered
  <2>3. told[r] = "nothing"
    BY <1>1, <2>2 DEF QueuedOnce
  <2>4. Acked' = Acked /\ ThisRun' = ThisRun
    BY <1>1, <2>2, <2>3 DEF Acked, ThisRun
  <2> QED
    BY <2>2, <2>4, NodeStays, CountedStays
<1>7. CASE SendersGone
  <2>1. UNCHANGED <<nonce, told, hs, nodeVars>>
    BY <1>7 DEF SendersGone
  <2> QED
    BY <1>2, <2>1, NodeStays, CountedStays
<1>8. CASE Node
  <2>1. UNCHANGED <<nonce, told, hs>>
    BY <1>8 DEF Node, ChainMoves, serviceVars, NodeAdmits, NodeRefuses
  <2>2. \/ EverAdmitted' = EverAdmitted
        \/ \E c \in inflight : EverAdmitted' = EverAdmitted \cup {c}
    <3>1. final \in Seq(Message) /\ pending \in Seq(Message) /\ inflight \subseteq Message
      BY <1>1 DEF ServiceInv, NodeTypeOK
    <3>2. ASSUME NEW c \in inflight, Admit(c)
          PROVE  EverAdmitted' = EverAdmitted \cup {c}
      BY <3>1, <3>2, RangeAppend DEF Admit, EverAdmitted
    <3>3. ASSUME NEW c \in inflight, Refuse(c)
          PROVE  EverAdmitted' = EverAdmitted
      BY <3>3 DEF Refuse, EverAdmitted
    <3>4. ASSUME Finalize
          PROVE  EverAdmitted' = EverAdmitted
      BY <3>1, <3>4, RangeAppend, RangeHeadTail DEF Finalize, EverAdmitted
    <3>5. ASSUME Expire
          PROVE  EverAdmitted' = EverAdmitted
      BY <3>5, RangeEmpty DEF Expire, EverAdmitted
    <3> QED
      BY <1>8, <3>2, <3>3, <3>4, <3>5 DEF Node, ChainMoves, NodeAdmits, NodeRefuses
  <2> QED
    BY <1>2, <2>1, <2>2, CountedStays
<1>9. CASE Shutdown \/ Interrupt
  <2>1. /\ UNCHANGED <<nonce, told, nodeVars>>
        /\ hs' = hs \/ Halt
    BY <1>9 DEF Shutdown, TaskEnded, ServerDrains, ServerFinishes, MainStops, MainAborts,
                MainReturns, Interrupt, Signal, ServerFails, Crash, Halt
  <2>2. Acked' = Acked
    BY <2>1 DEF Acked
  <2>3. ThisRun' = ThisRun \/ ThisRun' = {}
    BY <2>1 DEF ThisRun, Halt
  <2> QED
    BY <2>1, <2>2, <2>3, NodeStays, CountedStays
<1> QED
  BY <1>3, <1>4, <1>5, <1>6, <1>7, <1>8, <1>9

(* A start has counted nothing. *)
LEMMA StartCountsNothing ==
    ASSUME LedgerInv, Start
    PROVE  Counted' = {}
<1>1. RunsApart
  BY DEF LedgerInv, RequestsInv
<1> QED
  BY <1>1 DEF Start, RunsApart, Counted, Mine, ThisRun, handlerVars

(* An acknowledgement counts one transaction, with the worker's number. *)
LEMMA AcknowledgedCounts ==
    ASSUME LedgerInv, NEW r \in Requests, NEW v \in Response, Acknowledged(r),
           Respond(r, v) \/ RespondAndEnd(r, v)
    PROVE  /\ nonce' = nonce + 1 /\ nonce \in Nat
           /\ \A m \in Counted : m.nonce \in Nat /\ m.nonce < nonce
           /\ \E c \in EverAdmitted : /\ c.req = r /\ c.nonce = nonce
                                      /\ Counted' = Counted \cup {c}
<1>1. /\ ServiceInv /\ QueuedOnce /\ SentOnce /\ CallsOwn /\ NumbersFit
      /\ hs \in [Requests -> HandlerState] /\ told \in [Requests -> Told] /\ nonce \in Nat
  BY DEF LedgerInv, RequestsInv, NumbersInv, ServiceInv, ServiceTypeOK
<1>2. /\ current = {r} /\ answer = "ok" /\ nonce' = nonce + 1
      /\ told' = [told EXCEPT ![r] = "ok"] /\ UNCHANGED <<hs, nodeVars>>
  BY DEF Acknowledged, Respond, RespondAndEnd, handlerVars
<1>3. PICK c \in EverAdmitted : c.req = r
  BY <1>1, <1>2 DEF CallsOwn
<1>4. c.nonce = nonce /\ c \in Sent /\ \A m \in Sent : m.req = r => m = c
  BY <1>1, <1>2, <1>3, LedgerTypes DEF CallsOwn, SentOnce
<1>5. r \in ThisRun /\ ThisRun' = ThisRun /\ Acked' = Acked \cup {r} /\ Sent' = Sent
  BY <1>1, <1>2, NodeStays DEF QueuedOnce, ThisRun, Acked
<1>6. Counted' = Counted \cup {c}
  BY <1>3, <1>4, <1>5 DEF Counted, Mine
<1>7. \A m \in Counted : m.nonce \in Nat /\ m.nonce < nonce
  BY <1>1, LedgerTypes DEF NumbersFit
<1> QED
  BY <1>1, <1>2, <1>3, <1>4, <1>6, <1>7
=============================================================================
