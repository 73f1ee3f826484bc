-------------------------- MODULE Web3IdIssuerProofs --------------------------
(***************************************************************************)
(* Theorems about the generic issuer, for every set of requests, every     *)
(* capacity of the channel and every number of restarts.                   *)
(***************************************************************************)
EXTENDS Web3IdIssuer, IssuerServiceProofs

(* The handler, with its secrets after the worker. *)
LEMMA IssueCredentialLedger ==
    ASSUME LedgerInv, NEW r \in Requests, IssueCredential(r)
    PROVE  LedgerInv'
<1>1. RunsApart
  BY DEF LedgerInv, RequestsInv
<1>2. CASE SecretsFail(r)
  BY <1>1, <1>2, FinishLedger DEF SecretsFail, RunsApart, Reply, Refusals
<1> QED
  BY <1>2, HandlerLedger DEF IssueCredential

(* The worker, which answers every call and never returns by itself. *)
LEMMA TxSenderLedger ==
    ASSUME LedgerInv, TxSender
    PROVE  LedgerInv'
<1>1. "ok" \in Response \ Refusals /\ "internal" \in Response \ {"ok"} /\ "internal" \notin Refusals
  BY DEF Response, Slot, Refusals
<1>2. ASSUME NEW r \in Requests, Register(r)
      PROVE  LedgerInv'
  BY <1>2, SubmitLedger DEF Register
<1>3. ASSUME NEW r \in Requests, Registered(r)
      PROVE  LedgerInv'
  BY <1>1, <1>3, AcknowledgedLedger DEF Registered
<1>4. ASSUME NEW r \in Requests, RegisterFails(r)
      PROVE  LedgerInv'
  BY <1>1, <1>4, NotAcknowledgedLedger DEF RegisterFails
<1>5. ASSUME NEW r \in Requests, CallFails(r)
      PROVE  LedgerInv'
  BY <1>1, <1>5, NotAcknowledgedLedger DEF CallFails
<1> QED
  BY <1>2, <1>3, <1>4, <1>5, SendersGoneLedger DEF TxSender

(* The invariant is inductive. *)
LEMMA LedgerInvInductive == Spec => []LedgerInv
<1>1. Init => LedgerInv
  BY LedgerInit DEF Init
<1>2. LedgerInv /\ [Next]_web3Vars => LedgerInv'
  BY IssueCredentialLedger, TxSenderLedger, NodeLedger, ProcessLedger,
     StutterLedger DEF Next, StartServices, web3Vars
<1> QED
  BY <1>1, <1>2, PTL DEF Spec

(* Types, for every instance of the generic issuer. *)
THEOREM Web3IdIssuerTypes == Spec => []TypeOK
<1>1. LedgerInv => TypeOK
  BY DEF LedgerInv, ServiceInv, TypeOK
<1> QED
  BY <1>1, LedgerInvInductive, PTL

(* No handler waits for a response that nobody is going to send. *)
THEOREM Web3IdIssuerLeavesNoOrphan == Spec => []NoOrphanedWaiter
<1>1. LedgerInv => NoOrphanedWaiter
  BY DEF LedgerInv, ServiceInv
<1> QED
  BY <1>1, LedgerInvInductive, PTL

(* The worker's sequence number and the node's differ only by lost answers,
   by what earlier runs left on its way, and by expired transactions. *)
THEOREM Web3IdIssuerTracksNode == Spec => []NonceTracksNode
BY LedgerInvInductive, LedgerTracksNode, PTL

(* A run leaves at most one transaction on the chain without having got it
   acknowledged, although the worker carries on after every error. *)
THEOREM Web3IdIssuerLeavesOne == Spec => []AtMostOneUnacknowledged
BY LedgerInvInductive, LedgerLeavesOne, PTL

(* "ok" means that the transaction was admitted, a refusal that it never will
   be, also where the secrets fail after the transaction was sent. *)
THEOREM Web3IdIssuerTellsTruth == Spec => []ReplyTruthful
BY LedgerInvInductive, LedgerTellsTruth, PTL

-----------------------------------------------------------------------------
(* The account's final transactions never become fewer. *)
LEMMA FinalGrows ==
    ASSUME LedgerInv, [Next]_web3Vars
    PROVE  Len(final) \in Nat /\ Len(final') \in Nat /\ Len(final') >= Len(final)
<1>1. final \in Seq(Message) /\ pending \in Seq(Message) /\ Len(final) \in Nat
  BY LenProperties DEF LedgerInv, ServiceInv, NodeTypeOK
<1>2. CASE Finalize
  <2>1. Head(pending) \in Message
    BY <1>1, <1>2, RangeHeadTail DEF Finalize
  <2> QED
    BY <1>1, <1>2, <2>1, AppendProperties DEF Finalize
<1>3. final' = final \/ Finalize
  <2> USE DEF nodeVars
  <2>1. CASE TxSender
    BY <2>1 DEF TxSender, Register, Submit, Transmit, Registered, RegisterFails, CallFails,
                Respond, SendersGone
  <2>2. CASE StartServices \/ Shutdown \/ Interrupt
    BY <2>2 DEF StartServices, Start, Shutdown, TaskEnded, ServerDrains, ServerFinishes,
                MainStops, MainAborts, MainReturns, Halt, Interrupt, Signal, ServerFails, Crash
  <2>3. CASE \E r \in Requests : IssueCredential(r)
    BY <2>3 DEF IssueCredential, SecretsFail, Handler, RejectRequest, Arrive, Enqueue,
                SendFails, GetResponse, Cancel, Finish
  <2>4. CASE Node
    BY <2>4 DEF Node, ChainMoves, Expire, NodeAdmits, NodeRefuses, Admit, Refuse
  <2>5. CASE UNCHANGED web3Vars
    BY <2>5 DEF web3Vars
  <2> QED
    BY <2>1, <2>2, <2>3, <2>4, <2>5 DEF Next
<1> QED
  BY <1>1, <1>2, <1>3

(* Which steps of a run make the worker count, and which the node answer. *)
LEMMA WhoCounts ==
    ASSUME [Next]_web3Vars, starts' = starts, starts \in Int, answer # "ok"
    PROVE  /\ nonce' = nonce
           /\ answer' = "ok" => \E m \in inflight : NodeAdmits(m) /\ m.req \in current
<1> USE DEF workerVars, handlerVars, lifeVars
<1>1. CASE TxSender
  BY <1>1 DEF TxSender, Register, Submit, Registered, Acknowledged, RegisterFails, Refused,
              CallFails, Unanswered, Respond, SendersGone
<1>2. CASE StartServices \/ Shutdown \/ Interrupt
  BY <1>2 DEF StartServices, Start, Shutdown, TaskEnded, ServerDrains, ServerFinishes,
              MainStops, MainAborts, MainReturns, Halt, Interrupt, Signal, ServerFails, Crash
<1>3. CASE \E r \in Requests : IssueCredential(r)
  BY <1>3 DEF IssueCredential, SecretsFail, Handler, RejectRequest, Arrive, Enqueue,
              SendFails, GetResponse, Cancel, Finish
<1>4. CASE Node
  BY <1>4 DEF Node, ChainMoves, serviceVars, NodeAdmits, NodeRefuses
<1>5. CASE UNCHANGED web3Vars
  BY <1>5 DEF web3Vars, serviceVars
<1> QED
  BY <1>1, <1>2, <1>3, <1>4, <1>5 DEF Next

(* Nor does a step without the node's "ok" acknowledge a request. *)
LEMMA WhoAcknowledges ==
    ASSUME LedgerInv, [Next]_web3Vars, answer # "ok"
    PROVE  Acked' = Acked
<1> USE DEF workerVars, handlerVars, lifeVars
<1>1. QueuedOnce /\ told \in [Requests -> Told]
  BY DEF LedgerInv, RequestsInv, ServiceInv, ServiceTypeOK
<1>2. ASSUME NEW r \in Requests, current = {r},
             told' = [told EXCEPT ![r] = "refused"] \/ told' = [told EXCEPT ![r] = "no_answer"]
      PROVE  Acked' = Acked
  <2>1. told[r] = "nothing"
    BY <1>1, <1>2 DEF QueuedOnce
  <2> QED
    BY <1>1, <1>2, <2>1 DEF Acked
<1>3. ASSUME told' = told
      PROVE  Acked' = Acked
  BY <1>3 DEF Acked
<1>4. CASE TxSender
  BY <1>2, <1>3, <1>4 DEF TxSender, Register, Submit, Registered, Acknowledged, RegisterFails,
              Refused, CallFails, Unanswered, Respond, SendersGone
<1>5. CASE StartServices \/ Shutdown \/ Interrupt
  BY <1>3, <1>5 DEF StartServices, Start, Shutdown, TaskEnded, ServerDrains, ServerFinishes,
              MainStops, MainAborts, MainReturns, Halt, Interrupt, Signal, ServerFails, Crash
<1>6. CASE \E r \in Requests : IssueCredential(r)
  BY <1>3, <1>6 DEF IssueCredential, SecretsFail, Handler, RejectRequest, Arrive, Enqueue,
              SendFails, GetResponse, Cancel, Finish
<1>7. CASE Node
  BY <1>3, <1>7 DEF Node, ChainMoves, serviceVars, NodeAdmits, NodeRefuses
<1>8. CASE UNCHANGED web3Vars
  BY <1>3, <1>8 DEF web3Vars, serviceVars
<1> QED
  BY <1>4, <1>5, <1>6, <1>7, <1>8 DEF Next

(* A taken number stays taken: the transaction of the call that is under way
   has the worker's number, which is not the next one of the account, so that
   the node does not admit it; and nothing else is acknowledged. *)
THEOREM Web3IdIssuerStaleIsHarmless == Spec => StaleNonceIssuesNothing
<1>1. ASSUME LedgerInv, [Next]_web3Vars, StaleNonce, starts' = starts
      PROVE  StaleNonce' /\ nonce' = nonce /\ Acked' = Acked
  <2>1. /\ nonce <= Len(final) /\ answer # "ok" /\ starts \in Int /\ CallsOwn
        /\ ServiceInv /\ nonce \in Nat
    BY <1>1, LedgerTypes
       DEF StaleNonce, LedgerInv, NumbersInv, ServiceInv, ServiceTypeOK
  <2>2. nonce' = nonce /\ Acked' = Acked
    BY <1>1, <2>1, WhoCounts, WhoAcknowledges
  <2>3. answer' # "ok"
    <3> SUFFICES ASSUME NEW m \in inflight, NodeAdmits(m), m.req \in current
                 PROVE  FALSE
      BY <1>1, <2>1, WhoCounts
    <3>1. m.nonce = nonce /\ m.nonce = NextNonce
      BY <2>1, LedgerTypes DEF CallsOwn, NodeAdmits, Admit
    <3> QED
      BY <2>1, <3>1, LedgerTypes DEF NextNonce
  <2>4. nonce <= Len(final')
    BY <1>1, <2>1, FinalGrows
  <2> QED
    BY <2>2, <2>3, <2>4 DEF StaleNonce
<1>2. LedgerInv /\ [Next]_web3Vars
        => [StaleNonce /\ starts' = starts
              => StaleNonce' /\ nonce' = nonce /\ Acked' = Acked]_web3Vars
  BY <1>1
<1> QED
  BY <1>2, LedgerInvInductive, PTL DEF Spec, StaleNonceIssuesNothing
=============================================================================
