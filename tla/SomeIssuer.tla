----------------------------- MODULE SomeIssuer ------------------------------
(***************************************************************************)
(* The example issuers for Discord and Telegram users                      *)
(* (examples/some-issuer): the service of IssuerService with a worker that *)
(* validates credentials, limits how often a user is issued one, and ends  *)
(* when the node says that the transaction is invalid.                     *)
(***************************************************************************)
EXTENDS IssuerService, RateLimiter

VARIABLE user  \* whom each request authenticates as: [Requests -> Users]

otherVars == <<limiterVars, user>>
someVars  == <<serviceVars, nodeVars, otherVars>>

-----------------------------------------------------------------------------
(* tx_sender: one step for what it does between two awaits. *)

(* Mutant: an invalid request is skipped, its response sender kept. *)
RejectInvalidUnreported(r) ==
    /\ Next1(r)
    /\ chan' = Tail(chan)
    /\ UNCHANGED <<handlerVars, slot, workerVars, lifeVars, nodeVars, otherVars>>

(* validate_credential fails: which requests it refuses is up to the client
   and, for "valid from now", to the time r has waited in the channel. *)
RejectInvalid(r) ==
    /\ RespondAtOnce(r, "bad_request")
    /\ UNCHANGED otherVars

RejectLimited(r) ==
    /\ ~CheckLimit(user[r])
    /\ RespondAtOnce(r, "too_many_requests")
    /\ UNCHANGED otherVars

Register(r) ==
    /\ CheckLimit(user[r])
    /\ Submit(r)
    /\ UNCHANGED otherVars

(* Mutant: an issuance is counted only for a client that is still there. *)
RegisteredUncounted(r) ==
    /\ Acknowledged(r)
    /\ IF hs[r] = "waiting" THEN UpdateLimit(user[r]) ELSE UNCHANGED limiterVars
    /\ Respond(r, "ok") \/ RespondAndEnd(r, "internal")
    /\ UNCHANGED user

(* The node took the transaction: the sequence number and the limiter
   advance together, and then the secrets are made, or not. *)
Registered(r) ==
    /\ Acknowledged(r)
    /\ UpdateLimit(user[r])
    /\ Respond(r, "ok") \/ RespondAndEnd(r, "internal")
    /\ UNCHANGED user

(* "Assuming account sequence number is incorrect ... and terminating." *)
InvalidArgument(r) ==
    /\ Refused(r, "invalid_argument")
    /\ RespondAndEnd(r, "internal")
    /\ UNCHANGED otherVars

NodeRejected(r) ==
    /\ Refused(r, "node_rejected")
    /\ Respond(r, "bad_request")
    /\ UNCHANGED otherVars

(* Mutant: every error of the chain is taken for a rejection. *)
CallFailsAsRejected(r) ==
    /\ Unanswered(r)
    /\ Respond(r, "bad_request")
    /\ UNCHANGED otherVars

CallFails(r) ==
    /\ Unanswered(r)
    /\ Respond(r, "bad_gateway")
    /\ UNCHANGED otherVars

WorkerStops == SendersGone /\ UNCHANGED otherVars

TxSender ==
    \/ \E r \in Requests :
          \/ RejectInvalid(r) \/ RejectLimited(r) \/ Register(r)
          \/ Registered(r) \/ InvalidArgument(r) \/ NodeRejected(r)
          \/ CallFails(r)
    \/ WorkerStops

-----------------------------------------------------------------------------
(* SyncState::new: the limiter starts empty in every run of the process. *)
StartIssuer == /\ Start
               /\ queue' = << >>
               /\ mapping' = [u \in {} |-> 0]
               /\ UNCHANGED user

(* Handlers, shutdown and the node know nothing of users and limits. *)
RequestHandler == (\E r \in Requests : Handler(r)) /\ UNCHANGED otherVars
ShutdownStep   == Shutdown /\ UNCHANGED otherVars
Environment    == (Node \/ Interrupt) /\ UNCHANGED otherVars

Init == /\ ServiceInit
        /\ NodeInit
        /\ LimiterInit
        /\ user \in [Requests -> Users]

Next == TxSender \/ StartIssuer \/ RequestHandler \/ ShutdownStep \/ Environment

Spec == Init /\ [][Next]_someVars

(* tokio polls every task that can make progress, and the node's timeout
   ends every call; that the request's own timeout, a client, a signal or a
   restart comes to the rescue is not assumed. *)
Fairness ==
    /\ WF_someVars(TxSender)
    /\ \A r \in Requests :
          WF_someVars((Enqueue(r) \/ SendFails(r) \/ GetResponse(r)) /\ UNCHANGED otherVars)
    /\ WF_someVars(ShutdownStep)

FairSpec == Spec /\ Fairness

-----------------------------------------------------------------------------
TypeOK == /\ ServiceTypeOK
          /\ NodeTypeOK
          /\ LimiterTypeOK
          /\ user \in [Requests -> Users]

(* The chain's view of the limit: among any consecutive transactions of the
   account, as many as the limiter remembers, no user has more of this run
   than the multiplicity, and one more only for a transaction that was never
   acknowledged and so was not counted. *)
OnChain(u, n) == {m \in Range(Admitted) : /\ m.req \in ThisRun /\ user[m.req] = u
                                         /\ m.nonce \in n..n + Window - 1}

RateLimitOnChain ==
    \A u \in Users, n \in 1..Len(Admitted) :
        /\ Cardinality({m \in OnChain(u, n) : m.req \in Acked}) <= Multiplicity
        /\ Cardinality(OnChain(u, n)) <= Multiplicity + 1

(* Every request that reached the service is answered, or its connection is
   closed, without the help of any request timeout. *)
EveryRequestEnds == \A r \in Requests : Active(r) ~> ~Active(r)

(* The service does not outlive its worker: once the worker has ended, for
   whatever reason, the whole process ends. *)
WorkerEndStopsProcess == worker = "ended" ~> main = "down"
=============================================================================
