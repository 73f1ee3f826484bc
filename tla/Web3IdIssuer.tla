---------------------------- MODULE Web3IdIssuer -----------------------------
(***************************************************************************)
(* The generic issuer (services/web3id-issuer): the service of             *)
(* IssuerService with a worker that submits whatever it is given, answers  *)
(* with what the node said, and carries on after every error.  The checks  *)
(* of a request and the making of its secrets are in the handler.          *)
(***************************************************************************)
EXTENDS IssuerService

web3Vars == <<serviceVars, nodeVars>>

-----------------------------------------------------------------------------
(* Mutant: secrets that cannot be made are blamed on the request. *)
SecretsFailAsBadRequest(r) ==
    /\ hs[r] = "waiting"
    /\ slot[r] = "ok"
    /\ Finish(r, "bad_request")

(* issue_credential: the checks and the way to the worker are those of Handler,
   but make_secrets runs after the worker's response, for a transaction that
   has been sent. *)
SecretsFail(r) ==
    /\ hs[r] = "waiting"
    /\ slot[r] = "ok"
    /\ Finish(r, "internal")

IssueCredential(r) == Handler(r) \/ SecretsFail(r)

-----------------------------------------------------------------------------
(* tx_sender and register_credential *)
Register(r) == Submit(r)

Registered(r) == Acknowledged(r) /\ Respond(r, "ok")

(* Every error of the call, a wrong sequence number among them, is passed to
   the handler as CouldNotSubmit. *)
RegisterFails(r) ==
    /\ \E why \in {"invalid_argument", "node_rejected"} : Refused(r, why)
    /\ Respond(r, "internal")

(* Mutant: nobody is told of a call that timed out. *)
CallFailsUnreported(r) ==
    /\ current = {r}
    /\ current' = {}
    /\ answer' = "none"
    /\ Unanswered(r)
    /\ UNCHANGED <<handlerVars, slot, chan, worker, lifeVars, nodeVars>>

(* So is a call that ends without an answer. *)
CallFails(r) ==
    /\ Unanswered(r)
    /\ Respond(r, "internal")

TxSender ==
    \/ \E r \in Requests :
          Register(r) \/ Registered(r) \/ RegisterFails(r) \/ CallFails(r)
    \/ SendersGone

-----------------------------------------------------------------------------
StartServices == Start

Init == ServiceInit /\ NodeInit

Next == \/ TxSender
        \/ StartServices
        \/ \E r \in Requests : IssueCredential(r)
        \/ Node
        \/ Shutdown
        \/ Interrupt

Spec == Init /\ [][Next]_web3Vars

(* As for the example issuers: tasks run, calls to the node end. *)
FairSpec ==
    /\ Spec
    /\ WF_web3Vars(TxSender)
    /\ \A r \in Requests :
          WF_web3Vars(Enqueue(r) \/ SendFails(r) \/ GetResponse(r) \/ SecretsFail(r))
    /\ WF_web3Vars(Shutdown)

-----------------------------------------------------------------------------
TypeOK == ServiceTypeOK /\ NodeTypeOK

(* The worker does not notice that its number is taken, and does not end.
   What saves the clients: once the number is taken by a final transaction
   that is not its own, it stays taken, and nothing is acknowledged any more,
   whatever is requested and whatever arrives at the node late, so no
   credential is handed out for a transaction that is not there.  Only a new
   run of the process repairs it. *)
StaleNonce == nonce <= Len(final) /\ answer # "ok"

StaleNonceIssuesNothing ==
    [][StaleNonce /\ starts' = starts
          => StaleNonce' /\ nonce' = nonce /\ Acked' = Acked]_web3Vars

(* Every request ends without the help of its timeout, also while every call
   to the node fails. *)
EveryRequestEnds == \A r \in Requests : Active(r) ~> ~Active(r)
=============================================================================
