---------------------------- MODULE IssuerService ----------------------------
(***************************************************************************)
(* What the issuer services have in common (examples/some-issuer and       *)
(* services/web3id-issuer): HTTP handlers that pass a request and a        *)
(* one-shot response channel to a single worker over a bounded channel and *)
(* wait; a worker that owns the account's sequence number and submits one  *)
(* transaction at a time; and start_services, which runs the server and    *)
(* the worker and stops both when either ends.                             *)
(*                                                                         *)
(* The worker's own loop is in the modules that extend this one.           *)
(***************************************************************************)
EXTENDS IssuerNode

CONSTANTS ChannelCap,  \* capacity of the channel to the worker (100 in main)
          MaxStarts    \* bound: how often the process is started

ASSUME ServiceAssumption ==
    /\ ChannelCap \in Nat \ {0}
    /\ MaxStarts \in Nat

VARIABLES
    hs,       \* handler of each request: [Requests -> HandlerState]
    reply,    \* what its client was answered: [Requests -> Reply]
    slot,     \* its one-shot response channel: [Requests -> Slot]
    chan,     \* the channel to the worker: Seq(Requests)
    worker,   \* the worker task
    current,  \* {r} while the worker awaits the node for r, else {}
    answer,   \* the node's answer to that call, once there is one
    nonce,    \* the worker's sequence number
    told,     \* history: what the node told the worker of each transaction
    died,     \* something was sent on the died channel
    server,   \* the HTTP server task
    main,     \* the main task
    starts    \* how often the process was started

handlerVars == <<hs, reply>>
workerVars  == <<worker, current, answer, nonce, told>>
lifeVars    == <<died, server, main, starts>>
serviceVars == <<hs, reply, slot, chan, worker, current, answer, nonce, told,
                 died, server, main, starts>>

(* "none": not answered yet, or never; "dropped": the handler was dropped, by
   TimeoutLayer (408) or because its client disconnected. *)
Reply == {"none", "ok", "bad_request", "too_many_requests", "internal",
          "bad_gateway", "dropped"}
Slot == {"empty", "closed", "ok", "bad_request", "too_many_requests",
         "internal", "bad_gateway"}
(* "gone": belonged to an earlier run of the process. *)
HandlerState == {"idle", "sending", "waiting", "done", "gone"}
NodeAnswer == {"none", "ok", "invalid_argument", "node_rejected"}
Told == {"nothing", "ok", "refused", "no_answer"}

Active(r) == hs[r] \in {"sending", "waiting"}

(* Requests of this run of the process. *)
ThisRun == {r \in Requests : hs[r] \in {"sending", "waiting", "done"}}

ServiceInit ==
    /\ hs = [r \in Requests |-> "idle"]
    /\ reply = [r \in Requests |-> "none"]
    /\ slot = [r \in Requests |-> "empty"]
    /\ chan = << >>
    /\ worker = "off"
    /\ current = {}
    /\ answer = "none"
    /\ nonce = 1
    /\ told = [r \in Requests |-> "nothing"]
    /\ died = FALSE
    /\ server = "down"
    /\ main = "down"
    /\ starts = 0

-----------------------------------------------------------------------------
(* The request handler: send_tx and the TimeoutLayer around it. *)

(* The handler returns or is dropped, and its end of the one-shot with it. *)
Finish(r, status) ==
    /\ hs' = [hs EXCEPT ![r] = "done"]
    /\ reply' = [reply EXCEPT ![r] = status]
    /\ slot' = [slot EXCEPT ![r] = "empty"]
    /\ UNCHANGED <<chan, workerVars, lifeVars, nodeVars>>

(* What the handlers check by themselves: nobody has signed in, or the signed
   user or the username is not there or not right; in the generic issuer, the
   identifier, network or validity range.  Answered before it gets to the
   worker. *)
RejectRequest(r) ==
    /\ server = "up"
    /\ hs[r] = "idle"
    /\ Finish(r, "bad_request")

(* Or it is to be sent to the worker. *)
Arrive(r) ==
    /\ server = "up"
    /\ hs[r] = "idle"
    /\ hs' = [hs EXCEPT ![r] = "sending"]
    /\ UNCHANGED <<reply, slot, chan, workerVars, lifeVars, nodeVars>>

(* sender.send(data).await: waits for a free place in the channel. *)
Enqueue(r) ==
    /\ hs[r] = "sending"
    /\ worker = "running"
    /\ Len(chan) < ChannelCap
    /\ chan' = Append(chan, r)
    /\ hs' = [hs EXCEPT ![r] = "waiting"]
    /\ UNCHANGED <<reply, slot, workerVars, lifeVars, nodeVars>>

(* The worker is gone: the channel's receiver was dropped. *)
SendFails(r) ==
    /\ hs[r] = "sending"
    /\ worker # "running"
    /\ Finish(r, "internal")

(* Mutant: a closed response channel is taken for a response. *)
GetResponseUnchecked(r) ==
    /\ hs[r] = "waiting"
    /\ slot[r] # "empty"
    /\ Finish(r, slot[r])

(* response_receiver.await *)
GetResponse(r) ==
    /\ hs[r] = "waiting"
    /\ slot[r] # "empty"
    /\ Finish(r, IF slot[r] = "closed" THEN "internal" ELSE slot[r])

(* Mutant: the handler makes the call itself, so that a request that is
   dropped takes the call with it (some-issuer before 1.0.1, web3id-issuer
   before 0.3.2). *)
CancelAbortsCall(r) ==
    /\ Active(r)
    /\ hs' = [hs EXCEPT ![r] = "done"]
    /\ reply' = [reply EXCEPT ![r] = "dropped"]
    /\ slot' = [slot EXCEPT ![r] = "empty"]
    /\ current' = current \ {r}
    /\ answer' = IF r \in current THEN "none" ELSE answer
    /\ UNCHANGED <<chan, worker, nonce, told, lifeVars, nodeVars>>

(* The request times out, or its client disconnects: the handler is dropped
   where it waits.  What it has enqueued stays enqueued. *)
Cancel(r) ==
    /\ Active(r)
    /\ Finish(r, "dropped")

Handler(r) ==
    \/ RejectRequest(r) \/ Arrive(r) \/ Enqueue(r) \/ SendFails(r)
    \/ GetResponse(r) \/ Cancel(r)

-----------------------------------------------------------------------------
(* The worker's dealings with the channel and the node. *)

(* receiver.recv() returned r. *)
Next1(r) == worker = "running" /\ current = {} /\ chan # << >> /\ r = Head(chan)

(* response_sender.send(v): nobody listens when the handler was dropped. *)
Delivered(r, v) ==
    IF hs[r] = "waiting" THEN [slot EXCEPT ![r] = v] ELSE slot

(* The worker takes r and answers it without asking the node. *)
RespondAtOnce(r, v) ==
    /\ Next1(r)
    /\ chan' = Tail(chan)
    /\ slot' = Delivered(r, v)
    /\ UNCHANGED <<handlerVars, workerVars, lifeVars, nodeVars>>

(* The worker takes r and sends the transaction under its own number. *)
Submit(r) ==
    /\ Next1(r)
    /\ chan' = Tail(chan)
    /\ current' = {r}
    /\ answer' = "none"
    /\ Transmit([req |-> r, nonce |-> nonce, at |-> sends])
    /\ UNCHANGED <<handlerVars, slot, worker, nonce, told, lifeVars>>

(* The call for r ended, the worker answers v and carries on. *)
Respond(r, v) ==
    /\ current = {r}
    /\ current' = {}
    /\ answer' = "none"
    /\ slot' = Delivered(r, v)
    /\ UNCHANGED <<handlerVars, chan, worker, lifeVars, nodeVars>>

(* Mutant: the queue outlives the worker that was to read it. *)
EndKeepsChannel(r, v) ==
    /\ current = {r}
    /\ current' = {}
    /\ answer' = "none"
    /\ slot' = Delivered(r, v)
    /\ worker' = "ended"
    /\ UNCHANGED <<handlerVars, chan, lifeVars, nodeVars>>

(* The call for r ended, the worker answers v and returns: the channel goes
   with it, and with the channel the response senders queued in it. *)
RespondAndEnd(r, v) ==
    /\ current = {r}
    /\ current' = {}
    /\ answer' = "none"
    /\ slot' = [q \in Requests |->
                  IF q # r /\ q \in Range(chan) /\ hs[q] = "waiting"
                  THEN "closed" ELSE Delivered(r, v)[q]]
    /\ chan' = << >>
    /\ worker' = "ended"
    /\ UNCHANGED <<handlerVars, lifeVars, nodeVars>>

(* The node acknowledged r: self.state.nonce.next_mut(). *)
Acknowledged(r) ==
    /\ answer = "ok"
    /\ nonce' = nonce + 1
    /\ told' = [told EXCEPT ![r] = "ok"]

(* The node answered, and not with an acknowledgement. *)
Refused(r, why) ==
    /\ answer = why
    /\ told' = [told EXCEPT ![r] = "refused"]
    /\ UNCHANGED nonce

(* Mutant: a transaction that was sent is taken for one that was admitted. *)
UnansweredAdvances(r) ==
    /\ told' = [told EXCEPT ![r] = "no_answer"]
    /\ nonce' = nonce + 1

(* The call ended without the node's answer: its timeout, which is no longer
   than the request's, or a broken connection.  The transaction may have been
   admitted, or may yet be. *)
Unanswered(r) ==
    /\ told' = [told EXCEPT ![r] = "no_answer"]
    /\ UNCHANGED nonce

(* recv() returned None: every sender was dropped, the server's with it and
   the handlers' with theirs. *)
SendersGone ==
    /\ worker = "running" /\ current = {} /\ chan = << >>
    /\ server = "finished" /\ \A r \in Requests : ~Active(r)
    /\ worker' = "ended"
    /\ UNCHANGED <<handlerVars, slot, chan, current, answer, nonce, told,
                   lifeVars, nodeVars>>

-----------------------------------------------------------------------------
(* The node, as the worker sees it. *)

NodeAdmits(m) ==
    /\ Admit(m)
    /\ answer' = IF m.req \in current THEN "ok" ELSE answer
    /\ UNCHANGED <<handlerVars, slot, chan, worker, current, nonce, told, lifeVars>>

(* A wrong sequence number is an invalid argument; other reasons to refuse
   are reported as such or as a rejection by the contract. *)
NodeRefuses(m) ==
    /\ Refuse(m)
    /\ \E why \in {"invalid_argument", "node_rejected"} :
          /\ why = "node_rejected" => m.nonce = NextNonce
          /\ answer' = IF m.req \in current THEN why ELSE answer
    /\ UNCHANGED <<handlerVars, slot, chan, worker, current, nonce, told, lifeVars>>

ChainMoves ==
    /\ Finalize \/ Expire
    /\ UNCHANGED serviceVars

Node == ChainMoves \/ \E m \in inflight : NodeAdmits(m) \/ NodeRefuses(m)

-----------------------------------------------------------------------------
(* start_services, and the process around it. *)

(* Mutant: starts while transactions of an earlier run are pending. *)
StartUnfinalized ==
    /\ main = "down" /\ starts < MaxStarts
    /\ nonce' = NextNonce
    /\ starts' = starts + 1
    /\ main' = "running" /\ server' = "up" /\ worker' = "running"
    /\ UNCHANGED <<handlerVars, slot, chan, current, answer, told, died, nodeVars>>

(* main: the node's sequence number is used only when all of the account's
   transactions are final; otherwise the program refuses to start. *)
Start ==
    /\ main = "down" /\ starts < MaxStarts
    /\ AllFinal
    /\ nonce' = NextNonce
    /\ starts' = starts + 1
    /\ main' = "running" /\ server' = "up" /\ worker' = "running"
    /\ UNCHANGED <<handlerVars, slot, chan, current, answer, told, died, nodeVars>>

(* Mutant: the worker is spawned without spawn_cancel. *)
ServerEnded ==
    /\ main # "down" /\ ~died
    /\ server = "finished"
    /\ died' = TRUE
    /\ UNCHANGED <<handlerVars, slot, chan, workerVars, server, main, starts, nodeVars>>

(* spawn_cancel tells the others that its task ended. *)
TaskEnded ==
    /\ main # "down" /\ ~died
    /\ worker = "ended" \/ server = "finished"
    /\ died' = TRUE
    /\ UNCHANGED <<handlerVars, slot, chan, workerVars, server, main, starts, nodeVars>>

(* SIGINT or SIGTERM, or the Prometheus server ends. *)
Signal ==
    /\ main = "running" /\ ~died
    /\ died' = TRUE
    /\ UNCHANGED <<handlerVars, slot, chan, workerVars, server, main, starts, nodeVars>>

(* The server ends with an error; the connections it has accepted are tasks
   of their own and carry on. *)
ServerFails ==
    /\ server = "up"
    /\ server' = "finished"
    /\ UNCHANGED <<handlerVars, slot, chan, workerVars, died, main, starts, nodeVars>>

(* shutdown_trigger of the server: it takes no new connections, ... *)
ServerDrains ==
    /\ died /\ server = "up"
    /\ server' = "draining"
    /\ UNCHANGED <<handlerVars, slot, chan, workerVars, died, main, starts, nodeVars>>

(* ... and ends when the requests it has are answered. *)
ServerFinishes ==
    /\ server = "draining" /\ \A r \in Requests : ~Active(r)
    /\ server' = "finished"
    /\ UNCHANGED <<handlerVars, slot, chan, workerVars, died, main, starts, nodeVars>>

(* shutdown_trigger of main *)
MainStops ==
    /\ died /\ main = "running"
    /\ main' = "stopping"
    /\ UNCHANGED <<handlerVars, slot, chan, workerVars, died, server, starts, nodeVars>>

(* Mutant: the aborted worker leaves the response senders it held behind. *)
AbortKeepsSenders ==
    /\ main = "stopping"
    /\ main' = "exiting"
    /\ worker' = "off" /\ current' = {} /\ answer' = "none"
    /\ chan' = << >>
    /\ UNCHANGED <<handlerVars, slot, nonce, told, died, server, starts, nodeVars>>

(* The server ended, or five seconds have passed: the worker is aborted
   wherever it is. *)
MainAborts ==
    /\ main = "stopping"
    /\ main' = "exiting"
    /\ worker' = "off" /\ current' = {} /\ answer' = "none"
    /\ chan' = << >>
    /\ slot' = [r \in Requests |->
                  IF hs[r] = "waiting" /\ slot[r] = "empty" THEN "closed" ELSE slot[r]]
    /\ UNCHANGED <<handlerVars, nonce, told, died, server, starts, nodeVars>>

(* The process is gone, and with it everything but the chain. *)
Halt ==
    /\ main' = "down" /\ server' = "down" /\ worker' = "off" /\ died' = FALSE
    /\ hs' = [r \in Requests |-> IF hs[r] = "idle" THEN "idle" ELSE "gone"]
    /\ slot' = [r \in Requests |-> "empty"]
    /\ chan' = << >> /\ current' = {} /\ answer' = "none"
    /\ UNCHANGED <<reply, nonce, told, starts, nodeVars>>

MainReturns == main = "exiting" /\ Halt

Crash == main # "down" /\ Halt

(* What the tasks do once something ended or a signal came ... *)
Shutdown == \/ TaskEnded \/ ServerDrains \/ ServerFinishes
            \/ MainStops \/ MainAborts \/ MainReturns

(* ... and what comes from outside. *)
Interrupt == Signal \/ ServerFails \/ Crash

-----------------------------------------------------------------------------
ServiceTypeOK ==
    /\ hs \in [Requests -> HandlerState]
    /\ reply \in [Requests -> Reply]
    /\ slot \in [Requests -> Slot]
    /\ chan \in Seq(Requests)
    /\ worker \in {"running", "ended", "off"}
    /\ current \subseteq Requests
    /\ answer \in NodeAnswer
    /\ nonce \in Nat
    /\ told \in [Requests -> Told]
    /\ died \in BOOLEAN
    /\ server \in {"up", "draining", "finished", "down"}
    /\ main \in {"running", "stopping", "exiting", "down"}
    /\ starts \in 0..MaxStarts

(* Transactions that were admitted at some time, and all there are. *)
EverAdmitted == Range(final) \cup Range(pending) \cup expired
Sent == EverAdmitted \cup inflight

(* Nobody waits for nothing: while a handler waits for its response, its
   request is queued or with a worker that runs, or the response channel is filled
   or closed.  Cancelled requests, a worker that returns in the middle of its
   queue and an aborted worker must all leave the other handlers so. *)
NoOrphanedWaiter ==
    \A r \in Requests :
        hs[r] = "waiting" => \/ slot[r] # "empty"
                             \/ /\ worker = "running"
                                /\ r \in Range(chan) \cup current

Acked == {r \in Requests : told[r] = "ok"}

(* The worker's number and the node's differ only in two ways.  The node is
   ahead: from the worker's number on it holds transactions for which the
   call is under way or was given up by the worker, or which an earlier run
   sent and never learnt of.  The worker is ahead: a transaction it had
   acknowledged expired.  In particular a client that cancels its request, at
   whatever moment, makes no difference, nor does a request that is rejected
   or refused. *)
NonceTracksNode ==
    worker = "running" =>
        /\ \A i \in 1..Len(Admitted) :
              Admitted[i].req \in ThisRun =>
                  (Admitted[i].req \in Acked <=> i < nonce)
        /\ \A i \in nonce..Len(Admitted) :
              LET r == Admitted[i].req
              IN  \/ r \in current \/ told[r] = "no_answer"
                  \/ hs[r] = "gone" /\ told[r] = "nothing"
        /\ nonce > NextNonce => \E m \in expired : m.req \in Acked \cap ThisRun

(* A run of the process leaves at most one transaction on the chain that it
   did not get acknowledged: a lost answer makes the worker reuse its number,
   and that number is taken. *)
AtMostOneUnacknowledged ==
    \A a, b \in Range(Admitted) :
        {a.req, b.req} \subseteq ThisRun \ Acked => a = b

(* What clients are told is true: "ok" means that the node admitted the
   transaction, a refusal (400, 429) that it never will.  The other errors
   leave it open. *)
ReplyTruthful ==
    \A r \in Requests :
        /\ "ok" \in {reply[r], slot[r]} =>
              r \in Acked /\ \E m \in EverAdmitted : m.req = r
        /\ {reply[r], slot[r]} \cap {"bad_request", "too_many_requests"} # {} =>
              \A m \in Sent : m.req # r
=============================================================================
