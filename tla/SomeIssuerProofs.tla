--------------------------- MODULE SomeIssuerProofs ---------------------------
(***************************************************************************)
(* Theorems about the example issuers, for every set of users and          *)
(* requests, every limit, every capacity and every number of restarts.     *)
(***************************************************************************)
EXTENDS SomeIssuer, IssuerServiceProofs, RateLimiterProofs

(* The limiter is consulted before the call to the node and updated after it.
   What was true at the check must be true at the update: while the worker
   awaits the node for r, r's user is below the limit. *)
CheckStillHolds == \A r \in current : CheckLimit(user[r])

-----------------------------------------------------------------------------
(* The limiter's queue and the chain. *)

(* No two transactions that were acknowledged in a run have the same number. *)
CountedApart == \A a, b \in Counted : a.nonce = b.nonce => a = b

(* The queue names the users of the latest acknowledged transactions, by
   number, and while it is not full it names them all. *)
QueueIsLatest ==
    \A m \in Counted :
        /\ nonce - m.nonce \in 1..Len(queue) => queue[nonce - m.nonce] = user[m.req]
        /\ Len(queue) < Window => nonce - m.nonce \in 1..Len(queue)

(* The acknowledged transactions of u among any that the queue could name. *)
InWindow(u, n) == {m \in Counted : user[m.req] = u /\ m.nonce \in n..n + Window - 1}

EveryWindow ==
    \A u \in Users, n \in Nat :
        IsFiniteSet(InWindow(u, n)) /\ Cardinality(InWindow(u, n)) <= Multiplicity

WindowInv == CountedApart /\ QueueIsLatest /\ EveryWindow

SomeInv == /\ LedgerInv
           /\ LimiterInv
           /\ user \in [Requests -> Users]
           /\ CheckStillHolds
           /\ WindowInv

(* A run that has counted nothing exceeds no limit. *)
LEMMA WindowEmpty ==
    ASSUME Counted = {}
    PROVE  WindowInv
<1>1. \A u \in Users, n \in Nat : InWindow(u, n) = {}
  BY DEF InWindow
<1>2. EveryWindow
  BY <1>1, FS_EmptySet, LimiterAssumption DEF EveryWindow
<1> QED
  BY <1>2 DEF WindowInv, CountedApart, QueueIsLatest

(* Nor does it when it goes on without counting, or ends. *)
LEMMA WindowStays ==
    ASSUME WindowInv, UNCHANGED <<nonce, queue, user>>, Counted' \in {Counted, {}}
    PROVE  WindowInv'
<1>1. CASE Counted' = Counted
  <2>1. \A u, n : InWindow(u, n)' = InWindow(u, n)
    BY <1>1 DEF InWindow
  <2> QED
    BY <1>1, <2>1 DEF WindowInv, CountedApart, QueueIsLatest, EveryWindow
<1>2. CASE Counted' = {}
  <2>1. (Counted = {} => WindowInv)'
    BY WindowEmpty, PTL
  <2> QED
    BY <1>2, <2>1
<1> QED
  BY <1>1, <1>2

(* What the queue does not name is too old to be in a window with the
   transaction that comes next. *)
LEMMA WindowIsCounted ==
    ASSUME WindowInv, LimiterInv, nonce \in Nat, NEW u \in Users, NEW n \in Nat,
           nonce \in n..n + Window - 1,
           \A m \in Counted : m.nonce \in Nat /\ m.nonce < nonce
    PROVE  Cardinality(InWindow(u, n)) <= Count(queue, u)
<1> DEFINE place == [m \in InWindow(u, n) |-> nonce - m.nonce]
<1>1. queue \in Seq(Users) /\ Len(queue) \in Nat /\ Len(queue) <= Window /\ Window \in Nat
  BY LimiterAssumption, LenProperties DEF LimiterInv, LimiterTypeOK, LimitRespected, Window
<1>2. ASSUME NEW m \in InWindow(u, n)
      PROVE  nonce - m.nonce \in Occurrences(queue, u)
  <2>1. m \in Counted /\ user[m.req] = u /\ m.nonce \in Nat /\ m.nonce < nonce /\ n <= m.nonce
    BY DEF InWindow
  <2>2. nonce - m.nonce \in 1..Window - 1
    BY <1>1, <2>1
  <2>3. nonce - m.nonce \in 1..Len(queue)
    BY <1>1, <2>1, <2>2 DEF WindowInv, QueueIsLatest
  <2>4. queue[nonce - m.nonce] = u
    BY <2>1, <2>3 DEF WindowInv, QueueIsLatest
  <2> QED
    BY <2>3, <2>4 DEF Occurrences
<1>3. ASSUME NEW a \in InWindow(u, n), NEW b \in InWindow(u, n), nonce - a.nonce = nonce - b.nonce
      PROVE  a = b
  <2>1. a \in Counted /\ b \in Counted /\ a.nonce \in Nat /\ b.nonce \in Nat
    BY DEF InWindow
  <2>2. a.nonce = b.nonce
    BY <1>3, <2>1
  <2> QED
    BY <2>1, <2>2 DEF WindowInv, CountedApart
<1>4. place \in Injection(InWindow(u, n), Occurrences(queue, u))
  BY <1>2, <1>3 DEF Injection, IsInjective
<1> QED
  BY <1>1, <1>4, OccurrencesFinite, FS_Injection DEF Count

(* An acknowledgement for a user below the limit: the queue names one more,
   and no window has more of a user than the queue had. *)
LEMMA WindowAdds ==
    ASSUME WindowInv, LimiterInv, nonce \in Nat, NEW c, c.nonce = nonce, c.req \in Requests,
           user \in [Requests -> Users], user' = user,
           \A m \in Counted : m.nonce \in Nat /\ m.nonce < nonce,
           nonce' = nonce + 1, Counted' = Counted \cup {c},
           CheckLimit(user[c.req]), UpdateLimit(user[c.req])
    PROVE  WindowInv'
<1> DEFINE w == user[c.req]
<1>1. /\ w \in Users /\ queue \in Seq(Users) /\ Len(queue) \in Nat /\ Len(queue) <= Window
      /\ Window \in Nat \ {0} /\ LimiterTypeOK /\ MappingCountsQueue
  BY LimiterAssumption, LenProperties DEF LimiterInv, LimiterTypeOK, LimitRespected, Window
<1>2. /\ queue' \in Seq(Users)
      /\ Len(queue') = IF Len(queue) = Window THEN Len(queue) ELSE Len(queue) + 1
  BY <1>1, UpdateQueue, EvictsWhenFull
<1>3. queue'[1] = w /\ \A j \in 1..Len(queue') : j # 1 => queue'[j] = queue[j - 1]
  <2>1. CASE Evicts
    <3>1. queue # << >> /\ queue' = <<w>> \o Younger(queue)
      BY <2>1 DEF UpdateLimit, Evicts, Younger
    <3>2. /\ Younger(queue) \in Seq(Users) /\ Len(Younger(queue)) = Len(queue) - 1
          /\ \A i \in 1..Len(queue) - 1 : Younger(queue)[i] = queue[i]
      BY <1>1, <3>1, CountYounger DEF Younger
    <3> QED
      BY <1>1, <3>1, <3>2
  <2>2. CASE ~Evicts
    <3>1. queue' = <<w>> \o queue
      BY <2>2 DEF UpdateLimit
    <3> QED
      BY <1>1, <3>1
  <2> QED
    BY <2>1, <2>2
<1>4. c \notin Counted
  BY DEF WindowInv
<1> HIDE DEF w
<1>5. CountedApart'
  BY DEF WindowInv, CountedApart
<1>6. QueueIsLatest'
  <2> SUFFICES ASSUME NEW m \in Counted'
               PROVE  /\ nonce + 1 - m.nonce \in 1..Len(queue')
                            => queue'[nonce + 1 - m.nonce] = user[m.req]
                      /\ Len(queue') < Window => nonce + 1 - m.nonce \in 1..Len(queue')
    BY DEF QueueIsLatest
  <2>1. CASE m = c
    BY <1>1, <1>2, <1>3, <2>1 DEF w
  <2>2. CASE m \in Counted
    <3>1. m.nonce \in Nat /\ m.nonce < nonce
      BY <2>2
    <3>2. ASSUME nonce + 1 - m.nonce \in 1..Len(queue')
          PROVE  queue'[nonce + 1 - m.nonce] = user[m.req]
      <4>1. nonce - m.nonce \in 1..Len(queue) /\ nonce + 1 - m.nonce # 1
        BY <1>1, <1>2, <3>1, <3>2
      <4>2. queue'[nonce + 1 - m.nonce] = queue[nonce - m.nonce]
        <5>1. (nonce + 1 - m.nonce) - 1 = nonce - m.nonce
          BY <3>1
        <5> QED
          BY <1>3, <3>2, <4>1, <5>1
      <4> QED
        BY <2>2, <4>1, <4>2 DEF WindowInv, QueueIsLatest
    <3>3. ASSUME Len(queue') < Window
          PROVE  nonce + 1 - m.nonce \in 1..Len(queue')
      <4>1. Len(queue) < Window /\ Len(queue') = Len(queue) + 1
        BY <1>1, <1>2, <3>3
      <4>2. nonce - m.nonce \in 1..Len(queue)
        BY <2>2, <4>1 DEF WindowInv, QueueIsLatest
      <4> QED
        BY <1>1, <3>1, <4>1, <4>2
    <3> QED
      BY <3>2, <3>3
  <2> QED
    BY <2>1, <2>2
<1>7. EveryWindow'
  <2> SUFFICES ASSUME NEW u \in Users, NEW n \in Nat
               PROVE  IsFiniteSet(InWindow(u, n)') /\ Cardinality(InWindow(u, n)') <= Multiplicity
    BY DEF EveryWindow
  <2>1. IsFiniteSet(InWindow(u, n)) /\ Cardinality(InWindow(u, n)) <= Multiplicity
    BY DEF WindowInv, EveryWindow
  <2>2. CASE u = w /\ nonce \in n..n + Window - 1
    <3>1. InWindow(u, n)' = InWindow(u, n) \cup {c} /\ c \notin InWindow(u, n)
      BY <1>4, <2>2 DEF InWindow, w
    <3>2. Cardinality(InWindow(u, n)) <= Count(queue, u)
      BY <2>2, WindowIsCounted
    <3>3. Count(queue, u) < Multiplicity /\ Count(queue, u) \in Nat
      BY <1>1, <2>2, CheckLimitCounts, OccurrencesFinite DEF w
    <3>4. /\ IsFiniteSet(InWindow(u, n) \cup {c})
          /\ Cardinality(InWindow(u, n) \cup {c}) = Cardinality(InWindow(u, n)) + 1
      BY <2>1, <3>1, FS_AddElement
    <3>5. Cardinality(InWindow(u, n)) \in Nat
      BY <2>1, FS_CardinalityType
    <3> QED
      BY <3>1, <3>2, <3>3, <3>4, <3>5, LimiterAssumption
  <2>3. CASE ~(u = w /\ nonce \in n..n + Window - 1)
    <3>1. InWindow(u, n)' = InWindow(u, n)
      BY <2>3 DEF InWindow, w
    <3> QED
      BY <2>1, <3>1
  <2> QED
    BY <2>2, <2>3
<1> QED
  BY <1>5, <1>6, <1>7 DEF WindowInv

-----------------------------------------------------------------------------
(* A step of the service that leaves limiter and users alone, and after which
   no other call is under way than before. *)
LEMMA OtherPreserves ==
    ASSUME SomeInv, LedgerInv', UNCHANGED otherVars, current' \subseteq current,
           nonce' = nonce, Counted' \in {Counted, {}}
    PROVE  SomeInv'
<1>1. LimiterInv'
  BY DEF SomeInv, LimiterInv, LimiterTypeOK, MappingCountsQueue, LimitRespected,
         otherVars, limiterVars
<1>2. CheckStillHolds'
  BY DEF SomeInv, CheckStillHolds, CheckLimit, otherVars, limiterVars
<1>3. WindowInv'
  BY WindowStays DEF SomeInv, otherVars, limiterVars
<1> QED
  BY <1>1, <1>2, <1>3 DEF SomeInv, otherVars

(* What the worker does with a request that it answers without a call. *)
LEMMA RejectPreserves ==
    ASSUME SomeInv, NEW r \in Requests, RejectInvalid(r) \/ RejectLimited(r)
    PROVE  SomeInv'
<1>1. PICK v \in Response : v # "ok" /\ RespondAtOnce(r, v)
  BY DEF RejectInvalid, RejectLimited, Response, Slot
<1>2. LedgerInv /\ LedgerInv'
  BY <1>1, RespondAtOnceLedger DEF SomeInv
<1>3. nonce' = nonce /\ Counted' \in {Counted, {}}
  BY <1>1, <1>2, OthersCountNothing
<1> QED
  BY <1>1, <1>2, <1>3, OtherPreserves
     DEF RejectInvalid, RejectLimited, RespondAtOnce, workerVars

(* The check is made in the step that begins the call. *)
LEMMA RegisterPreserves ==
    ASSUME SomeInv, NEW r \in Requests, Register(r)
    PROVE  SomeInv'
<1>1. LedgerInv /\ LedgerInv'
  BY SubmitLedger DEF SomeInv, Register
<1>2. LimiterInv'
  BY DEF SomeInv, LimiterInv, LimiterTypeOK, MappingCountsQueue, LimitRespected,
         Register, otherVars, limiterVars
<1>3. CheckStillHolds'
  BY DEF CheckStillHolds, CheckLimit, Register, Submit, otherVars, limiterVars
<1>4. nonce' = nonce /\ Counted' \in {Counted, {}}
  BY <1>1, OthersCountNothing DEF Register
<1>5. WindowInv'
  BY <1>4, WindowStays DEF SomeInv, Register, otherVars, limiterVars
<1> QED
  BY <1>1, <1>2, <1>3, <1>5 DEF SomeInv, Register, otherVars

(* The limiter is updated in the step that ends the call, for a user who was
   below the limit when it began. *)
LEMMA RegisteredPreserves ==
    ASSUME SomeInv, NEW r \in Requests, Registered(r)
    PROVE  SomeInv'
<1>1. current = {r} /\ current' = {}
  BY DEF Registered, Respond, RespondAndEnd
<1>2. PICK v \in Response \ Refusals : Respond(r, v) \/ RespondAndEnd(r, v)
  BY DEF Registered, Response, Slot, Refusals
<1>3. LedgerInv /\ LedgerInv'
  BY <1>2, AcknowledgedLedger DEF SomeInv, Registered
<1>4. user[r] \in Users /\ CheckLimit(user[r]) /\ UpdateLimit(user[r])
  BY <1>1 DEF SomeInv, CheckStillHolds, Registered
<1>5. LimiterInv'
  BY <1>4, IssuePreserves DEF SomeInv
<1>6. CheckStillHolds'
  BY <1>1 DEF CheckStillHolds
<1>7. WindowInv'
  <2>1. /\ nonce' = nonce + 1 /\ nonce \in Nat
        /\ \A m \in Counted : m.nonce \in Nat /\ m.nonce < nonce
    BY <1>2, <1>3, AcknowledgedCounts DEF Registered
  <2>2. PICK c \in EverAdmitted : c.req = r /\ c.nonce = nonce /\ Counted' = Counted \cup {c}
    BY <1>2, <1>3, AcknowledgedCounts DEF Registered
  <2> QED
    BY <1>4, <2>1, <2>2, WindowAdds DEF SomeInv, Registered
<1> QED
  BY <1>3, <1>5, <1>6, <1>7 DEF SomeInv, Registered

(* A call that ends in any other way leaves the limiter alone. *)
LEMMA NotRegisteredPreserves ==
    ASSUME SomeInv, NEW r \in Requests,
           InvalidArgument(r) \/ NodeRejected(r) \/ CallFails(r)
    PROVE  SomeInv'
<1>1. {"internal", "bad_request", "bad_gateway"} \subseteq Response \ {"ok"}
  BY DEF Response, Slot
<1>2. LedgerInv /\ LedgerInv'
  BY <1>1, NotAcknowledgedLedger
     DEF SomeInv, InvalidArgument, NodeRejected, CallFails, Refusals
<1>3. NotAcknowledged(r)
  BY <1>1 DEF NotAcknowledged, InvalidArgument, NodeRejected, CallFails, NodeAnswer
<1>4. nonce' = nonce /\ Counted' \in {Counted, {}}
  BY <1>2, <1>3, OthersCountNothing
<1> QED
  BY <1>2, <1>4, OtherPreserves
     DEF InvalidArgument, NodeRejected, CallFails, Respond, RespondAndEnd

(* A new run has an empty limiter, and no call under way. *)
LEMMA StartIssuerPreserves ==
    ASSUME SomeInv, StartIssuer
    PROVE  SomeInv'
<1>1. LedgerInv'
  BY StartLedger DEF SomeInv, StartIssuer
<1>2. LimiterInit'
  BY DEF StartIssuer, LimiterInit
<1>3. LimiterInv'
  BY <1>2, LimiterInitInv, PTL
<1>4. current' = {}
  BY DEF SomeInv, LedgerInv, ServiceInv, WorkerShape, StartIssuer, Start
<1>5. CheckStillHolds'
  BY <1>4 DEF CheckStillHolds
<1>6. WindowInv'
  <2>1. (Counted = {})'
    BY StartCountsNothing DEF SomeInv, StartIssuer
  <2> QED
    BY <2>1, WindowEmpty, PTL
<1> QED
  BY <1>1, <1>3, <1>5, <1>6 DEF SomeInv, StartIssuer

(* Handlers, shutdown, crashes and the node never begin a call. *)
LEMMA SurroundingsPreserve ==
    ASSUME SomeInv,
           RequestHandler \/ ShutdownStep \/ Environment \/ WorkerStops
    PROVE  SomeInv'
<1>1. CASE RequestHandler
  <2>1. PICK r \in Requests : Handler(r)
    BY <1>1 DEF RequestHandler
  <2>2. LedgerInv /\ LedgerInv'
    BY <2>1, HandlerLedger DEF SomeInv
  <2>3. UNCHANGED current
    BY <2>1 DEF Handler, RejectRequest, Arrive, Enqueue, SendFails, GetResponse, Cancel, Finish,
                workerVars
  <2>4. nonce' = nonce /\ Counted' \in {Counted, {}}
    BY <2>1, <2>2, OthersCountNothing
  <2> QED
    BY <1>1, <2>2, <2>3, <2>4, OtherPreserves DEF RequestHandler
<1>2. CASE ShutdownStep
  <2>1. LedgerInv /\ LedgerInv' /\ Shutdown
    BY <1>2, ProcessLedger DEF SomeInv, ShutdownStep
  <2>2. current' \subseteq current
    BY <1>2 DEF ShutdownStep, Shutdown, TaskEnded, ServerDrains, ServerFinishes,
                MainStops, MainAborts, MainReturns, Halt, workerVars
  <2>3. nonce' = nonce /\ Counted' \in {Counted, {}}
    BY <2>1, OthersCountNothing
  <2> QED
    BY <1>2, <2>1, <2>2, <2>3, OtherPreserves DEF ShutdownStep
<1>3. CASE Environment
  <2>1. LedgerInv /\ LedgerInv' /\ (Node \/ Interrupt)
    BY <1>3, ProcessLedger, NodeLedger DEF SomeInv, Environment
  <2>2. current' \subseteq current
    BY <1>3 DEF Environment, Node, ChainMoves, NodeAdmits, NodeRefuses, Interrupt, Signal,
                ServerFails, Crash, Halt, serviceVars, workerVars
  <2>3. nonce' = nonce /\ Counted' \in {Counted, {}}
    BY <2>1, OthersCountNothing
  <2> QED
    BY <1>3, <2>1, <2>2, <2>3, OtherPreserves DEF Environment
<1>4. CASE WorkerStops
  <2>1. LedgerInv /\ LedgerInv' /\ SendersGone
    BY <1>4, SendersGoneLedger DEF SomeInv, WorkerStops
  <2>2. nonce' = nonce /\ Counted' \in {Counted, {}}
    BY <2>1, OthersCountNothing
  <2> QED
    BY <1>4, <2>1, <2>2, OtherPreserves DEF WorkerStops, SendersGone
<1> QED
  BY <1>1, <1>2, <1>3, <1>4

(* The invariant is inductive. *)
LEMMA SomeInvInductive == Spec => []SomeInv
<1>1. Init => SomeInv
  <2> SUFFICES ASSUME Init
               PROVE  SomeInv
    OBVIOUS
  <2>1. current = {}
    BY DEF Init, ServiceInit
  <2>2. ThisRun = {}
    BY DEF Init, ServiceInit, ThisRun
  <2>3. WindowInv
    BY <2>2, WindowEmpty DEF Counted, Mine
  <2> QED
    BY <2>1, <2>3, LedgerInit, LimiterInitInv DEF Init, SomeInv, CheckStillHolds
<1>2. SomeInv /\ [Next]_someVars => SomeInv'
  <2> SUFFICES ASSUME SomeInv, [Next]_someVars
               PROVE  SomeInv'
    OBVIOUS
  <2>1. CASE TxSender
    BY <2>1, RejectPreserves, RegisterPreserves, RegisteredPreserves,
       NotRegisteredPreserves, SurroundingsPreserve DEF TxSender
  <2>2. CASE StartIssuer
    BY <2>2, StartIssuerPreserves
  <2>3. CASE RequestHandler \/ ShutdownStep \/ Environment
    BY <2>3, SurroundingsPreserve
  <2>4. CASE UNCHANGED someVars
    <3>1. UNCHANGED <<serviceVars, nodeVars>> /\ UNCHANGED otherVars
      BY <2>4 DEF someVars
    <3>2. LedgerInv'
      BY <3>1, StutterLedger DEF SomeInv
    <3>3. UNCHANGED <<current, nonce>>
      BY <3>1 DEF serviceVars
    <3>4. Counted' = Counted
      BY <3>1, NodeStays DEF serviceVars, Counted, Mine, ThisRun, Acked
    <3> QED
      BY <3>1, <3>2, <3>3, <3>4, OtherPreserves
  <2> QED
    BY <2>1, <2>2, <2>3, <2>4 DEF Next
<1> QED
  BY <1>1, <1>2, PTL DEF Spec

(* Types, for every instance of the example issuers. *)
THEOREM SomeIssuerTypes == Spec => []TypeOK
<1>1. SomeInv => TypeOK
  BY DEF SomeInv, LedgerInv, ServiceInv, LimiterInv, TypeOK
<1> QED
  BY <1>1, SomeInvInductive, PTL

(* No handler ever waits for a response that nobody is going to send:
   whatever requests are cancelled, wherever the worker returns or is
   aborted, and however often the process restarts. *)
THEOREM SomeIssuerLeavesNoOrphan == Spec => []NoOrphanedWaiter
<1>1. SomeInv => NoOrphanedWaiter
  BY DEF SomeInv, LedgerInv, ServiceInv
<1> QED
  BY <1>1, SomeInvInductive, PTL

(* The limit holds in the running service, where the check and the update of
   the limiter are apart by a call to the node. *)
THEOREM SomeIssuerRespectsLimit == Spec => [](LimitRespected /\ MappingCountsQueue)
<1>1. SomeInv => LimitRespected /\ MappingCountsQueue
  BY DEF SomeInv, LimiterInv
<1> QED
  BY <1>1, SomeInvInductive, PTL

(* The worker's sequence number and the node's differ only by lost answers,
   by what earlier runs left on its way, and by expired transactions. *)
THEOREM SomeIssuerTracksNode == Spec => []NonceTracksNode
<1>1. SomeInv => NonceTracksNode
  BY LedgerTracksNode DEF SomeInv
<1> QED
  BY <1>1, SomeInvInductive, PTL

(* A run leaves at most one transaction on the chain without having got it
   acknowledged. *)
THEOREM SomeIssuerLeavesOne == Spec => []AtMostOneUnacknowledged
<1>1. SomeInv => AtMostOneUnacknowledged
  BY LedgerLeavesOne DEF SomeInv
<1> QED
  BY <1>1, SomeInvInductive, PTL

(* "ok" means that the transaction was admitted, a refusal that it never will
   be. *)
THEOREM SomeIssuerTellsTruth == Spec => []ReplyTruthful
<1>1. SomeInv => ReplyTruthful
  BY LedgerTellsTruth DEF SomeInv
<1> QED
  BY <1>1, SomeInvInductive, PTL

(* The limit as the chain shows it: the limiter's queue, which knows only
   what was acknowledged, bounds what any stretch of the account has of a
   user, with one more for the transaction that was not acknowledged. *)
THEOREM SomeIssuerLimitsChain == Spec => []RateLimitOnChain
<1>1. ASSUME SomeInv
      PROVE  RateLimitOnChain
  <2> SUFFICES ASSUME NEW u \in Users, NEW n \in 1..Len(Admitted)
               PROVE  /\ Cardinality({m \in OnChain(u, n) : m.req \in Acked}) <= Multiplicity
                      /\ Cardinality(OnChain(u, n)) <= Multiplicity + 1
    BY DEF RateLimitOnChain
  <2> DEFINE known == {m \in OnChain(u, n) : m.req \in Acked}
             lost  == {m \in OnChain(u, n) : m.req \notin Acked}
  <2>1. LedgerInv /\ ServiceInv /\ n \in Nat /\ Range(Admitted) = Held
    BY <1>1, AdmittedInOrder DEF SomeInv, LedgerInv
  <2>2. known \subseteq InWindow(u, n)
    BY <2>1, LedgerTypes DEF OnChain, InWindow, Counted, Mine
  <2>3. IsFiniteSet(InWindow(u, n)) /\ Cardinality(InWindow(u, n)) <= Multiplicity
    BY <1>1, <2>1 DEF SomeInv, WindowInv, EveryWindow
  <2>4. IsFiniteSet(known) /\ Cardinality(known) <= Cardinality(InWindow(u, n))
    BY <2>2, <2>3, FS_Subset
  <2>5. Cardinality(known) \in Nat /\ Cardinality(InWindow(u, n)) \in Nat
    BY <2>3, <2>4, FS_CardinalityType
  <2>6. Cardinality(known) <= Multiplicity
    BY <2>3, <2>4, <2>5, LimiterAssumption
  <2>7. \A a, b \in lost : a = b
    BY <2>1, LedgerLeavesOne DEF OnChain, AtMostOneUnacknowledged
  <2>8. OnChain(u, n) = known \cup lost
    OBVIOUS
  <2> SUFFICES Cardinality(OnChain(u, n)) <= Multiplicity + 1
    BY <2>6
  <2> HIDE DEF known, lost
  <2>9. CASE lost = {}
    <3>1. OnChain(u, n) = known
      BY <2>8, <2>9
    <3> QED
      BY <2>5, <2>6, <3>1, LimiterAssumption
  <2>10. CASE lost # {}
    <3>1. PICK x : lost = {x}
      BY <2>7, <2>10
    <3>2. OnChain(u, n) = known \cup {x}
      BY <2>8, <3>1
    <3>3. Cardinality(known \cup {x}) \in {Cardinality(known), Cardinality(known) + 1}
      <4>1. Cardinality(known \cup {x})
              = IF x \in known THEN Cardinality(known) ELSE Cardinality(known) + 1
        BY <2>4, FS_AddElement
      <4> QED
        BY <4>1
    <3> QED
      BY <2>5, <2>6, <3>2, <3>3, LimiterAssumption
  <2> QED
    BY <2>9, <2>10
<1> QED
  BY <1>1, SomeInvInductive, PTL
=============================================================================
