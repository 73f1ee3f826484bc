---------------------------- MODULE DappsProofs -----------------------------
(***************************************************************************)
(* Proofs about the pages for holders of credentials (CredentialPages,     *)
(* VerifierPage) and about the proof explorer with the verifier that it    *)
(* asks (ProofExplorer, PresentationVerifier): the invariants that MCDapps *)
(* checks, for any number of credentials, blocks, users, requests, anchors *)
(* and proofs.                                                             *)
(***************************************************************************)
EXTENDS MCDapps, SequenceTheorems, TLAPS

-----------------------------------------------------------------------------
(* The verifier. *)

(* What was seen is in the block that is read, and that is no older than the
   request. *)
JobOK(j) ==
    /\ j = [id |-> j.id, creds |-> j.creds, proof |-> j.proof, at |-> j.at, seen |-> j.seen,
            from |-> j.from]
    /\ j.proof \in Proofs
    /\ j.at \in 0..Len(blocks) /\ j.from \in 1..Len(blocks)
    /\ DOMAIN j.seen \subseteq j.creds
    /\ \A c \in DOMAIN j.seen : j.seen[c] = blocks[j.at][c]
    /\ j.at = 0 => DOMAIN j.seen = {}
    /\ j.at # 0 => j.from <= j.at /\ j.proof # "unreadable"

(* The job handles the proof that was made in the call with its number. *)
JobOfCall(j) ==
    /\ j.id \in DOMAIN proved
    /\ proved[j.id].creds = j.creds /\ proved[j.id].proof = j.proof
    /\ proved[j.id].from = j.from

WasActive(i) ==
    /\ i \in DOMAIN proved /\ proved[i].proof = "valid"
    /\ proved[i].from \in 1..Len(blocks)
    /\ ActiveTogether(proved[i].creds, proved[i].from)

JobsInv ==
    /\ blocks \in Seq([Creds -> Status]) /\ blocks # << >>
    /\ \A j \in jobs : JobOK(j) /\ JobOfCall(j)
    /\ \A j, k \in jobs : j.id = k.id => j = k
    /\ \A j \in jobs, r \in replies : j.id # r.id
    /\ \A q, r \in replies : q.id = r.id => q = r
    /\ \A r \in replies : r.ok => WasActive(r.id)

(* The calls that the verifier handles or has answered. *)
Handled == {j.id : j \in jobs} \cup {r.id : r \in replies}

(* A job whose request is answered. *)
LEMMA ReplyKeeps ==
    ASSUME JobsInv, UNCHANGED proved,
           NEW j \in jobs, NEW ok, NEW json, Reply(j, ok, json),
           ok = TRUE => WasActive(j.id)
    PROVE  JobsInv' /\ Handled' \subseteq Handled
<1> DEFINE new == [id |-> j.id, ok |-> ok, json |-> json]
<1>1. /\ blocks' = blocks /\ jobs' = jobs \ {j} /\ replies' = replies \cup {new}
      /\ new.id = j.id /\ new.ok = ok
  BY DEF Reply
<1> HIDE DEF new
<1>2. \A k \in jobs' : k \in jobs /\ k.id # j.id /\ JobOK(k)' /\ JobOfCall(k)'
  BY <1>1 DEF JobsInv, JobOK, JobOfCall
<1>3. \A r \in replies' : r \in replies \/ r = new
  BY <1>1
<1>4. \A i : WasActive(i) => WasActive(i)'
  BY <1>1 DEF WasActive, ActiveTogether
<1>5. new.ok => WasActive(new.id)
  BY <1>1
<1>6. JobsInv'
  BY <1>1, <1>2, <1>3, <1>4, <1>5 DEF JobsInv
<1>7. Handled' \subseteq Handled
  BY <1>1, <1>2, <1>3 DEF Handled
<1> QED
  BY <1>6, <1>7

(* A job that goes on. *)
LEMMA GoesOnKeeps ==
    ASSUME JobsInv, UNCHANGED proved,
           NEW j \in jobs, NEW k, JobOK(k),
           k.id = j.id, k.creds = j.creds, k.proof = j.proof, k.from = j.from,
           jobs' = (jobs \ {j}) \cup {k}, UNCHANGED <<impl, blocks, replies>>
    PROVE  JobsInv' /\ Handled' \subseteq Handled
<1>1. \A i \in jobs' : (i \in jobs /\ i.id # j.id) \/ i = k
  BY DEF JobsInv
<1>2. JobOfCall(k) /\ \A r \in replies : k.id # r.id
  BY DEF JobsInv, JobOfCall
<1>3. \A i \in jobs' : JobOK(i)' /\ JobOfCall(i)'
  BY <1>1, <1>2 DEF JobsInv, JobOK, JobOfCall
<1>4. \A i : WasActive(i) => WasActive(i)'
  BY DEF WasActive, ActiveTogether
<1>5. JobsInv'
  BY <1>1, <1>2, <1>3, <1>4 DEF JobsInv
<1>6. Handled' \subseteq Handled
  BY <1>1 DEF Handled
<1> QED
  BY <1>5, <1>6

(* A new block changes none of those before it. *)
LEMMA NewBlockKeeps ==
    ASSUME JobsInv, UNCHANGED proved, NewBlock
    PROVE  JobsInv' /\ Handled' \subseteq Handled /\ \A i : WasActive(i) => WasActive(i)'
<1>1. PICK b : /\ blocks' = Append(blocks, b) /\ b \in [Creds -> Status]
               /\ UNCHANGED <<impl, jobs, replies>>
  <2>1. PICK cs \in SUBSET Creds :
           blocks' = Append(blocks, [c \in Creds |->
             LET was == blocks[Len(blocks)][c] IN
             IF c \notin cs THEN was ELSE IF was = "active" THEN "inactive" ELSE "active"])
    BY DEF NewBlock
  <2>2. blocks[Len(blocks)] \in [Creds -> Status]
    BY DEF JobsInv
  <2>3. [c \in Creds |->
             LET was == blocks[Len(blocks)][c] IN
             IF c \notin cs THEN was ELSE IF was = "active" THEN "inactive" ELSE "active"]
        \in [Creds -> Status]
    BY <2>2 DEF Status
  <2> QED
    BY <2>1, <2>3 DEF NewBlock
<1>2. /\ blocks' \in Seq([Creds -> Status]) /\ Len(blocks') = Len(blocks) + 1
      /\ \A n \in 1..Len(blocks) : blocks'[n] = blocks[n]
      /\ Len(blocks) \in Nat
  BY <1>1 DEF JobsInv
<1>3. \A i : WasActive(i) => WasActive(i)'
  <2> SUFFICES ASSUME NEW i, WasActive(i), JobsInv
               PROVE  WasActive(i)'
    OBVIOUS
  <2>1. PICK n \in proved[i].from..Len(blocks) : \A c \in proved[i].creds : blocks[n][c] = "active"
    BY DEF WasActive, ActiveTogether
  <2> QED
    BY <1>2, <2>1 DEF WasActive, ActiveTogether
<1>4. \A j \in jobs' : JobOK(j)' /\ JobOfCall(j)'
  <2> SUFFICES ASSUME NEW j \in jobs
               PROVE  JobOK(j)' /\ JobOfCall(j)'
    BY <1>1
  <2>1. JobOK(j) /\ JobOfCall(j)
    BY DEF JobsInv
  <2>2. \A c \in DOMAIN j.seen : j.at \in 1..Len(blocks)
    BY <1>2, <2>1 DEF JobOK
  <2> QED
    BY <1>2, <2>1, <2>2 DEF JobOK, JobOfCall
<1>5. JobsInv'
  BY <1>1, <1>2, <1>3, <1>4 DEF JobsInv
<1> QED
  BY <1>1, <1>3, <1>5 DEF Handled

LEMMA VerifierKeeps ==
    ASSUME JobsInv, UNCHANGED proved, VerifierNext
    PROVE  JobsInv' /\ Handled' \subseteq Handled /\ \A i : WasActive(i) => WasActive(i)'
<1>1. CASE NewBlock
  BY <1>1, NewBlockKeeps
<1>2. CASE ~NewBlock
  <2>1. PICK j \in jobs : \/ Malformed(j) \/ GetBlockInfo(j)
                          \/ \E c \in j.creds : LookUp(j, c)
                          \/ NodeFails(j) \/ TimesOut(j) \/ Decide(j)
    BY <1>2 DEF VerifierNext
  <2>2. JobOK(j) /\ JobOfCall(j) /\ Len(blocks) \in Nat /\ Len(blocks) > 0
    BY DEF JobsInv
  <2>3. blocks' = blocks
    BY <2>1 DEF Malformed, GetBlockInfo, LookUp, NodeFails, TimesOut, Decide, Refuse, Reply
  <2>4. \A i : WasActive(i) => WasActive(i)'
    BY <2>3 DEF WasActive, ActiveTogether
  <2>5. CASE \E why : Refuse(j, why)
    BY <2>4, <2>5, ReplyKeeps DEF Refuse
  <2>6. CASE GetBlockInfo(j)
    <3> DEFINE k == [j EXCEPT !.at = Len(blocks)]
    <3>1. /\ k = [id |-> j.id, creds |-> j.creds, proof |-> j.proof, at |-> Len(blocks),
                  seen |-> j.seen, from |-> j.from]
          /\ jobs' = (jobs \ {j}) \cup {k} /\ UNCHANGED <<impl, blocks, replies>>
          /\ j.at = 0 /\ j.proof # "unreadable"
      BY <2>2, <2>6 DEF GetBlockInfo, JobOK
    <3> HIDE DEF k
    <3>2. JobOK(k)
      BY <2>2, <3>1 DEF JobOK
    <3> QED
      BY <2>4, <3>1, <3>2, GoesOnKeeps
  <2>7. ASSUME NEW c \in j.creds, LookUp(j, c), ~\E why : Refuse(j, why)
        PROVE  JobsInv' /\ Handled' \subseteq Handled
    <3> DEFINE seen == With(j.seen, c, StatusIn(j, c))
               k == [j EXCEPT !.seen = seen]
    <3>1. /\ k = [id |-> j.id, creds |-> j.creds, proof |-> j.proof, at |-> j.at,
                  seen |-> seen, from |-> j.from]
          /\ jobs' = (jobs \ {j}) \cup {k} /\ UNCHANGED <<impl, blocks, replies>>
          /\ j.at # 0
      BY <2>2, <2>7 DEF LookUp, JobOK
    <3>2. /\ DOMAIN seen = DOMAIN j.seen \cup {c} /\ seen[c] = blocks[j.at][c]
          /\ \A d \in DOMAIN j.seen : d # c => seen[d] = j.seen[d]
      BY DEF With, StatusIn
    <3> HIDE DEF k, seen
    <3>3. JobOK(k)
      BY <2>2, <3>1, <3>2 DEF JobOK
    <3> QED
      BY <3>1, <3>3, GoesOnKeeps
  <2>8. CASE Decide(j) /\ ~\E why : Refuse(j, why)
    <3>1. /\ j.at # 0 /\ j.creds \subseteq DOMAIN j.seen
          /\ \A c \in j.creds : j.seen[c] = "active"
          /\ j.proof # "invalid" /\ Reply(j, TRUE, TRUE)
      <4>1. /\ j.at > 0 /\ Unread(j) = {} /\ ~\E c \in j.creds : j.seen[c] # "active"
            /\ j.proof # "invalid" /\ Reply(j, TRUE, TRUE)
        BY <2>8, Zenon DEF Decide
      <4>2. j.creds \subseteq DOMAIN j.seen
        BY <4>1 DEF Unread
      <4>3. j.at # 0
        BY <2>2, <4>1 DEF JobOK
      <4> QED
        BY <4>1, <4>2, <4>3
    <3>2. j.proof = "valid"
      BY <2>2, <3>1 DEF JobOK, Proofs
    <3>3. /\ j.from \in 1..Len(blocks) /\ j.at \in j.from..Len(blocks)
          /\ \A c \in j.creds : blocks[j.at][c] = "active"
      BY <2>2, <3>1 DEF JobOK
    <3>4. WasActive(j.id)
      BY <2>2, <3>2, <3>3 DEF WasActive, ActiveTogether, JobOfCall
    <3> QED
      BY <2>4, <3>1, <3>4, ReplyKeeps
  <2> QED
    BY <2>1, <2>4, <2>5, <2>6, <2>7, <2>8 DEF Malformed, NodeFails, TimesOut
<1> QED
  BY <1>1, <1>2

-----------------------------------------------------------------------------
(* The explorer. *)

WalletInv ==
    /\ provider \in {None, "browser", "mobile"} /\ topic \in Chains \cup {None}
    /\ account \in [{"browser", "mobile"} -> BOOLEAN]
    /\ topic # None => account["mobile"]
    /\ chainID \in Chains /\ connecting \subseteq {"browser"} \cup Chains

OfferInv ==
    /\ idps \subseteq Idps
    /\ ticked \in [{"account", "id"} -> SUBSET idps]
    /\ issuers \subseteq Registries /\ fetching \subseteq Registries /\ tags \subseteq Registries

Statement == {s \in [type : Columns, allowed : SUBSET (Registries \cup Idps),
                     atoms : SUBSET Columns] : s.atoms # {}}

ComposeInv == statement \in Seq(Statement) /\ currentType \in Columns \cup {None}

(* What an anchor transaction holds never changes once it is sent. *)
AnchorsInv ==
    /\ submits \in Nat
    /\ \A a \in anchorCalls : a.id \in 1..submits /\ a.id \notin DOMAIN registered
    /\ \A a, b \in anchorCalls : a.id = b.id => a = b
    /\ DOMAIN registered \subseteq 1..submits
    /\ anchor \in DOMAIN registered \cup {0}
    /\ final \subseteq DOMAIN registered

CallShape(c) ==
    c = [id |-> c.id, flow |-> c.flow, of |-> c.of, anchor |-> c.anchor, at |-> c.at]

(* A call is one proof, and the verifier handles only calls that wait for it. *)
CallsInv ==
    /\ proves \in Nat
    /\ \A c \in calls :
          /\ CallShape(c)
          /\ c.id \in 1..proves /\ c.flow \in Flows
          /\ c.at = "verifier" => c.id \in DOMAIN proved
          /\ c.at = "verifier" /\ c.flow = "v1" =>
                proved[c.id].of = c.of /\ proved[c.id].anchor = c.anchor
    /\ \A c, d \in calls : c.id = d.id => c = d
    /\ \A i \in Handled : \E c \in calls : c.id = i /\ c.flow = "v0" /\ c.at = "verifier"

WasAnchored(i) ==
    /\ i \in DOMAIN proved /\ proved[i].proof = "valid"
    /\ proved[i].of = registered[proved[i].anchor] /\ proved[i].anchor \in final

Texts == {"OK", "not OK", "no proof"}

(* Nothing is said of a call before it has ended. *)
SaidInv ==
    /\ lines \in [Flows -> SUBSET [id : Nat, text : Texts]]
    /\ current \in [Flows -> Nat]
    /\ \A f \in Flows : \A i \in CalledOk(f) : i \in 1..proves /\ \A c \in calls : c.id # i
    /\ \A i \in CalledOk("v0") : WasActive(i)
    /\ \A i \in CalledOk("v1") : WasAnchored(i)

ExplorerInv == WalletInv /\ OfferInv /\ ComposeInv /\ AnchorsInv /\ JobsInv /\ CallsInv /\ SaidInv

LEMMA ExplorerInitInv ==
    ASSUME ExplorerInit \/ \E p \in {"browser", "mobile"}, col \in Columns :
                              VerifierInit /\ Ready(p, col)
    PROVE  ExplorerInv
<1>1. /\ \E s \in [Creds -> Status] : blocks = <<s>>
      /\ jobs = {} /\ replies = {}
      /\ anchor = 0 /\ anchorCalls = {} /\ registered = << >> /\ final = {}
      /\ calls = {} /\ lines = [f \in Flows |-> {}] /\ current = [f \in Flows |-> 0]
      /\ proved = << >> /\ proves = 0 /\ submits = 0
  BY DEF ExplorerInit, VerifierInit, Ready
<1>2. JobsInv
  BY <1>1 DEF JobsInv
<1>3. CallsInv
  BY <1>1 DEF CallsInv, Handled
<1>4. AnchorsInv
  BY <1>1 DEF AnchorsInv
<1>5. SaidInv
  <2>1. \A f \in Flows : CalledOk(f) = {}
    BY <1>1 DEF CalledOk, Oks
  <2>2. "v0" \in Flows /\ "v1" \in Flows
    BY DEF Flows
  <2> QED
    BY <1>1, <2>1, <2>2 DEF SaidInv
<1>6. WalletInv
  <2>1. CASE ExplorerInit
    BY <2>1 DEF ExplorerInit, WalletInv, Chains
  <2>2. ASSUME NEW p \in {"browser", "mobile"}, NEW col \in Columns, Ready(p, col)
        PROVE  WalletInv
    BY <2>2 DEF Ready, WalletInv, Chains
  <2> QED
    BY <2>1, <2>2
<1>7. OfferInv
  <2>1. CASE ExplorerInit
    BY <2>1 DEF ExplorerInit, OfferInv
  <2>2. ASSUME NEW p \in {"browser", "mobile"}, NEW col \in Columns, Ready(p, col)
        PROVE  OfferInv
    BY <2>2 DEF Ready, OfferInv
  <2> QED
    BY <2>1, <2>2
<1>8. ComposeInv
  <2>1. CASE ExplorerInit
    BY <2>1 DEF ExplorerInit, ComposeInv
  <2>2. ASSUME NEW p \in {"browser", "mobile"}, NEW col \in Columns, Ready(p, col)
        PROVE  ComposeInv
    <3>1. [type |-> col, allowed |-> {}, atoms |-> {col}] \in Statement
      BY DEF Statement
    <3> QED
      BY <2>2, <3>1 DEF Ready, ComposeInv
  <2> QED
    BY <2>1, <2>2
<1> QED
  BY <1>2, <1>3, <1>4, <1>5, <1>6, <1>7, <1>8 DEF ExplorerInv

(* Most of what the page does concerns neither anchors nor proofs. *)
LEMMA ProofsStay ==
    ASSUME AnchorsInv, JobsInv, CallsInv, SaidInv, UNCHANGED <<verifierVars, anchorVars, proofVars>>
    PROVE  AnchorsInv' /\ JobsInv' /\ CallsInv' /\ SaidInv'
<1>1. /\ UNCHANGED <<blocks, jobs, replies, calls, lines, current, proved, proves>>
      /\ UNCHANGED <<anchor, anchorCalls, registered, final, submits>>
  BY DEF verifierVars, anchorVars, proofVars
<1>2. AnchorsInv'
  BY <1>1 DEF AnchorsInv
<1>3. \A i : WasActive(i)' = WasActive(i) /\ WasAnchored(i)' = WasAnchored(i)
  BY <1>1 DEF WasActive, WasAnchored, ActiveTogether
<1>4. JobsInv'
  BY <1>1, <1>3 DEF JobsInv, JobOK, JobOfCall
<1>5. CallsInv'
  BY <1>1 DEF CallsInv, Handled
<1>6. SaidInv'
  BY <1>1, <1>3 DEF SaidInv, CalledOk, Oks
<1> QED
  BY <1>2, <1>4, <1>5, <1>6

LEMMA WalletKeeps ==
    ASSUME WalletInv, WalletStep
    PROVE  WalletInv' /\ UNCHANGED <<offerVars, composeVars, anchorVars, proofVars>>
<1>1. UNCHANGED <<offerVars, composeVars, anchorVars, proofVars>>
  BY DEF WalletStep, ConnectPressed, ConnectFails, BrowserConnected, SessionApproved,
         Disconnected, SessionDeleted, BrowserAccount
<1>2. CASE \E b \in {"browser"} \cup Chains : ConnectPressed(b) \/ ConnectFails(b)
  BY <1>2 DEF ConnectPressed, ConnectFails, WalletInv
<1>3. CASE BrowserConnected
  <2>1. PICK has \in BOOLEAN : account' = [account EXCEPT !["browser"] = has]
    BY <1>3 DEF BrowserConnected
  <2>2. account' \in [{"browser", "mobile"} -> BOOLEAN] /\ account'["mobile"] = account["mobile"]
    BY <2>1 DEF WalletInv
  <2> QED
    BY <1>3, <2>2 DEF BrowserConnected, SetProvider, WalletInv
<1>4. CASE \E b \in Chains : SessionApproved(b)
  <2>1. account' = [account EXCEPT !["mobile"] = TRUE]
    BY <1>4 DEF SessionApproved
  <2>2. account' \in [{"browser", "mobile"} -> BOOLEAN] /\ account'["mobile"] = TRUE
    BY <2>1 DEF WalletInv
  <2> QED
    BY <1>4, <2>2 DEF SessionApproved, SetProvider, WalletInv
<1>5. CASE Disconnected \/ SessionDeleted
  BY <1>5 DEF Disconnected, SessionDeleted, WalletInv
<1>6. CASE BrowserAccount
  <2>1. account' = [account EXCEPT !["browser"] = ~account["browser"]]
    BY <1>6 DEF BrowserAccount
  <2>2. account' \in [{"browser", "mobile"} -> BOOLEAN] /\ account'["mobile"] = account["mobile"]
    BY <2>1 DEF WalletInv
  <2> QED
    BY <1>6, <2>2 DEF BrowserAccount, WalletInv
<1> QED
  BY <1>1, <1>2, <1>3, <1>4, <1>5, <1>6 DEF WalletStep

LEMMA OfferKeeps ==
    ASSUME OfferInv, OfferStep
    PROVE  OfferInv' /\ UNCHANGED <<walletVars, composeVars, anchorVars, proofVars>>
<1>1. UNCHANGED <<walletVars, composeVars, anchorVars, proofVars>>
  BY DEF OfferStep, IdpsListed, TypeIssuers, SchemaFetched, TickIdp
<1>2. CASE IdpsListed
  BY <1>2 DEF IdpsListed, OfferInv
<1>3. CASE TypeIssuers \/ \E r \in Registries : SchemaFetched(r)
  BY <1>3 DEF TypeIssuers, SchemaFetched, OfferInv
<1>4. ASSUME NEW col \in {"account", "id"}, NEW p \in Idps, TickIdp(col, p)
      PROVE  OfferInv'
  <2>1. p \in idps /\ UNCHANGED <<idps, issuers, tags, fetching>>
        /\ ticked' = [ticked EXCEPT ![col] = IF p \in ticked[col] THEN ticked[col] \ {p}
                                                                  ELSE ticked[col] \cup {p}]
    BY <1>4 DEF TickIdp
  <2>2. ticked' \in [{"account", "id"} -> SUBSET idps]
    BY <2>1 DEF OfferInv
  <2> QED
    BY <2>1, <2>2 DEF OfferInv
<1> QED
  BY <1>1, <1>2, <1>3, <1>4 DEF OfferStep

(* Statements are added at the end, or the last one is cleared. *)
LEMMA ComposeKeeps ==
    ASSUME OfferInv, ComposeInv, ComposeStep
    PROVE  ComposeInv' /\ UNCHANGED <<walletVars, offerVars, anchorVars, proofVars>>
<1>1. ASSUME NEW col \in Columns, Add(col)
      PROVE  ComposeInv'
  <2>1. currentType' \in Columns
    BY <1>1 DEF Add
  <2>2. CASE StartsNew(col)
    <3>1. Allowed(col) \subseteq Registries \cup Idps
      BY DEF Allowed, OfferInv, Columns
    <3>2. [type |-> col, allowed |-> Allowed(col), atoms |-> {col}] \in Statement
      BY <3>1 DEF Statement
    <3> QED
      BY <1>1, <2>1, <2>2, <3>2 DEF Add, ComposeInv
  <2>3. CASE ~StartsNew(col)
    <3> DEFINE n == Len(statement)
    <3>1. /\ statement # << >> /\ n \in 1..Len(statement) /\ statement[n] \in Statement
          /\ statement \in Seq(Statement)
      BY <2>3 DEF StartsNew, ComposeInv
    <3>2. statement' = [statement EXCEPT ![n] = [statement[n] EXCEPT !.atoms = @ \cup {col}]]
      BY <1>1, <2>3 DEF Add
    <3>3. [statement[n] EXCEPT !.atoms = @ \cup {col}] \in Statement
      BY <3>1 DEF Statement
    <3> HIDE DEF n
    <3>4. statement' \in Seq(Statement)
      BY <3>1, <3>2, <3>3
    <3> QED
      BY <2>1, <3>4 DEF ComposeInv
  <2> QED
    BY <2>2, <2>3
<1>2. CASE handleAddTopLevel \/ SelectSource
  BY <1>2 DEF handleAddTopLevel, SelectSource, composeVars, ComposeInv
<1>3. CASE ClearLast
  <2>1. statement # << >> => Front(statement) \in Seq(Statement)
    BY DEF ComposeInv, Front
  <2> QED
    BY <1>3, <2>1 DEF ClearLast, ComposeInv
<1>4. UNCHANGED <<walletVars, offerVars, anchorVars, proofVars>>
  BY DEF ComposeStep, RevealAttribute, AttributeInRange, AttributeInSet, AgeOrDocument, Add,
         handleAddTopLevel, ClearLast, SelectSource
<1> QED
  BY <1>1, <1>2, <1>3, <1>4 DEF ComposeStep, RevealAttribute, AttributeInRange, AttributeInSet,
                                AgeOrDocument

(* An anchor is sent under a number that no other will have, and final ones
   are never sent again: what was anchored remains so. *)
LEMMA AnchorsKeep ==
    ASSUME AnchorsInv, AnchorStep
    PROVE  /\ AnchorsInv' /\ UNCHANGED <<walletVars, offerVars, composeVars, proofVars>>
           /\ final \subseteq final'
           /\ \A h \in final : registered'[h] = registered[h]
<1>1. UNCHANGED <<walletVars, offerVars, composeVars, proofVars>>
  BY DEF AnchorStep, SubmitAnchor, AnchorSent, AnchorRefused, AnchorFinalized
<1>2. CASE SubmitAnchor
  <2>1. /\ submits' = submits + 1 /\ UNCHANGED <<registered, final>>
        /\ anchor' \in {anchor, 0}
        /\ \A a \in anchorCalls' : a \in anchorCalls \/ a.id = submits + 1
        /\ \A a, b \in anchorCalls' : a \notin anchorCalls /\ b \notin anchorCalls => a = b
    BY <1>2 DEF SubmitAnchor
  <2> QED
    BY <1>1, <2>1 DEF AnchorsInv
<1>3. ASSUME NEW a \in anchorCalls, AnchorSent(a)
      PROVE  AnchorsInv' /\ final \subseteq final' /\ \A h \in final : registered'[h] = registered[h]
  <2>1. /\ anchorCalls' = anchorCalls \ {a} /\ anchor' = a.id /\ UNCHANGED <<submits, final>>
        /\ DOMAIN registered' = DOMAIN registered \cup {a.id}
        /\ \A h \in DOMAIN registered : h # a.id => registered'[h] = registered[h]
    BY <1>3 DEF AnchorSent, With
  <2> QED
    BY <2>1 DEF AnchorsInv
<1>4. ASSUME NEW a \in anchorCalls, AnchorRefused(a)
      PROVE  AnchorsInv' /\ UNCHANGED <<registered, final>>
  BY <1>4 DEF AnchorRefused, AnchorsInv
<1>5. ASSUME NEW h \in Anchors, AnchorFinalized(h)
      PROVE  AnchorsInv' /\ registered' = registered /\ final \subseteq final'
  BY <1>5 DEF AnchorFinalized, AnchorsInv
<1> QED
  BY <1>1, <1>2, <1>3, <1>4, <1>5 DEF AnchorStep, SubmitAnchor

(* Good(f, i): what it means that proof i of flow f is called OK. *)
Good(f, i) == (f = "v0" => WasActive(i)) /\ (f = "v1" => WasAnchored(i))

(* The sayings remain true as calls end and others begin, as long as what was
   proved, and the blocks and anchors that bear it out, do not change. *)
LEMMA SaidStays ==
    ASSUME SaidInv, CallsInv,
           lines' \in [Flows -> SUBSET [id : Nat, text : Texts]], current' \in [Flows -> Nat],
           proves' \in Nat, proves <= proves',
           \A c \in calls' : (\E d \in calls : d.id = c.id) \/ c.id = proves + 1,
           \A f \in Flows : \A i \in CalledOk(f) : Good(f, i)',
           \A f \in Flows : \A i \in CalledOk(f)' :
              i \in CalledOk(f) \/ (i \in 1..proves' /\ Good(f, i)' /\ \A c \in calls' : c.id # i)
    PROVE  SaidInv'
<1>1. "v0" \in Flows /\ "v1" \in Flows /\ proves \in Nat
  BY DEF Flows, CallsInv
<1>2. ASSUME NEW f \in Flows, NEW i \in CalledOk(f)
      PROVE  i \in 1..proves' /\ Good(f, i)' /\ \A c \in calls' : c.id # i
  <2>1. i \in 1..proves /\ \A c \in calls : c.id # i
    BY DEF SaidInv
  <2> QED
    BY <1>1, <2>1
<1>3. \A f \in Flows : \A i \in CalledOk(f)' :
         i \in 1..proves' /\ Good(f, i)' /\ \A c \in calls' : c.id # i
  BY <1>2
<1>4. \A i \in CalledOk("v0")' : WasActive(i)'
  BY <1>1, <1>3 DEF Good
<1>5. \A i \in CalledOk("v1")' : WasAnchored(i)'
  BY <1>1, <1>3 DEF Good
<1> QED
  BY <1>3, <1>4, <1>5 DEF SaidInv

(* Only "OK" calls a proof OK. *)
LEMMA SayAdds ==
    ASSUME SaidInv, NEW c, c.flow \in Flows, c.id \in Nat, NEW text \in Texts, Say(c, text)
    PROVE  /\ lines' \in [Flows -> SUBSET [id : Nat, text : Texts]]
           /\ \A f \in Flows : \A i \in Oks(f)' :
                 i \in Oks(f) \/ (i = c.id /\ f = c.flow /\ text = "OK")
<1>1. /\ lines' = [lines EXCEPT ![c.flow] = lines[c.flow] \cup {Line(c.id, text)}]
      /\ lines \in [Flows -> SUBSET [id : Nat, text : Texts]]
  BY DEF Say, SaidInv
<1>2. Line(c.id, text) \in [id : Nat, text : Texts] /\ Line(c.id, text).id = c.id
      /\ Line(c.id, text).text = text
  BY DEF Line
<1>3. lines' \in [Flows -> SUBSET [id : Nat, text : Texts]]
  BY <1>1, <1>2
<1>4. ASSUME NEW f \in Flows, NEW l \in lines'[f], l.text = "OK"
      PROVE  l \in lines[f] \/ (l.id = c.id /\ f = c.flow /\ text = "OK")
  BY <1>1, <1>2, <1>4
<1> QED
  BY <1>3, <1>4 DEF Oks

(* The page says that the proof of c is OK, or something else, or nothing. *)
SaysOf(c) == \/ UNCHANGED <<lines, current>>
             \/ \E text \in {"not OK", "no proof"} : Say(c, text) /\ UNCHANGED current
             \/ ReportOk(c) /\ Good(c.flow, c.id)

LEMMA EndKeeps ==
    ASSUME SaidInv, CallsInv, NEW c \in calls, calls' = calls \ {c},
           UNCHANGED <<blocks, proved, proves, registered, final>>,
           Handled' \subseteq Handled, c.id \notin Handled', SaysOf(c)
    PROVE  SaidInv' /\ CallsInv'
<1>1. c.id \in 1..proves /\ c.id \in Nat /\ c.flow \in Flows /\ proves \in Nat
  BY DEF CallsInv
<1>2. \A d \in calls' : d \in calls /\ d.id # c.id
  BY DEF CallsInv
<1>3. CallsInv'
  <2>1. ASSUME NEW i \in Handled'
        PROVE  \E d \in calls' : d.id = i /\ d.flow = "v0" /\ d.at = "verifier"
    <3>1. PICK d \in calls : d.id = i /\ d.flow = "v0" /\ d.at = "verifier"
      BY DEF CallsInv
    <3>2. d # c
      BY <3>1
    <3> QED
      BY <3>1, <3>2
  <2> HIDE DEF Handled
  <2>2. \A d \in calls' : d \in calls
    BY <1>2
  <2> QED
    BY <2>1, <2>2 DEF CallsInv
<1>4. \A f, i : Good(f, i)' = Good(f, i)
  BY DEF Good, WasActive, WasAnchored, ActiveTogether
<1>5. \A f \in Flows : \A i \in CalledOk(f) : Good(f, i)'
  BY <1>4 DEF SaidInv, Good
<1> DEFINE Said == /\ lines' \in [Flows -> SUBSET [id : Nat, text : Texts]]
                   /\ current' \in [Flows -> Nat]
                   /\ \A f \in Flows : \A i \in CalledOk(f)' :
                        i \in CalledOk(f) \/ (i = c.id /\ Good(f, i)')
<1>6. Said
  <2>1. CASE UNCHANGED <<lines, current>>
    BY <2>1 DEF SaidInv, CalledOk, Oks
  <2>2. ASSUME NEW text \in {"not OK", "no proof"}, Say(c, text), UNCHANGED current
        PROVE  Said
    <3>1. text \in Texts /\ text # "OK"
      BY DEF Texts
    <3>2. /\ lines' \in [Flows -> SUBSET [id : Nat, text : Texts]]
          /\ \A f \in Flows : \A i \in Oks(f)' : i \in Oks(f)
      BY <1>1, <2>2, <3>1, SayAdds
    <3> QED
      BY <2>2, <3>2 DEF SaidInv, CalledOk
  <2>3. CASE ReportOk(c) /\ Good(c.flow, c.id)
    <3>1. "OK" \in Texts /\ Say(c, "OK")
      BY <2>3 DEF Texts, ReportOk
    <3>2. /\ lines' \in [Flows -> SUBSET [id : Nat, text : Texts]]
          /\ \A f \in Flows : \A i \in Oks(f)' : i \in Oks(f) \/ (i = c.id /\ f = c.flow)
      BY <1>1, <3>1, SayAdds
    <3>3. current' = [current EXCEPT ![c.flow] = c.id] /\ current \in [Flows -> Nat]
      BY <2>3 DEF ReportOk, SaidInv
    <3>4. /\ current' \in [Flows -> Nat]
          /\ \A f \in Flows : current'[f] = current[f] \/ (f = c.flow /\ current'[f] = c.id)
      BY <1>1, <3>3
    <3>5. Good(c.flow, c.id)'
      BY <1>4, <2>3
    <3> QED
      BY <3>2, <3>4, <3>5 DEF CalledOk
  <2> QED
    BY <2>1, <2>2, <2>3 DEF SaysOf
<1>7. proves' = proves /\ \A d \in calls' : d.id # c.id /\ \E e \in calls : e.id = d.id
  BY <1>2
<1>8. SaidInv'
  <2>1. \A f \in Flows : \A i \in CalledOk(f)' :
           i \in CalledOk(f) \/ (i \in 1..proves' /\ Good(f, i)' /\ \A d \in calls' : d.id # i)
    BY <1>1, <1>6, <1>7
  <2>2. proves' \in Nat /\ proves <= proves'
    BY <1>1, <1>7
  <2> QED
    BY <1>5, <1>6, <1>7, <2>1, <2>2, SaidStays
<1> QED
  BY <1>3, <1>8

(* Asking begins a call with a new number, or says that there is no proof. *)
LEMMA AskKeeps ==
    ASSUME JobsInv, CallsInv, SaidInv, UNCHANGED verifierVars,
           NEW c, CallShape(c), c.id = proves + 1, c.flow \in Flows, c.at = "wallet", Ask(c)
    PROVE  JobsInv' /\ CallsInv' /\ SaidInv'
<1>1. /\ UNCHANGED <<impl, blocks, jobs, replies, registered, final, proved, current>>
      /\ proves' = proves + 1 /\ proves \in Nat /\ calls' \in {calls, calls \cup {c}}
  BY DEF Ask, verifierVars, anchorVars, CallsInv
<1>0. UNCHANGED lines \/ Say(c, "no proof")
  BY DEF Ask
<1>2. \A d \in calls' : d \in calls \/ d = c
  BY <1>1
<1>3. \A d \in calls : d.id \in 1..proves /\ d.id # c.id
  BY <1>1 DEF CallsInv
<1>4. JobsInv'
  BY <1>1 DEF JobsInv, JobOK, JobOfCall, WasActive, ActiveTogether
<1>5. CallsInv'
  <2>1. \A d \in calls' : d \in calls \/ (d = c /\ CallShape(c) /\ c.id \in 1..proves' /\ c.at = "wallet")
    BY <1>1, <1>2
  <2>2. \A d \in calls' : CallShape(d) /\ d.id \in 1..proves' /\ d.flow \in Flows
    BY <1>1, <2>1 DEF CallsInv
  <2>3. \A d \in calls' : d.at = "verifier" => d \in calls
    BY <2>1
  <2>4. \A d, e \in calls' : d.id = e.id => d = e
    BY <1>2, <1>3 DEF CallsInv
  <2>5. Handled' = Handled /\ calls \subseteq calls'
    BY <1>1 DEF Handled
  <2> HIDE DEF Handled
  <2> QED
    BY <1>1, <2>2, <2>3, <2>4, <2>5 DEF CallsInv
<1>6. \A f, i : Good(f, i)' = Good(f, i)
  BY <1>1 DEF Good, WasActive, WasAnchored, ActiveTogether
<1>7. \A f \in Flows : \A i \in CalledOk(f) : Good(f, i)'
  BY <1>6 DEF SaidInv, Good
<1>8. /\ lines' \in [Flows -> SUBSET [id : Nat, text : Texts]]
      /\ \A f \in Flows : \A i \in Oks(f)' : i \in Oks(f)
  <2>1. CASE UNCHANGED lines
    BY <2>1 DEF SaidInv, Oks
  <2>2. CASE Say(c, "no proof")
    <3>1. c.id \in Nat /\ "no proof" \in Texts
      BY <1>1 DEF Texts
    <3> QED
      BY <2>2, <3>1, SayAdds
  <2> QED
    BY <1>0, <2>1, <2>2
<1>9. \A f \in Flows : \A i \in CalledOk(f)' : i \in CalledOk(f)
  BY <1>1, <1>8 DEF CalledOk
<1>10. SaidInv'
  <2>1. current' \in [Flows -> Nat] /\ proves' \in Nat /\ proves <= proves'
    BY <1>1 DEF SaidInv
  <2>2. \A d \in calls' : (\E e \in calls : e.id = d.id) \/ d.id = proves + 1
    BY <1>2
  <2> QED
    BY <1>7, <1>8, <1>9, <2>1, <2>2, SaidStays
<1> QED
  BY <1>4, <1>5, <1>10

(* What is presented is new: the page has said nothing of it, and the verifier
   does not know it. *)
LEMMA PresentKeeps ==
    ASSUME JobsInv, CallsInv, SaidInv, NEW c \in calls, WalletPresents(c)
    PROVE  JobsInv' /\ CallsInv' /\ SaidInv'
<1> DEFINE d == [c EXCEPT !.at = "verifier"]
<1>1. PICK creds \in SUBSET Creds, p \in Proofs :
         /\ proved' = With(proved, c.id, [creds |-> creds, proof |-> p, of |-> c.of,
                                          anchor |-> c.anchor, from |-> Len(blocks)])
         /\ jobs' = IF c.flow = "v0" THEN jobs \cup {Job(c.id, creds, p)} ELSE jobs
  BY DEF WalletPresents
<1>2. /\ c.at = "wallet" /\ calls' = (calls \ {c}) \cup {d}
      /\ UNCHANGED <<blocks, replies, registered, final, lines, current, proves>>
  BY DEF WalletPresents, anchorVars
<1>3. CallShape(c) /\ c.id \in 1..proves /\ c.flow \in Flows
  BY DEF CallsInv
<1>4. CallShape(d) /\ d.id = c.id /\ d.flow = c.flow /\ d.of = c.of /\ d.anchor = c.anchor
      /\ d.at = "verifier"
  BY <1>3 DEF CallShape
<1> HIDE DEF d
<1>5. /\ DOMAIN proved' = DOMAIN proved \cup {c.id}
      /\ \A i \in DOMAIN proved : i # c.id => proved'[i] = proved[i]
      /\ proved'[c.id].creds = creds /\ proved'[c.id].proof = p /\ proved'[c.id].of = c.of
      /\ proved'[c.id].anchor = c.anchor /\ proved'[c.id].from = Len(blocks)
  BY <1>1 DEF With
<1>6. c.id \notin Handled
  BY <1>2 DEF CallsInv
<1>7. \A i : i # c.id => (WasActive(i) => WasActive(i)') /\ (WasAnchored(i) => WasAnchored(i)')
  BY <1>2, <1>5 DEF WasActive, WasAnchored, ActiveTogether
<1>0. PICK k : k = Job(c.id, creds, p)
  OBVIOUS
<1>8. /\ k.id = c.id /\ k.creds = creds /\ k.proof = p /\ k.from = Len(blocks)
      /\ k.at = 0 /\ k.seen = << >>
      /\ k = [id |-> k.id, creds |-> k.creds, proof |-> k.proof, at |-> k.at, seen |-> k.seen,
              from |-> k.from]
  BY <1>0 DEF Job
<1>9. \A j \in jobs' : j \in jobs \/ (j = k /\ c.flow = "v0")
  BY <1>0, <1>1
<1>10. JobsInv'
  <2>1. JobOK(k)' /\ JobOfCall(k)'
    <3>1. Len(blocks) \in 1..Len(blocks) /\ 0 \in 0..Len(blocks)
      BY DEF JobsInv
    <3>2. DOMAIN k.seen = {}
      BY <1>8
    <3>3. JobOK(k)'
      BY <1>2, <1>8, <3>1, <3>2 DEF JobOK
    <3>4. JobOfCall(k)'
      BY <1>5, <1>8 DEF JobOfCall
    <3> QED
      BY <3>3, <3>4
  <2>2. \A j \in jobs : j.id # c.id /\ JobOK(j)' /\ JobOfCall(j)'
    <3>1. \A j \in jobs : j.id # c.id
      BY <1>6 DEF Handled
    <3> QED
      BY <1>2, <1>5, <3>1 DEF JobsInv, JobOK, JobOfCall
  <2>3. \A r \in replies : r.id # c.id
    BY <1>6 DEF Handled
  <2>4. \A r \in replies' : r \in replies /\ (r.ok => WasActive(r.id)')
    BY <1>2, <1>7, <2>3 DEF JobsInv
  <2>5. \A i, j \in jobs' : i.id = j.id => i = j
    BY <1>8, <1>9, <2>2 DEF JobsInv
  <2>6. \A j \in jobs', r \in replies' : j.id # r.id
    BY <1>2, <1>8, <1>9, <2>3 DEF JobsInv
  <2>7. ASSUME NEW j \in jobs'
        PROVE  JobOK(j)' /\ JobOfCall(j)'
    <3>1. CASE j \in jobs
      BY <2>2, <3>1
    <3>2. CASE j = k
      BY <2>1, <3>2
    <3> QED
      BY <1>9, <3>1, <3>2
  <2> QED
    BY <1>2, <2>4, <2>5, <2>6, <2>7 DEF JobsInv
<1>11. \A e \in calls' : (e \in calls /\ e.id # c.id) \/ e = d
  BY <1>2 DEF CallsInv
<1>12. CallsInv'
  <2>1. ASSUME NEW e \in calls'
        PROVE  /\ CallShape(e) /\ e.id \in 1..proves' /\ e.flow \in Flows
               /\ e.at = "verifier" => e.id \in DOMAIN proved'
               /\ e.at = "verifier" /\ e.flow = "v1" =>
                     proved'[e.id].of = e.of /\ proved'[e.id].anchor = e.anchor
    <3>1. CASE e = d
      BY <1>2, <1>3, <1>4, <1>5, <3>1
    <3>2. CASE e \in calls /\ e.id # c.id
      <4>1. /\ CallShape(e) /\ e.id \in 1..proves /\ e.flow \in Flows
            /\ e.at = "verifier" => e.id \in DOMAIN proved
            /\ e.at = "verifier" /\ e.flow = "v1" =>
                  proved[e.id].of = e.of /\ proved[e.id].anchor = e.anchor
        BY <3>2 DEF CallsInv
      <4> QED
        BY <1>2, <1>5, <3>2, <4>1
    <3> QED
      BY <1>11, <3>1, <3>2
  <2>2. \A e, f \in calls' : e.id = f.id => e = f
    BY <1>4, <1>11 DEF CallsInv
  <2>3. ASSUME NEW i \in Handled'
        PROVE  \E e \in calls' : e.id = i /\ e.flow = "v0" /\ e.at = "verifier"
    <3>1. i \in Handled \/ (i = c.id /\ c.flow = "v0")
      BY <1>2, <1>8, <1>9 DEF Handled
    <3>2. ASSUME i \in Handled
          PROVE  \E e \in calls' : e.id = i /\ e.flow = "v0" /\ e.at = "verifier"
      BY <1>2, <3>2 DEF CallsInv
    <3> QED
      BY <1>2, <1>4, <3>1, <3>2
  <2>4. proves' \in Nat
    BY <1>2 DEF CallsInv
  <2> HIDE DEF Handled
  <2> QED
    BY <2>1, <2>2, <2>3, <2>4 DEF CallsInv
<1>13. SaidInv'
  <2>1. \A f : CalledOk(f)' = CalledOk(f)
    BY <1>2 DEF CalledOk, Oks
  <2>2. \A f \in Flows : \A i \in CalledOk(f) : i # c.id
    BY DEF SaidInv
  <2>3. \A f \in Flows : \A i \in CalledOk(f) : Good(f, i)'
    BY <1>7, <2>2 DEF SaidInv, Good
  <2>4. \A e \in calls' : \E b \in calls : b.id = e.id
    BY <1>4, <1>11
  <2>5. /\ lines' \in [Flows -> SUBSET [id : Nat, text : Texts]] /\ current' \in [Flows -> Nat]
        /\ proves' \in Nat /\ proves <= proves'
    BY <1>2 DEF SaidInv, CallsInv
  <2> QED
    BY <2>1, <2>3, <2>4, <2>5, SaidStays
<1> QED
  BY <1>10, <1>12, <1>13

(* The calls that end. *)
LEMMA EndedKeeps ==
    ASSUME JobsInv, CallsInv, SaidInv, NEW c \in calls,
           \/ (WalletRefuses(c) \/ VerifiedV1(c)) /\ UNCHANGED verifierVars
           \/ Verified(c) \/ AnswerLost(c)
    PROVE  JobsInv' /\ CallsInv' /\ SaidInv'
<1>1. /\ calls' = calls \ {c} /\ jobs' = jobs /\ replies' \subseteq replies
      /\ UNCHANGED <<blocks, proved, proves, registered, final>>
  BY DEF WalletRefuses, VerifiedV1, Verified, AnswerLost, verifierVars, anchorVars
<1>2. \A i : WasActive(i)' = WasActive(i) /\ WasAnchored(i)' = WasAnchored(i)
  BY <1>1 DEF WasActive, WasAnchored, ActiveTogether
<1>3. JobsInv'
  BY <1>1, <1>2 DEF JobsInv, JobOK, JobOfCall
<1>4. Handled' \subseteq Handled
  BY <1>1 DEF Handled
<1>5. \A i \in Handled : i = c.id => c.flow = "v0" /\ c.at = "verifier"
  BY DEF CallsInv
<1>6. CASE WalletRefuses(c) /\ UNCHANGED verifierVars
  <2>1. c.at = "wallet" /\ UNCHANGED current /\ (Say(c, "no proof") \/ UNCHANGED lines)
    BY <1>6 DEF WalletRefuses
  <2>2. c.id \notin Handled'
    BY <1>4, <1>5, <2>1
  <2>3. SaysOf(c)
    BY <2>1 DEF SaysOf
  <2> QED
    BY <1>1, <1>3, <1>4, <2>2, <2>3, EndKeeps
<1>7. CASE VerifiedV1(c) /\ UNCHANGED verifierVars
  <2>1. c.flow = "v1" /\ c.at = "verifier"
    BY <1>7 DEF VerifiedV1
  <2>2. c.id \notin Handled'
    BY <1>4, <1>5, <2>1
  <2>3. PICK r \in ResultsV1(c) : IF Accepted(r) THEN ReportOk(c)
                                  ELSE Say(c, "not OK") /\ UNCHANGED current
    BY <1>7 DEF VerifiedV1
  <2>4. CASE Accepted(r)
    <3>1. Matches(c)
      BY <2>4 DEF Accepted, ResultsV1
    <3>2. /\ c.id \in DOMAIN proved /\ proved[c.id].of = c.of
          /\ proved[c.id].anchor = c.anchor
      BY <2>1 DEF CallsInv
    <3>3. Good(c.flow, c.id)
      BY <2>1, <3>1, <3>2 DEF Good, Matches, WasAnchored
    <3>4. SaysOf(c)
      BY <2>3, <2>4, <3>3 DEF SaysOf
    <3> QED
      BY <1>1, <1>3, <1>4, <2>2, <3>4, EndKeeps
  <2>5. CASE ~Accepted(r)
    <3>1. SaysOf(c)
      BY <2>3, <2>5 DEF SaysOf
    <3> QED
      BY <1>1, <1>3, <1>4, <2>2, <3>1, EndKeeps
  <2> QED
    BY <2>4, <2>5
<1>8. CASE Verified(c)
  <2>1. c.flow = "v0" /\ c.at = "verifier"
    BY <1>8 DEF Verified
  <2>2. PICK r \in replies :
          /\ r.id = c.id /\ replies' = replies \ {r}
          /\ IF r.ok THEN ReportOk(c)
             ELSE /\ IF r.json THEN Say(c, "not OK") ELSE UNCHANGED lines
                  /\ UNCHANGED current
    BY <1>8 DEF Verified
  <2>3. (\A q \in replies' : q.id # c.id) /\ \A j \in jobs' : j.id # c.id
    BY <1>1, <2>2 DEF JobsInv
  <2>4. c.id \notin Handled'
    BY <2>3 DEF Handled
  <2>5. SaysOf(c)
    <3>1. CASE r.ok
      <4>1. WasActive(c.id)
        BY <2>2, <3>1 DEF JobsInv
      <4>2. Good(c.flow, c.id)
        BY <2>1, <4>1 DEF Good
      <4> QED
        BY <2>2, <3>1, <4>2 DEF SaysOf
    <3>2. CASE ~r.ok
      BY <2>2, <3>2 DEF SaysOf
    <3> QED
      BY <3>1, <3>2
  <2> QED
    BY <1>1, <1>3, <1>4, <2>4, <2>5, EndKeeps
<1>9. CASE AnswerLost(c)
  <2>1. UNCHANGED <<lines, current>> /\ (\A j \in jobs : j.id # c.id)
        /\ replies' = {r \in replies : r.id # c.id}
    BY <1>9 DEF AnswerLost
  <2>2. c.id \notin Handled'
    BY <1>1, <2>1 DEF Handled
  <2>3. SaysOf(c)
    BY <2>1 DEF SaysOf
  <2> QED
    BY <1>1, <1>3, <1>4, <2>2, <2>3, EndKeeps
<1> QED
  BY <1>6, <1>7, <1>8, <1>9

(* What is going on elsewhere makes nothing false that was said. *)
LEMMA PageStays ==
    ASSUME CallsInv, SaidInv, UNCHANGED <<calls, lines, current, proved, proves>>,
           Handled' \subseteq Handled, \A f \in Flows : \A i : Good(f, i) => Good(f, i)'
    PROVE  CallsInv' /\ SaidInv'
<1>1. CallsInv'
  <2> HIDE DEF Handled
  <2> QED
    BY DEF CallsInv
<1>2. \A f : CalledOk(f)' = CalledOk(f)
  BY DEF CalledOk, Oks
<1>3. \A f \in Flows : \A i \in CalledOk(f) : Good(f, i)'
  BY DEF SaidInv, Good
<1>4. /\ lines' \in [Flows -> SUBSET [id : Nat, text : Texts]] /\ current' \in [Flows -> Nat]
      /\ proves' \in Nat /\ proves <= proves'
  BY DEF SaidInv, CallsInv
<1>5. SaidInv'
  BY <1>2, <1>3, <1>4, SaidStays
<1> QED
  BY <1>1, <1>5

LEMMA ClearKeeps ==
    ASSUME JobsInv, CallsInv, SaidInv, ClearMessages, UNCHANGED verifierVars
    PROVE  JobsInv' /\ CallsInv' /\ SaidInv'
<1>1. /\ UNCHANGED <<blocks, jobs, replies, registered, final, proved, proves, current, calls>>
      /\ lines' = [f \in Flows |-> {}]
  BY DEF ClearMessages, verifierVars, anchorVars
<1>2. JobsInv'
  BY <1>1 DEF JobsInv, JobOK, JobOfCall, WasActive, ActiveTogether
<1>3. CallsInv'
  BY <1>1 DEF CallsInv, Handled
<1>4. \A f \in Flows : \A i \in CalledOk(f)' : i \in CalledOk(f)
  BY <1>1 DEF CalledOk, Oks
<1>5. \A f, i : Good(f, i)' = Good(f, i)
  BY <1>1 DEF Good, WasActive, WasAnchored, ActiveTogether
<1>6. \A f \in Flows : \A i \in CalledOk(f) : Good(f, i)'
  BY <1>5 DEF SaidInv, Good
<1>7. /\ lines' \in [Flows -> SUBSET [id : Nat, text : Texts]] /\ current' \in [Flows -> Nat]
      /\ proves' \in Nat /\ proves <= proves'
  BY <1>1 DEF SaidInv, CallsInv
<1>8. SaidInv'
  BY <1>1, <1>4, <1>6, <1>7, SaidStays
<1> QED
  BY <1>2, <1>3, <1>8

(* While the anchor is made, and while the verifier works. *)
LEMMA AnchorStepKeeps ==
    ASSUME AnchorsInv, JobsInv, CallsInv, SaidInv, AnchorStep, UNCHANGED verifierVars
    PROVE  AnchorsInv' /\ JobsInv' /\ CallsInv' /\ SaidInv'
<1>1. /\ AnchorsInv' /\ UNCHANGED <<blocks, jobs, replies, calls, lines, current, proved, proves>>
      /\ final \subseteq final' /\ \A h \in final : registered'[h] = registered[h]
  BY AnchorsKeep DEF proofVars, verifierVars
<1>2. JobsInv'
  BY <1>1 DEF JobsInv, JobOK, JobOfCall, WasActive, ActiveTogether
<1>3. \A f \in Flows : \A i : Good(f, i) => Good(f, i)'
  BY <1>1 DEF Good, WasActive, WasAnchored, ActiveTogether
<1>4. Handled' \subseteq Handled
  BY <1>1 DEF Handled
<1> QED
  BY <1>1, <1>2, <1>3, <1>4, PageStays

LEMMA VerifierStepKeeps ==
    ASSUME AnchorsInv, JobsInv, CallsInv, SaidInv, VerifierNext, UNCHANGED <<anchorVars, proofVars>>
    PROVE  AnchorsInv' /\ JobsInv' /\ CallsInv' /\ SaidInv'
<1>1. UNCHANGED <<calls, lines, current, proved, proves, anchor, anchorCalls, registered, final,
                  submits>>
  BY DEF anchorVars, proofVars
<1>2. JobsInv' /\ Handled' \subseteq Handled /\ \A i : WasActive(i) => WasActive(i)'
  BY <1>1, VerifierKeeps
<1>3. \A f \in Flows : \A i : Good(f, i) => Good(f, i)'
  BY <1>1, <1>2 DEF Good, WasAnchored
<1>4. CallsInv' /\ SaidInv'
  BY <1>1, <1>2, <1>3, PageStays
<1>5. AnchorsInv'
  BY <1>1 DEF AnchorsInv
<1> QED
  BY <1>2, <1>4, <1>5

LEMMA ProofStepKeeps ==
    ASSUME JobsInv, CallsInv, SaidInv, ProofStep, UNCHANGED verifierVars
    PROVE  /\ JobsInv' /\ CallsInv' /\ SaidInv'
           /\ UNCHANGED <<walletVars, offerVars, composeVars, anchorVars>>
<1>1. UNCHANGED <<walletVars, offerVars, composeVars, anchorVars>>
  BY DEF ProofStep, Prove, ProveV1, Ask, ClearMessages, WalletRefuses, VerifiedV1
<1>2. CASE Prove
  <2> DEFINE c == [id |-> proves + 1, flow |-> "v0", of |-> statement, anchor |-> 0,
                   at |-> "wallet"]
  <2>1. PICK d : d = c
    OBVIOUS
  <2>2. CallShape(d) /\ d.id = proves + 1 /\ d.flow \in Flows /\ d.at = "wallet" /\ Ask(d)
    BY <1>2, <2>1 DEF Prove, CallShape, Flows
  <2> QED
    BY <1>1, <2>2, AskKeeps
<1>3. CASE ProveV1
  <2> DEFINE c == [id |-> proves + 1, flow |-> "v1", of |-> SubjectClaims, anchor |-> anchor,
                   at |-> "wallet"]
  <2>1. PICK d : d = c
    OBVIOUS
  <2>2. CallShape(d) /\ d.id = proves + 1 /\ d.flow \in Flows /\ d.at = "wallet" /\ Ask(d)
    BY <1>3, <2>1 DEF ProveV1, CallShape, Flows
  <2> QED
    BY <1>1, <2>2, AskKeeps
<1>4. CASE ClearMessages
  BY <1>1, <1>4, ClearKeeps
<1>5. CASE \E c \in calls : WalletRefuses(c) \/ VerifiedV1(c)
  BY <1>1, <1>5, EndedKeeps
<1> QED
  BY <1>1, <1>2, <1>3, <1>4, <1>5 DEF ProofStep

LEMMA ExplorerKeeps ==
    ASSUME ExplorerInv, [ExplorerNext]_explorerVars
    PROVE  ExplorerInv'
<1>1. WalletInv /\ OfferInv /\ ComposeInv /\ AnchorsInv /\ JobsInv /\ CallsInv /\ SaidInv
  BY DEF ExplorerInv
<1>2. /\ UNCHANGED walletVars => WalletInv'
      /\ UNCHANGED offerVars => OfferInv'
      /\ UNCHANGED composeVars => ComposeInv'
      /\ UNCHANGED anchorVars => AnchorsInv'
  BY <1>1 DEF walletVars, offerVars, composeVars, anchorVars, WalletInv, OfferInv, ComposeInv,
              AnchorsInv
<1> DEFINE Others == /\ UNCHANGED verifierVars
                     /\ \/ WalletStep \/ OfferStep \/ ComposeStep \/ AnchorStep \/ ProofStep
                        \/ DetailStep \/ TypeSet
           Joint == \E c \in calls : WalletPresents(c) \/ Verified(c) \/ AnswerLost(c)
<1>3. Others \/ Joint \/ (VerifierNext /\ UNCHANGED pageVars) \/ UNCHANGED explorerVars
  BY DEF ExplorerNext
<1>4. CASE Others
  <2>1. CASE WalletStep
    BY <1>1, <1>2, <1>4, <2>1, WalletKeeps, ProofsStay DEF ExplorerInv
  <2>2. CASE OfferStep
    BY <1>1, <1>2, <1>4, <2>2, OfferKeeps, ProofsStay DEF ExplorerInv
  <2>3. CASE ComposeStep
    BY <1>1, <1>2, <1>4, <2>3, ComposeKeeps, ProofsStay DEF ExplorerInv
  <2>4. CASE AnchorStep
    <3>1. UNCHANGED <<walletVars, offerVars, composeVars>>
      BY <1>1, <2>4, AnchorsKeep
    <3> QED
      BY <1>1, <1>2, <1>4, <2>4, <3>1, AnchorStepKeeps DEF ExplorerInv
  <2>5. CASE ProofStep
    BY <1>1, <1>2, <1>4, <2>5, ProofStepKeeps DEF ExplorerInv
  <2>6. CASE DetailStep \/ TypeSet
    <3>1. UNCHANGED <<walletVars, offerVars, composeVars, anchorVars, proofVars>>
      BY <2>6 DEF DetailStep, ViewDetails, SwitchView, CopyProof, CloseDetails, TypeSet
    <3> QED
      BY <1>1, <1>2, <1>4, <3>1, ProofsStay DEF ExplorerInv
  <2> QED
    BY <1>4, <2>1, <2>2, <2>3, <2>4, <2>5, <2>6
<1>5. CASE Joint
  <2>1. PICK c \in calls : WalletPresents(c) \/ Verified(c) \/ AnswerLost(c)
    BY <1>5
  <2>2. UNCHANGED <<walletVars, offerVars, composeVars, anchorVars>>
    BY <2>1 DEF WalletPresents, Verified, AnswerLost
  <2>3. JobsInv' /\ CallsInv' /\ SaidInv'
    BY <1>1, <2>1, PresentKeeps, EndedKeeps
  <2> QED
    BY <1>2, <2>2, <2>3 DEF ExplorerInv
<1>6. CASE VerifierNext /\ UNCHANGED pageVars
  BY <1>1, <1>2, <1>6, VerifierStepKeeps DEF pageVars, ExplorerInv
<1>7. CASE UNCHANGED explorerVars
  BY <1>1, <1>2, <1>7, ProofsStay DEF explorerVars, pageVars, ExplorerInv
<1> QED
  BY <1>3, <1>4, <1>5, <1>6, <1>7

LEMMA ExplorerShows == ASSUME ExplorerInv PROVE ExplorerTypeOK /\ OkWasActive /\ OkWasAnchored
<1>1. /\ WalletInv /\ OfferInv /\ ComposeInv /\ AnchorsInv /\ JobsInv /\ CallsInv /\ SaidInv
      /\ "v0" \in Flows /\ "v1" \in Flows
  BY DEF ExplorerInv, Flows
<1>2. OkWasActive
  BY <1>1 DEF SaidInv, OkWasActive, WasActive
<1>3. OkWasAnchored
  BY <1>1 DEF SaidInv, OkWasAnchored, WasAnchored
<1>4. /\ provider \in {None, "browser", "mobile"} /\ topic \in Chains \cup {None}
      /\ topic # None => account["mobile"]
      /\ chainID \in Chains /\ connecting \subseteq {"browser"} \cup Chains
  BY <1>1 DEF WalletInv
<1>5. /\ ticked["account"] \cup ticked["id"] \subseteq idps /\ tags \subseteq Registries
      /\ currentType \in Columns \cup {None}
  BY <1>1 DEF OfferInv, ComposeInv
<1>6. \A k \in DOMAIN statement : statement[k].type \in Columns /\ statement[k].atoms # {}
  <2>1. \A k \in DOMAIN statement : statement[k] \in Statement
    BY <1>1 DEF ComposeInv
  <2> QED
    BY <2>1 DEF Statement
<1>7. anchor \in 0..submits /\ (anchor # 0 => anchor \in DOMAIN registered)
  BY <1>1 DEF AnchorsInv
<1>8. \A f \in Flows : current[f] \in 0..proves /\ Oks(f) \subseteq 1..proves
  <2>1. \A f \in Flows : \A i \in CalledOk(f) : i \in 1..proves
    BY <1>1 DEF SaidInv
  <2>2. proves \in Nat
    BY <1>1 DEF CallsInv
  <2> QED
    BY <2>1, <2>2 DEF CalledOk
<1>9. \A c \in calls : c.id \in 1..proves /\ (c.at = "verifier" => c.id \in DOMAIN proved)
  BY <1>1 DEF CallsInv
<1>10. {j.id : j \in jobs} \cap {r.id : r \in replies} = {}
  BY <1>1 DEF JobsInv
<1>11. \A j \in jobs : j.id \in 1..proves /\ DOMAIN j.seen \subseteq j.creds
  <2>1. \A j \in jobs : j.id \in Handled
    BY DEF Handled
  <2>2. \A i \in Handled : i \in 1..proves
    BY <1>1 DEF CallsInv
  <2> QED
    BY <1>1, <2>1, <2>2 DEF JobsInv, JobOK
<1> QED
  BY <1>2, <1>3, <1>4, <1>5, <1>6, <1>7, <1>8, <1>9, <1>10, <1>11 DEF ExplorerTypeOK

-----------------------------------------------------------------------------
(* The pages on which credentials are requested. *)

Pages == IssuerPages \cup {"verifier"}

PopupOK(w) ==
    /\ w = [page |-> w.page, state |-> w.state, user |-> w.user]
    /\ w.page \in SignInPages /\ w.user \in Users \cup {Nobody}

SignInInv ==
    /\ moves \in Nat /\ session \in Users \cup {Nobody}
    /\ signIn \in [SignInPages -> 0..moves]
    /\ \A w \in popups : PopupOK(w) /\ w.state \in 1..signIn[w.page]

RequestOK(r) ==
    /\ r = [id |-> r.id, page |-> r.page, plat |-> r.plat, user |-> r.user, at |-> r.at]
    /\ r.page \in Pages /\ r.plat \in Platforms /\ r.user \in Users
    /\ r.at \in {"connect", "wallet", "registered", "wait"}

(* What the chain and the wallet hold of a request that is at some point: its
   transaction is sent once, before the wallet has the credential. *)
Progress(r) ==
    /\ r.at \in {"connect", "wallet"} => r.id \notin held
    /\ r.at \in {"registered", "wait"} => chain[r.id].plat = r.plat /\ chain[r.id].status # "none"
    /\ r.at = "wait" => r.id \in held /\ (r.page = "verifier" => r.plat \in pending)

Transaction == [plat : Platforms \cup {""}, user : Users \cup {Nobody},
                status : {"none", "sent", "final"}]

RequestsInv ==
    /\ made \in 0..MaxRequests /\ chain \in [Requests -> Transaction]
    /\ \A r \in requests : RequestOK(r) /\ r.id \in 1..made /\ Progress(r)
    /\ \A r, q \in requests : r.id = q.id => r = q
    /\ held \subseteq 1..made /\ \A i \in held : chain[i].status # "none"

ShownInv ==
    /\ toast \in [IssuerPages -> [transaction : held \cup {0},
                                  status : {"none", "submitted", "finalized"}, show : BOOLEAN]]
    /\ pending \subseteq Platforms /\ issued \subseteq pending
    /\ IssuedIsHeld

CredentialInv == SignInInv /\ RequestsInv /\ ShownInv

LEMMA SignInKeeps ==
    ASSUME SignInInv, CredentialNext
    PROVE  SignInInv'
<1>1. moves \in Nat /\ moves' \in Nat /\ moves <= moves' /\ moves' \in {moves, moves + 1}
  <2>1. moves' = moves \/ moves' = moves + 1
    <3>1. CASE \/ \E p \in SignInPages : openDiscordVerification(p)
               \/ \E p \in {"verifier", "telegram"}, u \in Users : onTelegramAuth(p, u)
               \/ CloseModal \/ \E p \in IssuerPages : CloseToast(p)
      BY <3>1 DEF openDiscordVerification, onTelegramAuth, CloseModal, CloseToast, Moves
    <3>2. CASE \/ \E w \in popups : \/ SignInFails(w) \/ onDiscordWindowMessage(w)
                                    \/ \E u \in Users : Redirected(w, u)
               \/ \E i \in Requests : ChainFinalizes(i)
      BY <3>2 DEF SignInFails, onDiscordWindowMessage, Redirected, ChainFinalizes
    <3>3. CASE \E r \in requests : \/ WalletReached(r) \/ WalletNotReached(r) \/ Registered(r)
                                   \/ NotAdded(r) \/ Added(r) \/ Finalized(r) \/ WaitFails(r)
      BY <3>3 DEF WalletReached, WalletNotReached, Registered, NotAdded, Added, Finalized, WaitFails
    <3> QED
      BY <3>1, <3>2, <3>3 DEF CredentialNext
  <2> QED
    BY <2>1 DEF SignInInv
<1>2. ASSUME NEW p \in SignInPages, openDiscordVerification(p)
      PROVE  SignInInv'
  <2> DEFINE w == [page |-> p, state |-> moves', user |-> Nobody]
  <2>1. /\ signIn' = [signIn EXCEPT ![p] = moves'] /\ session' = session
        /\ popups' = popups \cup {w} /\ moves' = moves + 1
    BY <1>2 DEF openDiscordVerification, Moves
  <2>2. PICK v : v = w
    OBVIOUS
  <2>3. /\ v = [page |-> v.page, state |-> v.state, user |-> v.user]
        /\ v.page = p /\ v.state = moves' /\ v.user = Nobody
    BY <2>2
  <2> HIDE DEF w
  <2>4. /\ signIn' \in [SignInPages -> 0..moves'] /\ signIn'[p] = moves'
        /\ \A q \in SignInPages : signIn[q] <= signIn'[q]
    BY <1>1, <2>1 DEF SignInInv
  <2>5. ASSUME NEW u \in popups'
        PROVE  PopupOK(u) /\ u.state \in 1..signIn'[u.page]
    <3>1. CASE u = v
      BY <1>1, <2>1, <2>3, <2>4, <3>1 DEF PopupOK
    <3>2. CASE u \in popups
      <4>1. PopupOK(u) /\ u.state \in 1..signIn[u.page] /\ u.page \in SignInPages
        BY <3>2 DEF SignInInv, PopupOK
      <4>2. signIn[u.page] \in Nat /\ signIn'[u.page] \in Nat
        BY <1>1, <2>4, <4>1 DEF SignInInv
      <4> QED
        BY <2>4, <4>1, <4>2
    <3> QED
      BY <2>1, <2>2, <3>1, <3>2
  <2> QED
    BY <1>1, <2>1, <2>4, <2>5 DEF SignInInv
<1>3. ASSUME NEW w \in popups, NEW u \in Users, Redirected(w, u)
      PROVE  SignInInv'
  <2>1. PICK v : v = [w EXCEPT !.user = u]
    OBVIOUS
  <2>2. /\ session' = u /\ popups' = (popups \ {w}) \cup {v} /\ UNCHANGED <<signIn, moves>>
    BY <1>3, <2>1 DEF Redirected
  <2>3. PopupOK(w) /\ w.state \in 1..signIn[w.page]
    BY DEF SignInInv
  <2>4. PopupOK(v) /\ v.state \in 1..signIn[v.page]
    BY <2>1, <2>3 DEF PopupOK
  <2> QED
    BY <2>2, <2>4 DEF SignInInv
<1>4. CASE /\ UNCHANGED <<session, signIn>> /\ popups' \subseteq popups
  <2>1. signIn' \in [SignInPages -> 0..moves']
    BY <1>1, <1>4 DEF SignInInv
  <2> QED
    BY <1>1, <1>4, <2>1 DEF SignInInv
<1> QED
  BY <1>2, <1>3, <1>4
     DEF CredentialNext, SignInFails, onDiscordWindowMessage, onTelegramAuth, signInVars,
         WalletReached, WalletNotReached, Registered, NotAdded, Added, Finalized, WaitFails,
         ChainFinalizes, CloseModal, CloseToast

(* A request has a number of its own. *)
LEMMA RequestKeeps ==
    ASSUME RequestsInv, NEW p \in Pages, NEW plat \in Platforms, NEW u \in Users,
           Request(p, plat, u), UNCHANGED <<chain, held, pending>>
    PROVE  RequestsInv'
<1>1. PICK r : r = [id |-> made + 1, page |-> p, plat |-> plat, user |-> u, at |-> "connect"]
  OBVIOUS
<1>2. /\ made' = made + 1 /\ made < MaxRequests /\ requests' = requests \cup {r}
  BY <1>1 DEF Request
<1>3. made \in Nat /\ made' \in 0..MaxRequests
  BY <1>2, CredentialAssumption DEF RequestsInv
<1>4. r.id = made + 1 /\ r.at = "connect" /\ RequestOK(r)
  BY <1>1 DEF RequestOK
<1>5. \A q \in requests : q.id # r.id
  BY <1>3, <1>4 DEF RequestsInv
<1>6. r.id \notin held
  BY <1>3, <1>4 DEF RequestsInv
<1>7. Progress(r)'
  BY <1>2, <1>4, <1>6 DEF Progress
<1>8. \A q \in requests : RequestOK(q) /\ q.id \in 1..made' /\ Progress(q)'
  BY <1>2, <1>3 DEF RequestsInv, Progress
<1>9. r.id \in 1..made'
  BY <1>2, <1>3, <1>4
<1>10. \A q \in requests' : RequestOK(q) /\ q.id \in 1..made' /\ Progress(q)'
  BY <1>2, <1>4, <1>7, <1>8, <1>9
<1>11. \A q, v \in requests' : q.id = v.id => q = v
  BY <1>2, <1>5 DEF RequestsInv
<1>12. /\ held' \subseteq 1..made' /\ \A i \in held' : chain'[i].status # "none"
       /\ chain' \in [Requests -> Transaction]
  BY <1>2, <1>3 DEF RequestsInv
<1> QED
  BY <1>3, <1>10, <1>11, <1>12 DEF RequestsInv

(* A request goes on, or ends: it concerns its own transaction only. *)
LEMMA RequestGoesOn ==
    ASSUME RequestsInv, NEW r \in requests, NEW q, q.id = r.id,
           made' = made, requests' \subseteq (requests \ {r}) \cup {q},
           q \in requests' => RequestOK(q) /\ Progress(q)',
           chain' \in [Requests -> Transaction],
           \A i \in Requests : i # r.id => chain'[i] = chain[i],
           held \subseteq held', held' \subseteq held \cup {r.id},
           r.id \in held' => chain'[r.id].status # "none",
           pending \subseteq pending'
    PROVE  RequestsInv'
<1>1. /\ made \in 0..MaxRequests /\ r.id \in 1..made /\ made \in Nat
      /\ \A v \in requests : v.id \in 1..made /\ v.id \in Requests
  BY CredentialAssumption DEF RequestsInv, Requests
<1>2. \A v \in requests' : (v \in requests /\ v.id # r.id) \/ v = q
  BY DEF RequestsInv
<1>3. \A v \in requests' : RequestOK(v) /\ v.id \in 1..made /\ Progress(v)'
  <2>1. ASSUME NEW v \in requests', v \in requests, v.id # r.id
        PROVE  RequestOK(v) /\ v.id \in 1..made /\ Progress(v)'
    <3>1. RequestOK(v) /\ Progress(v) /\ chain'[v.id] = chain[v.id]
      BY <1>1, <2>1 DEF RequestsInv
    <3> QED
      BY <1>1, <2>1, <3>1 DEF Progress
  <2>2. ASSUME NEW v \in requests', v = q
        PROVE  RequestOK(v) /\ v.id \in 1..made /\ Progress(v)'
    BY <1>1, <2>2
  <2> QED
    BY <1>2, <2>1, <2>2
<1>4. \A u, v \in requests' : u.id = v.id => u = v
  BY <1>2 DEF RequestsInv
<1>5. \A i \in held' : i \in 1..made /\ chain'[i].status # "none"
  <2>1. \A i \in held' : i \in 1..made /\ i \in Requests
    BY <1>1, CredentialAssumption DEF RequestsInv, Requests
  <2>2. \A i \in held' : i # r.id => chain'[i].status # "none"
    BY <2>1 DEF RequestsInv
  <2> QED
    BY <2>1, <2>2
<1> QED
  BY <1>1, <1>3, <1>4, <1>5 DEF RequestsInv

(* [r EXCEPT !.at = at] *)
LEMMA AtOnly ==
    ASSUME NEW r, RequestOK(r), NEW at \in {"connect", "wallet", "registered", "wait"}
    PROVE  \E q : /\ q = [r EXCEPT !.at = at] /\ RequestOK(q) /\ q.at = at /\ q.id = r.id
                 /\ q.plat = r.plat /\ q.page = r.page
<1>1. PICK q : q = [id |-> r.id, page |-> r.page, plat |-> r.plat, user |-> r.user, at |-> at]
  OBVIOUS
<1>2. q = [r EXCEPT !.at = at]
  BY <1>1 DEF RequestOK
<1>3. /\ q.id = r.id /\ q.page = r.page /\ q.plat = r.plat /\ q.user = r.user /\ q.at = at
      /\ q = [id |-> q.id, page |-> q.page, plat |-> q.plat, user |-> q.user, at |-> q.at]
  BY <1>1
<1>4. RequestOK(q)
  BY <1>3 DEF RequestOK
<1> QED
  BY <1>2, <1>3, <1>4

LEMMA RequestsKeep ==
    ASSUME SignInInv, RequestsInv, ShownInv, CredentialNext
    PROVE  RequestsInv'
<1>1. CASE UNCHANGED <<requests, made, chain, held, pending>>
  <2>1. \A r : Progress(r)' = Progress(r)
    BY <1>1 DEF Progress
  <2> QED
    BY <1>1, <2>1 DEF RequestsInv
<1>2. ASSUME NEW w \in popups, onDiscordWindowMessage(w)
      PROVE  RequestsInv'
  <2>1. UNCHANGED <<chain, held, pending>> /\ w.user # Nobody
    BY <1>2 DEF onDiscordWindowMessage, chainVars, showVars
  <2>2. CASE Request(w.page, "discord", w.user)
    <3>1. w.page \in Pages /\ "discord" \in Platforms /\ w.user \in Users
      BY <2>1 DEF SignInInv, PopupOK, Pages, SignInPages, IssuerPages, Platforms
    <3> QED
      BY <2>1, <2>2, <3>1, RequestKeeps
  <2>3. CASE UNCHANGED requestVars
    BY <1>1, <2>1, <2>3 DEF requestVars
  <2> QED
    BY <1>2, <2>2, <2>3 DEF onDiscordWindowMessage
<1>3. ASSUME NEW p \in {"verifier", "telegram"}, NEW u \in Users, onTelegramAuth(p, u)
      PROVE  RequestsInv'
  <2>1. /\ p \in Pages /\ "telegram" \in Platforms /\ Request(p, "telegram", u)
        /\ UNCHANGED <<chain, held, pending>>
    BY <1>3 DEF onTelegramAuth, chainVars, showVars, Pages, IssuerPages, Platforms
  <2> QED
    BY <2>1, RequestKeeps
<1>4. ASSUME NEW r \in requests, requests' = requests \ {r}, made' = made,
             UNCHANGED <<chain, held, pending>>
      PROVE  RequestsInv'
  <2>1. chain' \in [Requests -> Transaction] /\ (r.id \in held' => chain'[r.id].status # "none")
    BY <1>4 DEF RequestsInv
  <2> QED
    BY <1>4, <2>1, RequestGoesOn
<1>5. ASSUME NEW r \in requests, \/ WalletNotReached(r) \/ NotAdded(r) \/ WaitFails(r)
                                 \/ Finalized(r)
      PROVE  RequestsInv'
  <2>1. requests' = requests \ {r} /\ made' = made /\ UNCHANGED <<chain, held, pending>>
    BY <1>5 DEF WalletNotReached, NotAdded, WaitFails, Finalized, Gone, chainVars, showVars
  <2> QED
    BY <1>4, <2>1
<1>6. ASSUME NEW r \in requests
      PROVE  /\ RequestOK(r) /\ Progress(r) /\ r.id \in Requests
             /\ chain \in [Requests -> Transaction]
             /\ r.id \in held => chain[r.id].status # "none"
  BY CredentialAssumption DEF RequestsInv, Requests
<1>7. ASSUME NEW r \in requests, WalletReached(r)
      PROVE  RequestsInv'
  <2>1. PICK q : /\ q = [r EXCEPT !.at = "wallet"] /\ RequestOK(q) /\ q.at = "wallet"
                 /\ q.id = r.id
    BY <1>6, AtOnly
  <2>2. /\ requests' = (requests \ {r}) \cup {q} /\ r.at = "connect" /\ made' = made
        /\ UNCHANGED <<chain, held, pending>>
    BY <1>7, <2>1 DEF WalletReached, MoveTo, chainVars, showVars
  <2>3. Progress(q)'
    BY <1>6, <2>1, <2>2 DEF Progress
  <2> QED
    BY <1>6, <2>1, <2>2, <2>3, RequestGoesOn
<1>8. ASSUME NEW r \in requests, Registered(r)
      PROVE  RequestsInv'
  <2>1. PICK q : /\ q = [r EXCEPT !.at = "registered"] /\ RequestOK(q) /\ q.at = "registered"
                 /\ q.id = r.id /\ q.plat = r.plat
    BY <1>6, AtOnly
  <2>2. PICK t : t = [plat |-> r.plat, user |-> Subject(r), status |-> "sent"]
    OBVIOUS
  <2>3. /\ requests' = (requests \ {r}) \cup {q} /\ r.at = "wallet" /\ made' = made
        /\ UNCHANGED <<held, pending>> /\ chain' = [chain EXCEPT ![r.id] = t]
    BY <1>8, <2>1, <2>2 DEF Registered, MoveTo, showVars
  <2>4. t \in Transaction /\ t.plat = r.plat /\ t.status = "sent"
    BY <1>6, <2>2 DEF Transaction, Subject, RequestOK, SignInInv
  <2>5. /\ chain' \in [Requests -> Transaction] /\ chain'[r.id] = t
        /\ \A i \in Requests : i # r.id => chain'[i] = chain[i]
    BY <1>6, <2>3, <2>4
  <2>6. Progress(q)'
    BY <2>1, <2>4, <2>5 DEF Progress
  <2>7. r.id \in held' => chain'[r.id].status # "none"
    BY <2>4, <2>5
  <2> QED
    BY <2>1, <2>3, <2>5, <2>6, <2>7, RequestGoesOn
<1>9. ASSUME NEW r \in requests, Added(r)
      PROVE  RequestsInv'
  <2>1. PICK q : /\ q = [r EXCEPT !.at = "wait"] /\ RequestOK(q) /\ q.at = "wait"
                 /\ q.id = r.id /\ q.plat = r.plat /\ q.page = r.page
    BY <1>6, AtOnly
  <2>2. /\ requests' = (requests \ {r}) \cup {q} /\ r.at = "registered" /\ made' = made
        /\ chain' = chain /\ held' = held \cup {r.id} /\ pending \subseteq pending'
        /\ r.page = "verifier" => r.plat \in pending'
    BY <1>9, <2>1 DEF Added, MoveTo
  <2>3. chain[r.id].plat = r.plat /\ chain[r.id].status # "none"
    BY <1>6, <2>2 DEF Progress
  <2>4. Progress(q)'
    BY <2>1, <2>2, <2>3 DEF Progress
  <2>5. /\ chain' \in [Requests -> Transaction]
        /\ \A i \in Requests : i # r.id => chain'[i] = chain[i]
        /\ held \subseteq held' /\ held' \subseteq held \cup {r.id}
        /\ r.id \in held' => chain'[r.id].status # "none"
    BY <1>6, <2>2, <2>3
  <2> QED
    BY <2>1, <2>2, <2>4, <2>5, RequestGoesOn
<1>10. ASSUME NEW i \in Requests, ChainFinalizes(i)
       PROVE  RequestsInv'
  <2>1. /\ chain' = [chain EXCEPT ![i] = [chain[i] EXCEPT !.status = "final"]]
        /\ UNCHANGED <<requests, made, held, pending>>
    BY <1>10 DEF ChainFinalizes, requestVars, showVars
  <2>2. chain \in [Requests -> Transaction] /\ chain[i] \in Transaction
    BY DEF RequestsInv
  <2>3. PICK t : t = [chain[i] EXCEPT !.status = "final"]
    OBVIOUS
  <2>4. t \in Transaction /\ t.plat = chain[i].plat /\ t.status = "final"
    BY <2>2, <2>3 DEF Transaction
  <2>5. /\ chain' \in [Requests -> Transaction]
        /\ \A j \in Requests : chain'[j].plat = chain[j].plat
        /\ \A j \in Requests : chain[j].status # "none" => chain'[j].status # "none"
    BY <2>1, <2>2, <2>3, <2>4
  <2>6. /\ \A r \in requests : r.id \in Requests
        /\ \A j \in held : j \in Requests
    BY CredentialAssumption DEF RequestsInv, Requests
  <2>7. \A r \in requests : Progress(r) => Progress(r)'
    BY <2>1, <2>5, <2>6 DEF Progress
  <2> QED
    BY <2>1, <2>5, <2>6, <2>7 DEF RequestsInv
<1>11. CASE \/ \E p \in SignInPages : openDiscordVerification(p)
            \/ \E w \in popups : SignInFails(w) \/ \E u \in Users : Redirected(w, u)
            \/ CloseModal \/ \E p \in IssuerPages : CloseToast(p)
  <2>1. UNCHANGED <<requestVars, chainVars, pending>>
    BY <1>11 DEF openDiscordVerification, SignInFails, Redirected, CloseModal, CloseToast, showVars
  <2> QED
    BY <1>1, <2>1 DEF requestVars, chainVars
<1> QED
  BY <1>2, <1>3, <1>5, <1>7, <1>8, <1>9, <1>10, <1>11 DEF CredentialNext

LEMMA ShownKeeps ==
    ASSUME RequestsInv, ShownInv, CredentialNext
    PROVE  ShownInv' /\ (checked' = checked \/ \E plat \in Platforms : checked' = checked \cup {plat})
<1> DEFINE Toast(h) == [transaction : h \cup {0}, status : {"none", "submitted", "finalized"},
                        show : BOOLEAN]
<1>1. toast \in [IssuerPages -> Toast(held)] /\ pending \subseteq Platforms /\ issued \subseteq pending
      /\ IssuedIsHeld
  BY DEF ShownInv
<1>2. CASE UNCHANGED <<chain, held, pending, issued, toast, checked>>
  BY <1>2 DEF ShownInv, IssuedIsHeld
<1>3. ASSUME NEW r \in requests
      PROVE  RequestOK(r) /\ Progress(r) /\ r.id \in Requests
  BY CredentialAssumption DEF RequestsInv, Requests
<1>4. /\ chain \in [Requests -> Transaction]
      /\ held \subseteq Requests
  BY CredentialAssumption DEF RequestsInv, Requests
<1>5. ASSUME NEW r \in requests, Registered(r)
      PROVE  ShownInv' /\ checked' = checked
  <2>1. r.id \notin held
    BY <1>3, <1>5 DEF Registered, Progress
  <2>2. /\ UNCHANGED <<held, pending, issued, toast, checked>>
        /\ \A i \in held : chain'[i] = chain[i]
    BY <1>4, <1>5, <2>1 DEF Registered, showVars
  <2>3. IssuedIsHeld'
    BY <1>1, <2>2 DEF IssuedIsHeld
  <2> QED
    BY <2>2, <2>3 DEF ShownInv
<1>6. ASSUME NEW r \in requests, Added(r)
      PROVE  ShownInv' /\ checked' = checked
  <2>1. /\ held' = held \cup {r.id} /\ UNCHANGED <<chain, issued, checked>>
        /\ IF r.page = "verifier"
           THEN pending' = pending \cup {r.plat} /\ UNCHANGED toast
           ELSE /\ toast' = [toast EXCEPT ![r.page] = [[toast[r.page] EXCEPT !.transaction = r.id]
                                                                   EXCEPT !.status = "submitted"]]
                /\ UNCHANGED pending
    BY <1>6 DEF Added
  <2>2. IssuedIsHeld'
    BY <1>1, <2>1 DEF IssuedIsHeld
  <2>3. RequestOK(r)
    BY <1>3
  <2>4. pending' \subseteq Platforms /\ issued' \subseteq pending'
    BY <1>1, <2>1, <2>3 DEF RequestOK
  <2>5. \A t \in Toast(held) : t \in Toast(held')
    BY <2>1
  <2>6. toast' \in [IssuerPages -> Toast(held')]
    <3>1. CASE r.page = "verifier"
      BY <1>1, <2>1, <2>5, <3>1
    <3>2. CASE r.page # "verifier"
      <4>1. r.page \in IssuerPages
        BY <2>3, <3>2 DEF RequestOK, Pages
      <4>2. [[toast[r.page] EXCEPT !.transaction = r.id] EXCEPT !.status = "submitted"]
            \in Toast(held')
        <5>1. toast[r.page] \in Toast(held) /\ r.id \in held'
          BY <1>1, <2>1, <4>1
        <5>2. [toast[r.page] EXCEPT !.transaction = r.id] \in Toast(held')
          BY <5>1
        <5> QED
          BY <5>2
      <4>3. \A p \in IssuerPages : toast[p] \in Toast(held')
        BY <1>1, <2>5
      <4> HIDE DEF Toast
      <4> QED
        BY <1>1, <2>1, <3>2, <4>2, <4>3
    <3> QED
      BY <3>1, <3>2
  <2> QED
    BY <2>1, <2>2, <2>4, <2>6 DEF ShownInv
<1>7. ASSUME NEW r \in requests, Finalized(r)
      PROVE  ShownInv' /\ (checked' = checked \/ \E plat \in Platforms : checked' = checked \cup {plat})
  <2>1. /\ UNCHANGED <<chain, held, pending>> /\ r.at = "wait" /\ chain[r.id].status = "final"
        /\ ReportFinalized(r)
    BY <1>7 DEF Finalized, chainVars
  <2>2. /\ chain[r.id].plat = r.plat /\ r.id \in held
        /\ r.page = "verifier" => r.plat \in pending
        /\ r.page \in Pages /\ r.plat \in Platforms
    BY <1>3, <2>1 DEF Progress, RequestOK
  <2>3. CASE r.page = "verifier"
    <3>1. issued' = issued \cup {r.plat} /\ checked' = checked \cup {r.plat} /\ UNCHANGED toast
      BY <2>1, <2>3 DEF ReportFinalized
    <3>2. IssuedIsHeld'
      BY <1>1, <2>1, <2>2, <3>1 DEF IssuedIsHeld
    <3> QED
      BY <2>1, <2>2, <2>3, <3>1, <3>2 DEF ShownInv
  <2>4. CASE r.page # "verifier"
    <3>1. /\ toast' = [toast EXCEPT ![r.page] = [toast[r.page] EXCEPT !.status = "finalized"]]
          /\ UNCHANGED <<issued, checked>>
      BY <2>1, <2>4 DEF ReportFinalized
    <3>2. r.page \in IssuerPages
      BY <2>2, <2>4 DEF Pages
    <3>3. [toast[r.page] EXCEPT !.status = "finalized"] \in Toast(held)
      BY <1>1, <3>2
    <3> HIDE DEF Toast
    <3>4. toast' \in [IssuerPages -> Toast(held)]
      BY <1>1, <3>1, <3>2, <3>3
    <3>5. IssuedIsHeld'
      BY <1>1, <2>1, <3>1 DEF IssuedIsHeld
    <3> QED
      BY <1>1, <2>1, <3>1, <3>4, <3>5 DEF ShownInv, Toast
  <2> QED
    BY <2>3, <2>4
<1>8. ASSUME NEW i \in Requests, ChainFinalizes(i)
      PROVE  ShownInv' /\ checked' = checked
  <2>1. /\ chain' = [chain EXCEPT ![i] = [chain[i] EXCEPT !.status = "final"]]
        /\ UNCHANGED <<held, pending, issued, toast, checked>>
    BY <1>8 DEF ChainFinalizes, showVars
  <2>2. chain[i] \in Transaction
    BY <1>4
  <2>3. PICK t : t = [chain[i] EXCEPT !.status = "final"]
    OBVIOUS
  <2>4. t.plat = chain[i].plat /\ t.status = "final"
    BY <2>2, <2>3 DEF Transaction
  <2>5. \A j \in Requests : /\ chain'[j].plat = chain[j].plat
                           /\ chain[j].status = "final" => chain'[j].status = "final"
    BY <1>4, <2>1, <2>3, <2>4
  <2>6. IssuedIsHeld'
    BY <1>1, <1>4, <2>1, <2>5 DEF IssuedIsHeld
  <2> QED
    BY <2>1, <2>6 DEF ShownInv
<1>9. ASSUME NEW p \in IssuerPages, CloseToast(p)
      PROVE  ShownInv' /\ checked' = checked
  <2>1. /\ toast' = [toast EXCEPT ![p] = [toast[p] EXCEPT !.show = FALSE]]
        /\ UNCHANGED <<chain, held, pending, issued, checked>>
    BY <1>9 DEF CloseToast, chainVars
  <2>2. [toast[p] EXCEPT !.show = FALSE] \in Toast(held)
    BY <1>1
  <2> HIDE DEF Toast
  <2>3. toast' \in [IssuerPages -> Toast(held)]
    BY <1>1, <2>1, <2>2
  <2>4. IssuedIsHeld'
    BY <1>1, <2>1 DEF IssuedIsHeld
  <2> QED
    BY <1>1, <2>1, <2>3, <2>4 DEF ShownInv, Toast
<1>10. CASE \/ \E p \in SignInPages : openDiscordVerification(p)
            \/ \E w \in popups : \/ SignInFails(w) \/ onDiscordWindowMessage(w)
                                  \/ \E u \in Users : Redirected(w, u)
            \/ \E p \in {"verifier", "telegram"}, u \in Users : onTelegramAuth(p, u)
            \/ \E r \in requests : \/ WalletReached(r) \/ WalletNotReached(r) \/ NotAdded(r)
                                    \/ WaitFails(r)
            \/ CloseModal
  <2>1. UNCHANGED <<chainVars, showVars>>
    BY <1>10 DEF openDiscordVerification, SignInFails, onDiscordWindowMessage, Redirected,
                 onTelegramAuth, WalletReached, WalletNotReached, NotAdded, WaitFails, CloseModal
  <2> QED
    BY <1>2, <2>1 DEF chainVars, showVars
<1> QED
  BY <1>5, <1>6, <1>7, <1>8, <1>9, <1>10 DEF CredentialNext

-----------------------------------------------------------------------------
(* The steps of the example verifier's page. *)

ProofOK(c) ==
    /\ c = [id |-> c.id, kind |-> c.kind, of |-> c.of, at |-> c.at]
    /\ \/ c.kind = "add" /\ Enough(c.of)
       \/ c.kind = "remove" /\ \E plat \in Platforms : c.of = {plat}

(* What is under way is what was confirmed, and the server's answer is about
   that. *)
ProvingInv ==
    /\ asked \in 0..MaxProofs
    /\ confirmed \in [Ids -> SUBSET Options] /\ accepted \in [Ids -> SUBSET Options]
    /\ \A c \in proofs : /\ ProofOK(c) /\ c.id \in 1..asked /\ c.of = confirmed[c.id]
                         /\ c.at = "ok" => accepted[c.id] = c.of
    /\ \A c, d \in proofs : c.id = d.id => c = d

StepsInv ==
    /\ step \in Steps \cup {"none"} /\ checked \subseteq Options
    /\ proofError = "few" => ~Enough(checked)
    /\ dialog \in [open : BOOLEAN, pending : BOOLEAN, removed : BOOLEAN, error : BOOLEAN]
    /\ opened \in 0..asked
    /\ SaysWhatIsDone

PageInv == ProvingInv /\ StepsInv

(* What issuing changes on the page is at most one box, which is ticked. *)
LEMMA CredentialKeeps ==
    ASSUME CredentialInv, CredentialNext
    PROVE  CredentialInv' /\ (checked' = checked \/ \E plat \in Platforms : checked' = checked \cup {plat})
BY SignInKeeps, RequestsKeep, ShownKeeps DEF CredentialInv

LEMMA CredentialStays ==
    ASSUME CredentialInv, UNCHANGED issuingVars, moves' = moves \/ Moves
    PROVE  CredentialInv'
<1>1. UNCHANGED <<session, signIn, popups, requests, made, chain, held, pending, issued, toast>>
  BY DEF issuingVars, signInVars, requestVars, chainVars
<1>2. SignInInv /\ RequestsInv /\ ShownInv
  BY DEF CredentialInv
<1>3. SignInInv'
  <2>1. moves \in Nat /\ signIn \in [SignInPages -> 0..moves]
    BY <1>2 DEF SignInInv
  <2>2. moves' = moves \/ moves' = moves + 1
    BY DEF Moves
  <2>3. moves' \in Nat /\ signIn' \in [SignInPages -> 0..moves']
    BY <1>1, <2>1, <2>2
  <2> QED
    BY <1>1, <1>2, <2>3 DEF SignInInv
<1>4. \A r : Progress(r)' = Progress(r)
  BY <1>1 DEF Progress
<1>5. RequestsInv'
  BY <1>1, <1>2, <1>4 DEF RequestsInv
<1>6. ShownInv'
  BY <1>1, <1>2 DEF ShownInv, IssuedIsHeld
<1> QED
  BY <1>3, <1>5, <1>6 DEF CredentialInv

(* The server accepted what was confirmed. *)
Stands(i, s) == i \in 1..asked /\ confirmed[i] = s /\ accepted[i] = s

LEMMA SaysStays ==
    ASSUME SaysWhatIsDone, opened \in 0..asked, asked \in Nat, asked' \in Nat,
           \A i, s : Stands(i, s) => Stands(i, s)',
           opened' = opened \/ opened' = 0 \/ \E i, s : opened' = i /\ Enough(s) /\ Stands(i, s)',
           dialog'.removed => dialog.removed \/ \E i : \E plat \in Platforms : Stands(i, {plat})'
    PROVE  SaysWhatIsDone' /\ opened' \in 0..asked'
<1>1. ASSUME opened' # 0
      PROVE  \E i, s : opened' = i /\ Enough(s) /\ Stands(i, s)'
  <2>1. ASSUME opened' = opened
        PROVE  \E i, s : opened' = i /\ Enough(s) /\ Stands(i, s)
    BY <1>1, <2>1 DEF SaysWhatIsDone, Stands
  <2> QED
    BY <1>1, <2>1
<1>2. ASSUME dialog'.removed
      PROVE  \E i : \E plat \in Platforms : Stands(i, {plat})'
  <2>1. dialog.removed => \E i : \E plat \in Platforms : Stands(i, {plat})
    BY DEF SaysWhatIsDone, Stands
  <2> QED
    BY <1>2, <2>1
<1>3. opened' \in 0..asked'
  <2>1. CASE opened' = 0
    BY <2>1
  <2>2. CASE opened' # 0
    BY <1>1, <2>2 DEF Stands
  <2> QED
    BY <2>1, <2>2
<1> QED
  <2>1. opened' # 0 => Enough(accepted'[opened']) /\ accepted'[opened'] = confirmed'[opened']
    BY <1>1 DEF Stands
  <2>2. dialog'.removed => \E i \in 1..asked' : \E plat \in Platforms :
                              confirmed'[i] = {plat} /\ accepted'[i] = {plat}
    BY <1>2 DEF Stands
  <2> QED
    BY <1>3, <2>1, <2>2 DEF SaysWhatIsDone, Enough

LEMMA AskForKeeps ==
    ASSUME ProvingInv, NEW kind, NEW of \in SUBSET Options, AskFor(kind, of),
           \/ kind = "add" /\ Enough(of)
           \/ kind = "remove" /\ \E plat \in Platforms : of = {plat}
    PROVE  /\ ProvingInv' /\ asked \in Nat /\ asked' \in Nat
           /\ \A i, s : Stands(i, s) => Stands(i, s)'
<1>1. PICK c : c = [id |-> asked + 1, kind |-> kind, of |-> of, at |-> "connect"]
  OBVIOUS
<1>2. /\ asked' = asked + 1 /\ asked < MaxProofs /\ proofs' = proofs \cup {c}
      /\ confirmed' = [confirmed EXCEPT ![asked + 1] = of] /\ accepted' = accepted
  BY <1>1 DEF AskFor
<1>3. asked \in Nat /\ asked' \in 0..MaxProofs /\ asked + 1 \in Ids /\ 1..asked \subseteq Ids
  BY <1>2, PageAssumption DEF ProvingInv, Ids
<1>4. /\ c.id = asked + 1 /\ c.kind = kind /\ c.of = of /\ c.at = "connect"
      /\ c = [id |-> c.id, kind |-> c.kind, of |-> c.of, at |-> c.at]
  BY <1>1
<1>5. ProofOK(c)
  BY <1>4 DEF ProofOK
<1>6. /\ confirmed' \in [Ids -> SUBSET Options] /\ confirmed'[asked + 1] = of
      /\ \A i \in 1..asked : confirmed'[i] = confirmed[i]
  BY <1>2, <1>3 DEF ProvingInv
<1>7. ASSUME NEW d \in proofs'
      PROVE  /\ ProofOK(d) /\ d.id \in 1..asked' /\ d.of = confirmed'[d.id]
             /\ d.at = "ok" => accepted'[d.id] = d.of
  <2>1. CASE d = c
    BY <1>2, <1>3, <1>4, <1>5, <1>6, <2>1
  <2>2. CASE d \in proofs
    <3>1. /\ ProofOK(d) /\ d.id \in 1..asked /\ d.of = confirmed[d.id]
          /\ d.at = "ok" => accepted[d.id] = d.of
      BY <2>2 DEF ProvingInv
    <3> QED
      BY <1>2, <1>3, <1>6, <3>1
  <2> QED
    BY <1>2, <2>1, <2>2
<1>8. \A d \in proofs : d.id # c.id
  BY <1>3, <1>4 DEF ProvingInv
<1>9. \A d, e \in proofs' : d.id = e.id => d = e
  BY <1>2, <1>8 DEF ProvingInv
<1>10. ProvingInv'
  <2>1. accepted' \in [Ids -> SUBSET Options]
    BY <1>2 DEF ProvingInv
  <2> QED
    BY <1>3, <1>6, <1>7, <1>9, <2>1 DEF ProvingInv
<1>11. \A i, s : Stands(i, s) => Stands(i, s)'
  BY <1>2, <1>3, <1>6 DEF Stands
<1> QED
  BY <1>3, <1>10, <1>11

(* A proof goes on, or ends; only what was confirmed can have been accepted. *)
LEMMA ProofGoesOn ==
    ASSUME ProvingInv, NEW c \in proofs, NEW q, q.id = c.id,
           asked' = asked, confirmed' = confirmed,
           proofs' \subseteq (proofs \ {c}) \cup {q},
           q \in proofs' => ProofOK(q) /\ q.of = c.of /\ (q.at = "ok" => accepted'[q.id] = q.of),
           accepted' = accepted \/ accepted' = [accepted EXCEPT ![c.id] = c.of]
    PROVE  ProvingInv' /\ asked \in Nat /\ \A i, s : Stands(i, s) => Stands(i, s)'
<1>1. /\ asked \in Nat /\ asked \in 0..MaxProofs /\ 1..asked \subseteq Ids
      /\ c.id \in 1..asked /\ c.of = confirmed[c.id] /\ c.id \in Ids
      /\ confirmed \in [Ids -> SUBSET Options] /\ accepted \in [Ids -> SUBSET Options]
  BY PageAssumption DEF ProvingInv, Ids
<1>2. /\ accepted' \in [Ids -> SUBSET Options]
      /\ accepted'[c.id] \in {accepted[c.id], c.of}
      /\ \A i \in Ids : i # c.id => accepted'[i] = accepted[i]
  BY <1>1
<1>3. \A d \in proofs' : (d \in proofs /\ d.id # c.id) \/ d = q
  BY DEF ProvingInv
<1>4. ASSUME NEW d \in proofs'
      PROVE  /\ ProofOK(d) /\ d.id \in 1..asked /\ d.of = confirmed[d.id]
             /\ d.at = "ok" => accepted'[d.id] = d.of
  <2>1. CASE d = q
    BY <1>1, <2>1
  <2>2. CASE d \in proofs /\ d.id # c.id
    <3>1. /\ ProofOK(d) /\ d.id \in 1..asked /\ d.of = confirmed[d.id]
          /\ d.at = "ok" => accepted[d.id] = d.of
      BY <2>2 DEF ProvingInv
    <3> QED
      BY <1>1, <1>2, <2>2, <3>1
  <2> QED
    BY <1>3, <2>1, <2>2
<1>5. \A d, e \in proofs' : d.id = e.id => d = e
  BY <1>3 DEF ProvingInv
<1>6. ProvingInv'
  BY <1>1, <1>2, <1>4, <1>5 DEF ProvingInv
<1>7. \A i, s : Stands(i, s) => Stands(i, s)'
  BY <1>1, <1>2 DEF Stands
<1> QED
  BY <1>1, <1>6, <1>7

(* The wallet and the server. *)
LEMMA ProvingKeeps ==
    ASSUME ProvingInv, StepsInv, NEW c \in proofs, ProvingStep(c)
    PROVE  ProvingInv' /\ StepsInv' /\ UNCHANGED issuingVars /\ moves' = moves
<1>1. /\ ProofOK(c) /\ c.id \in 1..asked /\ c.of = confirmed[c.id]
      /\ c.at = "ok" => accepted[c.id] = c.of
      /\ asked \in Nat
  BY PageAssumption DEF ProvingInv
<1>2. UNCHANGED <<issuingVars, moves, checked, notice, asked, confirmed>>
  BY DEF ProvingStep, ProverReached, ProverNotReached, Sent, Answered, Interrupted, verifyVars
<1> DEFINE Dialogs == [open : BOOLEAN, pending : BOOLEAN, removed : BOOLEAN, error : BOOLEAN]
<1>3. /\ step \in Steps \cup {"none"} /\ checked \subseteq Options
      /\ proofError = "few" => ~Enough(checked)
      /\ dialog \in Dialogs /\ opened \in 0..asked /\ SaysWhatIsDone
  BY DEF StepsInv
<1>4. ASSUME ProvingInv', \A i, s : Stands(i, s) => Stands(i, s)',
             step' \in Steps \cup {"none"}, proofError' = "few" => proofError = "few",
             dialog' \in Dialogs,
             opened' = opened \/ opened' = 0 \/ \E i, s : opened' = i /\ Enough(s) /\ Stands(i, s)',
             dialog'.removed => dialog.removed \/ \E i : \E plat \in Platforms : Stands(i, {plat})'
      PROVE  ProvingInv' /\ StepsInv'
  <2>1. SaysWhatIsDone' /\ opened' \in 0..asked'
    BY <1>1, <1>2, <1>3, <1>4, SaysStays
  <2> QED
    BY <1>2, <1>3, <1>4, <2>1 DEF StepsInv
<1>5. CASE ProverReached(c)
  <2>1. PICK q : q = [[c EXCEPT !.at = "wallet"] EXCEPT !.of = requestProof(c)]
    OBVIOUS
  <2>2. ProofOK(q) /\ q.id = c.id /\ q.of = c.of /\ q.at = "wallet"
    BY <1>1, <2>1 DEF ProofOK, requestProof
  <2>3. /\ proofs' = (proofs \ {c}) \cup {q} /\ accepted' = accepted
        /\ UNCHANGED <<step, proofError, opened, dialog>>
    BY <1>5, <2>1 DEF ProverReached, verifyVars, removalVars
  <2>4. ProvingInv' /\ \A i, s : Stands(i, s) => Stands(i, s)'
    BY <1>2, <2>2, <2>3, ProofGoesOn
  <2> QED
    BY <1>2, <1>3, <1>4, <2>3, <2>4
<1>6. ASSUME NEW answer \in {"ok", "rejected"}, Sent(c, answer)
      PROVE  ProvingInv' /\ StepsInv'
  <2>1. PICK q : q = [c EXCEPT !.at = answer]
    OBVIOUS
  <2>2. ProofOK(q) /\ q.id = c.id /\ q.of = c.of /\ q.at = answer
    BY <1>1, <2>1 DEF ProofOK
  <2>3. /\ proofs' = (proofs \ {c}) \cup {q}
        /\ accepted' = IF answer = "ok" THEN [accepted EXCEPT ![c.id] = c.of] ELSE accepted
        /\ UNCHANGED <<step, proofError, opened, dialog>>
    BY <1>6, <2>1 DEF Sent, ProofAt, verifyVars, removalVars
  <2>4. q.at = "ok" => accepted'[q.id] = q.of
    <3>1. accepted \in [Ids -> SUBSET Options] /\ c.id \in Ids
      BY <1>1, PageAssumption DEF ProvingInv, Ids
    <3> QED
      BY <2>2, <2>3, <3>1
  <2>5. ProvingInv' /\ \A i, s : Stands(i, s) => Stands(i, s)'
    BY <1>2, <2>2, <2>3, <2>4, ProofGoesOn
  <2> QED
    BY <1>2, <1>3, <1>4, <2>3, <2>5
<1>7. ASSUME ProverNotReached(c) \/ Answered(c) \/ Interrupted(c)
      PROVE  ProvingInv' /\ StepsInv'
  <2>1. proofs' = proofs \ {c} /\ accepted' = accepted
    BY <1>7 DEF ProverNotReached, Answered, Interrupted, Ended
  <2>2. ProvingInv' /\ \A i, s : Stands(i, s) => Stands(i, s)'
    BY <1>2, <2>1, ProofGoesOn
  <2>3. ASSUME c.at = "ok" PROVE Stands(c.id, c.of)'
    BY <1>1, <1>2, <2>1, <2>3 DEF Stands
  <2>4. CASE ProverNotReached(c) \/ Fails(c, "rejected") \/ Fails(c, "failed")
    <3>1. /\ UNCHANGED <<step, opened>>
          /\ proofError' # "few" \/ proofError' = proofError
          /\ \/ dialog' = dialog \/ dialog' = [dialog EXCEPT !.error = TRUE]
             \/ dialog' = [dialog EXCEPT !.pending = FALSE, !.error = TRUE]
      BY <2>4 DEF ProverNotReached, Fails
    <3>2. dialog' \in Dialogs /\ dialog'.removed = dialog.removed
      BY <1>3, <3>1
    <3> QED
      BY <1>3, <1>4, <2>2, <3>1, <3>2
  <2>5. CASE c.at = "ok" /\ Succeeds(c) /\ c.kind = "add"
    <3>1. proofError' = "" /\ step' = "check" /\ opened' = c.id /\ dialog' = dialog
      BY <2>5 DEF Succeeds
    <3>2. Enough(c.of)
      BY <1>1, <2>5 DEF ProofOK
    <3>3. "check" \in Steps
      BY DEF Steps
    <3> QED
      BY <1>3, <1>4, <2>2, <2>3, <2>5, <3>1, <3>2, <3>3
  <2>6. CASE c.at = "ok" /\ Succeeds(c) /\ c.kind # "add"
    <3>1. /\ UNCHANGED <<proofError, step, opened>>
          /\ dialog' = [dialog EXCEPT !.pending = FALSE, !.removed = TRUE]
      BY <2>6 DEF Succeeds
    <3>2. PICK plat \in Platforms : c.of = {plat}
      BY <1>1, <2>6 DEF ProofOK
    <3>3. dialog' \in Dialogs
      BY <1>3, <3>1
    <3>4. \E i : \E p \in Platforms : Stands(i, {p})'
      BY <2>3, <2>6, <3>2
    <3> HIDE DEF Dialogs
    <3> QED
      BY <1>3, <1>4, <2>2, <3>1, <3>3, <3>4
  <2> QED
    BY <1>7, <2>4, <2>5, <2>6 DEF Answered, Interrupted, Show
<1> QED
  BY <1>2, <1>5, <1>6, <1>7 DEF ProvingStep

(* The boxes, the steps and the dialogs. *)
LEMMA PageKeeps ==
    ASSUME CredentialInv, ProvingInv, StepsInv, VerifierPageNext
    PROVE  CredentialInv' /\ ProvingInv' /\ StepsInv'
<1> DEFINE Dialogs == [open : BOOLEAN, pending : BOOLEAN, removed : BOOLEAN, error : BOOLEAN]
<1>1. /\ step \in Steps \cup {"none"} /\ checked \subseteq Options
      /\ proofError = "few" => ~Enough(checked)
      /\ dialog \in Dialogs /\ opened \in 0..asked /\ SaysWhatIsDone
      /\ asked \in Nat /\ Platforms \subseteq Options /\ "few" # ""
  BY DEF StepsInv, ProvingInv, Options
<1>2. ASSUME \A i, s : Stands(i, s) => Stands(i, s)', asked' \in Nat,
             step' \in Steps \cup {"none"}, checked' \subseteq Options,
             proofError' = "few" => ~Enough(checked'),
             dialog' \in Dialogs, opened' = opened \/ opened' = 0,
             dialog'.removed => dialog.removed
      PROVE  StepsInv'
  <2>1. SaysWhatIsDone' /\ opened' \in 0..asked'
    BY <1>1, <1>2, SaysStays
  <2> QED
    BY <1>2, <2>1 DEF StepsInv, Enough
<1>3. UNCHANGED provingVars => ProvingInv' /\ asked' = asked /\ \A i, s : Stands(i, s) => Stands(i, s)'
  BY DEF provingVars, ProvingInv, Stands
<1>4. ASSUME CredentialNext,
             proofError' = (IF checked' = checked THEN proofError ELSE ClearsError(checked')),
             UNCHANGED <<step, notice, opened, removalVars, provingVars>>
      PROVE  CredentialInv' /\ ProvingInv' /\ StepsInv'
  <2>1. CredentialInv' /\ (checked' = checked \/ \E plat \in Platforms : checked' = checked \cup {plat})
    BY <1>4, CredentialKeeps
  <2>2. checked' \subseteq Options
    BY <1>1, <2>1
  <2>3. proofError' = "few" => ~Enough(checked')
    BY <1>1, <1>4, <2>1 DEF ClearsError
  <2> QED
    BY <1>1, <1>2, <1>3, <1>4, <2>1, <2>2, <2>3 DEF removalVars
<1>5. ASSUME NEW s \in Steps, toggle(s) \/ GoTo(s)
      PROVE  CredentialInv' /\ ProvingInv' /\ StepsInv'
  <2>1. /\ Moves /\ UNCHANGED <<issuingVars, checked, proofError, dialog, provingVars>>
        /\ step' \in {"none", s} /\ opened' = 0
    BY <1>5 DEF toggle, GoTo, PageMoves, removalVars
  <2> QED
    BY <1>1, <1>2, <1>3, <2>1, CredentialStays
<1>6. ASSUME NEW o \in Options, PlatformOption(o)
      PROVE  CredentialInv' /\ ProvingInv' /\ StepsInv'
  <2>1. /\ Moves /\ UNCHANGED <<issuingVars, step, opened, dialog, provingVars>>
        /\ checked' = (IF o \in checked THEN checked \ {o} ELSE checked \cup {o})
        /\ proofError' = ClearsError(checked')
    BY <1>6 DEF PlatformOption, PageMoves, removalVars
  <2>2. checked' \subseteq Options
    BY <1>1, <2>1
  <2>3. proofError' = "few" => ~Enough(checked')
    BY <1>1, <2>1 DEF ClearsError
  <2> QED
    BY <1>1, <1>2, <1>3, <2>1, <2>2, <2>3, CredentialStays
<1>7. CASE submitHandler \/ CloseNotice
  <2>1. /\ Moves \/ moves' = moves
        /\ UNCHANGED <<issuingVars, step, opened, dialog, provingVars, checked>>
        /\ proofError' = proofError \/ ~Enough(checked)
    BY <1>7 DEF submitHandler, CloseNotice, PageMoves, removalVars
  <2>2. proofError' = "few" => ~Enough(checked')
    BY <1>1, <2>1
  <2> QED
    BY <1>1, <1>2, <1>3, <2>1, <2>2, CredentialStays
<1>8. CASE prove
  <2>1. /\ Moves /\ UNCHANGED <<issuingVars, checked, step, opened, dialog>>
        /\ \/ Enough(checked) /\ AskFor("add", checked) /\ UNCHANGED proofError
           \/ ~Enough(checked) /\ UNCHANGED provingVars
    BY <1>8 DEF prove, removalVars
  <2>2. /\ ProvingInv' /\ asked' \in Nat /\ \A i, s : Stands(i, s) => Stands(i, s)'
    BY <1>1, <1>3, <2>1, AskForKeeps
  <2>3. proofError' = "few" => ~Enough(checked')
    BY <1>1, <2>1
  <2> QED
    BY <1>1, <1>2, <2>1, <2>2, <2>3, CredentialStays
<1>9. CASE OpenDialog \/ reset \/ SelectPlatform
  <2>1. /\ Moves \/ moves' = moves
        /\ UNCHANGED <<issuingVars, checked, step, opened, proofError, provingVars>>
        /\ \/ dialog' = [dialog EXCEPT !.open = TRUE] \/ dialog' = [dialog EXCEPT !.error = FALSE]
           \/ dialog' = [open |-> FALSE, pending |-> FALSE, removed |-> FALSE, error |-> FALSE]
    BY <1>9 DEF OpenDialog, reset, SelectPlatform, verifyVars
  <2>2. CASE dialog' = [dialog EXCEPT !.open = TRUE] \/ dialog' = [dialog EXCEPT !.error = FALSE]
    <3>1. dialog' \in Dialogs /\ dialog'.removed = dialog.removed
      BY <1>1, <2>2
    <3> QED
      BY <1>1, <1>2, <1>3, <2>1, <3>1, CredentialStays
  <2>3. CASE dialog' = [open |-> FALSE, pending |-> FALSE, removed |-> FALSE, error |-> FALSE]
    <3>1. dialog' \in Dialogs /\ dialog'.removed = FALSE
      BY <2>3
    <3> QED
      BY <1>1, <1>2, <1>3, <2>1, <3>1, CredentialStays
  <2> QED
    BY <2>1, <2>2, <2>3
<1>10. ASSUME NEW plat \in Platforms, submit(plat)
       PROVE  CredentialInv' /\ ProvingInv' /\ StepsInv'
  <2>1. /\ Moves /\ UNCHANGED <<issuingVars, checked, step, opened, proofError>>
        /\ dialog' = [dialog EXCEPT !.pending = TRUE] /\ AskFor("remove", {plat})
    BY <1>10 DEF submit, verifyVars
  <2>2. {plat} \in SUBSET Options
    BY <1>1
  <2>3. /\ ProvingInv' /\ asked' \in Nat /\ \A i, s : Stands(i, s) => Stands(i, s)'
    BY <2>1, <2>2, AskForKeeps
  <2>4. dialog' \in Dialogs /\ dialog'.removed = dialog.removed
    BY <1>1, <2>1
  <2> QED
    BY <1>1, <1>2, <2>1, <2>3, <2>4, CredentialStays
<1>11. ASSUME NEW c \in proofs, ProvingStep(c)
       PROVE  CredentialInv' /\ ProvingInv' /\ StepsInv'
  BY <1>11, ProvingKeeps, CredentialStays
<1> QED
  BY <1>4, <1>5, <1>6, <1>7, <1>8, <1>9, <1>10, <1>11 DEF VerifierPageNext

-----------------------------------------------------------------------------
(* Both. *)

DappsInv == ExplorerInv /\ CredentialInv /\ PageInv

(* A page as it is loaded: nothing is asked for, requested or sent. *)
LEMMA CredentialStartInv ==
    ASSUME NEW boxes, NEW done \in Nat, CredentialStart(boxes, done)
    PROVE  CredentialInv
<1>1. /\ moves = done /\ session = Nobody /\ signIn = [p \in SignInPages |-> 0] /\ popups = {}
      /\ requests = {} /\ made = 0 /\ held = {} /\ pending = {} /\ issued = {}
      /\ chain = [i \in Requests |-> [plat |-> "", user |-> Nobody, status |-> "none"]]
      /\ toast = [p \in IssuerPages |-> [transaction |-> 0, status |-> "none", show |-> TRUE]]
  BY DEF CredentialStart
<1>2. SignInInv
  <2>1. moves \in Nat /\ session = Nobody /\ popups = {} /\ signIn = [p \in SignInPages |-> 0]
    BY <1>1
  <2>2. signIn \in [SignInPages -> 0..moves]
    BY <2>1
  <2> QED
    BY <2>1, <2>2 DEF SignInInv
<1>3. RequestsInv
  <2>1. [plat |-> "", user |-> Nobody, status |-> "none"] \in Transaction
    BY DEF Transaction
  <2>2. chain \in [Requests -> Transaction]
    BY <1>1, <2>1
  <2>3. requests = {} /\ held = {} /\ made \in 0..MaxRequests
    <3>1. requests = {} /\ held = {} /\ made = 0
      BY <1>1
    <3> QED
      BY <3>1, CredentialAssumption
  <2> QED
    BY <2>2, <2>3 DEF RequestsInv
<1>4. ShownInv
  BY <1>1 DEF ShownInv, IssuedIsHeld
<1> QED
  BY <1>2, <1>3, <1>4 DEF CredentialInv

LEMMA PageStartInv ==
    ASSUME NEW reading, VerifierPageStart(reading), checked \subseteq Options
    PROVE  PageInv
<1>1. /\ step = "verify" /\ proofError = "" /\ opened = 0 /\ proofs = {} /\ asked = 0
      /\ dialog = [open |-> FALSE, pending |-> FALSE, removed |-> FALSE, error |-> FALSE]
      /\ confirmed = [i \in Ids |-> {}] /\ accepted = [i \in Ids |-> {}]
  BY DEF VerifierPageStart
<1>2. ProvingInv
  <2>1. proofs = {} /\ asked \in 0..MaxProofs
    <3>1. proofs = {} /\ asked = 0
      BY <1>1
    <3> QED
      BY <3>1, PageAssumption
  <2>2. confirmed \in [Ids -> SUBSET Options] /\ accepted \in [Ids -> SUBSET Options]
    BY <1>1
  <2> QED
    BY <2>1, <2>2 DEF ProvingInv
<1>3. /\ dialog \in [open : BOOLEAN, pending : BOOLEAN, removed : BOOLEAN, error : BOOLEAN]
      /\ dialog.removed = FALSE
  BY <1>1
<1>4. SaysWhatIsDone
  BY <1>1, <1>3 DEF SaysWhatIsDone
<1>5. StepsInv
  <2>1. step \in Steps \cup {"none"} /\ proofError # "few"
    BY <1>1 DEF Steps
  <2>2. opened \in 0..asked
    <3>1. opened = 0 /\ asked = 0
      BY <1>1
    <3> QED
      BY <3>1
  <2> QED
    BY <1>3, <1>4, <2>1, <2>2 DEF StepsInv
<1> QED
  BY <1>2, <1>5 DEF PageInv

LEMMA DappsInitInv == MCInit => DappsInv
<1> SUFFICES ASSUME MCInit
             PROVE  DappsInv
  OBVIOUS
<1>1. ExplorerInv
  <2>1. ExplorerInit \/ \E p \in {"browser", "mobile"}, col \in Columns : VerifierInit /\ Ready(p, col)
    BY DEF MCInit, ExplorerStarts, ExplorerUnused, Columns
  <2> QED
    BY <2>1, ExplorerInitInv
<1>2. VerifierPageInit \/ PageStarts
  BY DEF MCInit
<1>3. \/ CredentialInit /\ VerifierPageStart(FALSE)
      \/ CredentialStart({"discord", "name"}, 1) /\ VerifierPageStart(TRUE)
  BY <1>2 DEF VerifierPageInit, PageStarts
<1>4. CredentialInv
  BY <1>3, CredentialStartInv DEF CredentialInit
<1>5. checked \subseteq Options
  BY <1>3 DEF CredentialInit, CredentialStart, Options, Platforms
<1>6. PageInv
  BY <1>3, <1>5, PageStartInv
<1> QED
  BY <1>1, <1>4, <1>6 DEF DappsInv

LEMMA DappsKeep == DappsInv /\ [MCNext]_dappsVars => DappsInv'
<1> SUFFICES ASSUME DappsInv, [MCNext]_dappsVars
             PROVE  DappsInv'
  OBVIOUS
<1>1. ExplorerInv /\ CredentialInv /\ PageInv
  BY DEF DappsInv
<1>2. UNCHANGED explorerVars => ExplorerInv'
  BY <1>1, ExplorerKeeps
<1>3. UNCHANGED verifierPageVars => CredentialInv' /\ PageInv'
  <2> SUFFICES ASSUME UNCHANGED verifierPageVars
               PROVE  CredentialInv' /\ PageInv'
    OBVIOUS
  <2>1. UNCHANGED issuingVars /\ moves' = moves
    BY DEF verifierPageVars, credentialVars, showVars, issuingVars
  <2>2. UNCHANGED <<step, proofError, opened, checked, dialog, proofs, asked, confirmed, accepted>>
    BY DEF verifierPageVars, credentialVars, showVars, verifyVars, removalVars, provingVars
  <2>3. PageInv'
    BY <1>1, <2>2 DEF PageInv, ProvingInv, StepsInv, SaysWhatIsDone
  <2> QED
    BY <1>1, <2>1, <2>3, CredentialStays
<1>4. CASE ExplorerNext /\ UNCHANGED verifierPageVars
  BY <1>1, <1>3, <1>4, ExplorerKeeps DEF DappsInv
<1>5. CASE VerifierPageNext /\ UNCHANGED explorerVars
  BY <1>1, <1>2, <1>5, PageKeeps DEF DappsInv, PageInv
<1>6. CASE UNCHANGED dappsVars
  BY <1>2, <1>3, <1>6 DEF dappsVars, DappsInv
<1> QED
  BY <1>4, <1>5, <1>6 DEF MCNext

LEMMA PageShows ==
    ASSUME CredentialInv, PageInv
    PROVE  VerifierPageTypeOK /\ IssuedIsHeld /\ SaysWhatIsDone
<1>1. SignInInv /\ RequestsInv /\ ShownInv /\ ProvingInv /\ StepsInv
  BY DEF CredentialInv, PageInv
<1>2. /\ session \in Users \cup {Nobody} /\ signIn \in [SignInPages -> 0..moves]
      /\ \A w \in popups : w.state \in 1..signIn[w.page]
  BY <1>1 DEF SignInInv
<1>3. /\ \A r \in requests : r.id \in 1..made /\ r.user \in Users
      /\ \A r, q \in requests : r.id = q.id => r = q
      /\ \A r \in requests : r.at \in {"registered", "wait"} => chain[r.id].status # "none"
      /\ held \subseteq {i \in 1..made : chain[i].status # "none"}
  BY <1>1 DEF RequestsInv, RequestOK, Progress
<1>4. /\ \A p \in IssuerPages : toast[p].transaction \in held \cup {0}
      /\ pending \subseteq Platforms /\ issued \subseteq pending /\ IssuedIsHeld
  BY <1>1 DEF ShownInv
<1>5. CredentialTypeOK
  BY <1>2, <1>3, <1>4 DEF CredentialTypeOK
<1>6. \A c \in proofs : c.id \in 1..asked /\ (c.kind = "add" => Enough(c.of))
  BY <1>1 DEF ProvingInv, ProofOK
<1>7. \A c, d \in proofs : c.id = d.id => c = d
  BY <1>1 DEF ProvingInv
<1> QED
  BY <1>1, <1>4, <1>5, <1>6, <1>7 DEF VerifierPageTypeOK, StepsInv

(* The invariant holds of every run of the explorer and of the pages. *)
THEOREM DappsInvHolds == MCSpec => []DappsInv
BY DappsInitInv, DappsKeep, PTL DEF MCSpec

(* The variables of both have their types. *)
THEOREM DappsTypes == MCSpec => []DappsTypeOK
<1>1. DappsInv => DappsTypeOK
  BY ExplorerShows, PageShows DEF DappsInv, DappsTypeOK
<1> QED
  BY <1>1, DappsInvHolds, PTL

(* The proofs of the first flow that the explorer calls OK are valid, and
   there was one block, final when the proof was submitted or later, in which
   all its credentials were active. *)
THEOREM ExplorerOkWasActive == MCSpec => []OkWasActive
<1>1. DappsInv => OkWasActive
  BY ExplorerShows DEF DappsInv
<1> QED
  BY <1>1, DappsInvHolds, PTL

(* Those of the second flow are of the statements that a finalized transaction
   anchors. *)
THEOREM ExplorerOkWasAnchored == MCSpec => []OkWasAnchored
<1>1. DappsInv => OkWasAnchored
  BY ExplorerShows DEF DappsInv
<1> QED
  BY <1>1, DappsInvHolds, PTL

(* Where the page says that a credential is issued, the wallet holds one of
   that platform, and its transaction is final. *)
THEOREM PageIssuedIsHeld == MCSpec => []IssuedIsHeld
<1>1. DappsInv => IssuedIsHeld
  BY PageShows DEF DappsInv
<1> QED
  BY <1>1, DappsInvHolds, PTL

(* The last step is opened by a proof only where the server accepted what was
   confirmed; and what is called removed was. *)
THEOREM PageSaysWhatIsDone == MCSpec => []SaysWhatIsDone
<1>1. DappsInv => SaysWhatIsDone
  BY PageShows DEF DappsInv
<1> QED
  BY <1>1, DappsInvHolds, PTL
=============================================================================
