---------------------------- MODULE ProofExplorer -----------------------------
(***************************************************************************)
(* The proof explorer (test-tools/proof-explorer): the user puts together  *)
(* statements about credentials, one column of the page for each type of   *)
(* credential, asks a wallet to prove them, and has the proof verified.    *)
(* Proofs of the first version go to the generic verifier; those of the    *)
(* second are made for a request that is anchored on the chain before.     *)
(* While a wallet, the node or a verifier is awaited, the page goes on.    *)
(***************************************************************************)
EXTENDS PresentationVerifier, SequencesExt

CONSTANTS Idps,        \* identity providers
          Registries,  \* issuers' contracts
          MaxActs,     \* bound: what the user does
          MaxProves,   \* bound: presses of Prove and ProveV1
          MaxAnchors,  \* bound: anchor transactions
          None

Columns == {"web3id", "account", "id"}
Flows   == {"v0", "v1"}
Chains  == {"old", "new"}  \* CHAIN_ID_OLD and CHAIN_ID
SubjectClaimsType == {"AccountOrIdentityClaims", "OnlyAccountClaims", "OnlyIdentityClaims"}
Anchors == 1..MaxAnchors

VARIABLES
    provider,    \* the wallet in use: None, "browser" or "mobile"
    account,     \* wallet -> it has an account: connectedAccount
    topic,       \* the chain of the mobile wallet's session, or None
    chainID,     \* the chain its requests name
    connecting,  \* presses of the three connect buttons that are awaited
    leaving,     \* disconnect is under way
    idps,        \* the identity providers that are listed
    ticked,      \* column -> those ticked
    issuers,     \* the contracts typed in
    tags,        \* those whose attributes are offered
    fetching,    \* those whose schema is being fetched
    statement, currentType, lastAccount, newStatement,
    claimsType,
    anchor,      \* anchorTransactionHash: the submission, or 0
    result,      \* anchorSubmissionResult: a submission, "error" or None
    anchorCalls, \* submissions the wallet has not signed
    registered,  \* external: what each transaction sent anchors
    final,       \* external: the finalized ones
    calls,       \* proofs under way
    lines,       \* flow -> the messages: [id, text]
    current,     \* flow -> the call whose proof View Details shows, or 0
    open,        \* the flow whose details are open, or None
    raw,         \* flow -> the details are shown as raw data
    clipboard,
    crashed,     \* a render threw: the page is empty
    proved,      \* history: the proof of each call that had one
    acts, proves, submits

walletVars  == <<provider, account, topic, chainID, connecting, leaving>>
offerVars   == <<idps, ticked, issuers, tags, fetching>>
composeVars == <<statement, currentType, lastAccount, newStatement>>
anchorVars  == <<anchor, result, anchorCalls, registered, final, submits>>
proofVars   == <<calls, lines, current, proved, proves>>
detailVars  == <<open, raw, clipboard>>
pageVars == <<walletVars, offerVars, composeVars, claimsType, anchorVars, proofVars,
              detailVars, crashed, acts>>
explorerVars == <<verifierVars, pageVars>>

(* The details lie over the whole page. *)
UserActs == acts < MaxActs /\ acts' = acts + 1 /\ open = None

-----------------------------------------------------------------------------
(* Connecting a wallet. *)

(* Another wallet in the state runs the effect's cleanup, which disconnects
   the one before; the browser wallet has no disconnect. *)
SetProvider(p) == /\ provider' = p
                  /\ leaving' = (leaving \/ (provider = "mobile" /\ p # "mobile" /\ topic # None))

ConnectPressed(b) ==
    /\ UserActs
    /\ b \notin connecting
    /\ connecting' = connecting \cup {b}
    /\ chainID' = IF b \in Chains THEN b ELSE chainID
    /\ UNCHANGED <<provider, account, topic, leaving, offerVars, composeVars, claimsType,
                   anchorVars, proofVars, detailVars>>

BrowserConnected ==
    /\ "browser" \in connecting
    /\ connecting' = connecting \ {"browser"}
    /\ \E has \in BOOLEAN : account' = [account EXCEPT !["browser"] = has]
    /\ SetProvider("browser")
    /\ UNCHANGED <<topic, chainID, offerVars, composeVars, claimsType, anchorVars, proofVars,
                   detailVars, acts>>

(* The code was scanned and the session approved.  (There is always a code:
   no pairing is ever passed on.) *)
SessionApproved(b) ==
    /\ b \in connecting \cap Chains
    /\ connecting' = connecting \ {b}
    /\ topic' = b
    /\ account' = [account EXCEPT !["mobile"] = TRUE]
    /\ SetProvider("mobile")
    /\ UNCHANGED <<chainID, offerVars, composeVars, claimsType, anchorVars, proofVars,
                   detailVars, acts>>

(* A toast for the browser wallet, nothing for a mobile one. *)
ConnectFails(b) ==
    /\ b \in connecting
    /\ connecting' = connecting \ {b}
    /\ UNCHANGED <<provider, account, topic, chainID, leaving, offerVars, composeVars,
                   claimsType, anchorVars, proofVars, detailVars, acts>>

(* disconnect: whatever the session is by then, it is forgotten. *)
Disconnected ==
    /\ leaving /\ leaving' = FALSE
    /\ topic' = None
    /\ account' = [account EXCEPT !["mobile"] = FALSE]
    /\ UNCHANGED <<provider, chainID, connecting, offerVars, composeVars, claimsType,
                   anchorVars, proofVars, detailVars, acts>>

(* session_delete. *)
SessionDeleted ==
    /\ topic # None /\ topic' = None
    /\ account' = [account EXCEPT !["mobile"] = FALSE]
    /\ UNCHANGED <<provider, chainID, connecting, leaving, offerVars, composeVars, claimsType,
                   anchorVars, proofVars, detailVars, acts>>

(* accountChanged and accountDisconnected. *)
BrowserAccount ==
    /\ UserActs /\ provider = "browser"
    /\ account' = [account EXCEPT !["browser"] = ~@]
    /\ UNCHANGED <<provider, topic, chainID, connecting, leaving, offerVars, composeVars,
                   claimsType, anchorVars, proofVars, detailVars>>

-----------------------------------------------------------------------------
(* What the forms offer. *)

IdpsListed == /\ idps # Idps /\ idps' = Idps
              /\ UNCHANGED <<walletVars, ticked, issuers, tags, fetching, composeVars,
                             claimsType, anchorVars, proofVars, detailVars, acts>>

TickIdp(col, p) ==
    /\ UserActs /\ p \in idps
    /\ ticked' = [ticked EXCEPT ![col] = IF p \in @ THEN @ \ {p} ELSE @ \cup {p}]
    /\ UNCHANGED <<walletVars, idps, issuers, tags, fetching, composeVars, claimsType,
                   anchorVars, proofVars, detailVars>>

(* The effect on the list of issuers fetches their schemas, and does not stop
   the one that runs for the list before. *)
TypeIssuers ==
    /\ UserActs
    /\ issuers' \in (SUBSET Registries) \ {issuers}
    /\ tags' = {}
    /\ fetching' = fetching \cup issuers'
    /\ UNCHANGED <<walletVars, idps, ticked, composeVars, claimsType, anchorVars, proofVars,
                   detailVars>>

SchemaFetched(r) ==
    /\ r \in fetching
    /\ fetching' = fetching \ {r}
    /\ tags' \in {tags, tags \cup {r}}
    /\ UNCHANGED <<walletVars, idps, ticked, issuers, composeVars, claimsType, anchorVars,
                   proofVars, detailVars, acts>>

-----------------------------------------------------------------------------
(* Putting statements together. *)

StartsNew(col) == statement = <<>> \/ newStatement \/ lastAccount # (col # "web3id")

Allowed(col) == IF col = "web3id" THEN issuers ELSE ticked[col]

(* addWeb3IdStatement, addAccountStatement, addIdentityCredentialStatement:
   a column of another type than the current one gets a toast. *)
Add(col) ==
    /\ UserActs
    /\ currentType \in {None, col}
    /\ currentType' = col
    /\ IF StartsNew(col)
       THEN /\ statement' = Append(statement,
                                   [type |-> col, allowed |-> Allowed(col), atoms |-> {col}])
            /\ lastAccount' = (col # "web3id")
            /\ newStatement' = FALSE
       ELSE /\ statement' = [statement EXCEPT ![Len(statement)].atoms = @ \cup {col}]
            /\ UNCHANGED <<lastAccount, newStatement>>
    /\ UNCHANGED <<walletVars, offerVars, claimsType, anchorVars, proofVars, detailVars>>

(* The forms.  Where the inputs make no statement an exception is lost. *)
RevealAttribute(col)  == Add(col)
AttributeInRange(col) == Add(col)
AttributeInSet(col)   == Add(col)
AgeOrDocument(col)    == col # "web3id" /\ Add(col)

(* The set form parses the numbers of a numeric attribute as it is drawn: what
   is not a number takes the page down. *)
TypeSet == /\ UserActs /\ tags # {}
           /\ crashed' = TRUE
           /\ UNCHANGED <<walletVars, offerVars, composeVars, claimsType, anchorVars,
                          proofVars, detailVars>>

(* Start a new credential statement. *)
handleAddTopLevel ==
    /\ UserActs
    /\ newStatement' = TRUE /\ currentType' = None
    /\ UNCHANGED <<walletVars, offerVars, statement, lastAccount, claimsType, anchorVars,
                   proofVars, detailVars>>

(* Clear last credential statement. *)
ClearLast ==
    /\ UserActs
    /\ statement' = IF statement = <<>> THEN <<>> ELSE Front(statement)
    /\ currentType' = None
    /\ UNCHANGED <<walletVars, offerVars, lastAccount, newStatement, claimsType, anchorVars,
                   proofVars, detailVars>>

SelectSource ==
    /\ UserActs
    /\ claimsType' \in SubjectClaimsType \ {claimsType}
    /\ UNCHANGED <<walletVars, offerVars, composeVars, anchorVars, proofVars, detailVars>>

-----------------------------------------------------------------------------
(* The anchor. *)

(* getSubjectClaims: statements about other credentials are left out. *)
SubjectClaims == [source |-> claimsType,
                  of |-> SelectSeq(statement, LAMBDA s : s.type = "id")]

(* Only the browser wallet can send it.  The result shown stays until there
   is another. *)
SubmitAnchor ==
    /\ UserActs /\ submits < MaxAnchors
    /\ submits' = submits + 1
    /\ anchor' = IF provider = None THEN anchor ELSE 0
    /\ IF provider = "browser" /\ account["browser"] /\ statement # <<>>
       THEN /\ anchorCalls' = anchorCalls \cup {[id |-> submits', claims |-> SubjectClaims]}
            /\ UNCHANGED result
       ELSE result' = "error" /\ UNCHANGED anchorCalls
    /\ UNCHANGED <<walletVars, offerVars, composeVars, claimsType, registered, final,
                   proofVars, detailVars>>

AnchorSent(a) ==
    /\ anchorCalls' = anchorCalls \ {a}
    /\ registered' = With(registered, a.id, a.claims)
    /\ anchor' = a.id /\ result' = a.id
    /\ UNCHANGED <<walletVars, offerVars, composeVars, claimsType, final, submits, proofVars,
                   detailVars, acts>>

AnchorRefused(a) ==
    /\ anchorCalls' = anchorCalls \ {a}
    /\ result' = "error"
    /\ UNCHANGED <<walletVars, offerVars, composeVars, claimsType, anchor, registered, final,
                   submits, proofVars, detailVars, acts>>

AnchorFinalized(h) ==
    /\ h \in DOMAIN registered \ final
    /\ final' = final \cup {h}
    /\ UNCHANGED <<walletVars, offerVars, composeVars, claimsType, anchor, result, anchorCalls,
                   registered, submits, proofVars, detailVars, acts>>

-----------------------------------------------------------------------------
(* Proving. *)

Line(id, text) == [id |-> id, text |-> text]
Say(c, text) == lines' = [lines EXCEPT ![c.flow] = @ \cup {Line(c.id, text)}]

(* The request is refused before it leaves the page where there is no session,
   or one for another chain than is named. *)
Reachable == \/ provider = "browser"
             \/ provider = "mobile" /\ topic = chainID /\ account["mobile"]

Ask(c) ==
    /\ UserActs /\ proves < MaxProves /\ provider # None
    /\ proves' = proves + 1
    /\ IF Reachable THEN calls' = calls \cup {c} /\ UNCHANGED lines
       ELSE Say(c, "no proof") /\ UNCHANGED calls
    /\ UNCHANGED <<walletVars, offerVars, composeVars, claimsType, anchorVars, current, proved,
                   detailVars>>

(* What is asked is read when the button is pressed.  Where it cannot be, an
   exception is lost. *)
Prove   == /\ \A k \in DOMAIN statement : statement[k].type # "id"
           /\ Ask([id |-> proves + 1, flow |-> "v0", of |-> statement, anchor |-> 0,
                   at |-> "wallet"])
ProveV1 == /\ statement # <<>> /\ anchor # 0
           /\ Ask([id |-> proves + 1, flow |-> "v1", of |-> SubjectClaims, anchor |-> anchor,
                   at |-> "wallet"])

(* Refused, or not understood.  What is no Error is only logged. *)
WalletRefuses(c) ==
    /\ c.at = "wallet"
    /\ calls' = calls \ {c}
    /\ Say(c, "no proof") \/ UNCHANGED lines
    /\ UNCHANGED <<walletVars, offerVars, composeVars, claimsType, anchorVars, current, proved,
                   proves, detailVars, acts>>

(* A presentation, which goes to the verifier of its flow.  Nobody compares
   what it is about with what was asked. *)
WalletPresents(c) ==
    /\ c.at = "wallet"
    /\ calls' = (calls \ {c}) \cup {[c EXCEPT !.at = "verifier"]}
    /\ \E creds \in SUBSET Creds, p \in Proofs :
          /\ creds # {}
          /\ c.flow = "v1" \/ p # "valid" => creds = Creds
          /\ c.flow = "v1" => p # "unreadable"
          /\ proved' = With(proved, c.id, [creds |-> creds, proof |-> p, of |-> c.of,
                                            anchor |-> c.anchor, from |-> Len(blocks)])
          /\ jobs' = IF c.flow = "v0" THEN jobs \cup {Job(c.id, creds, p)} ELSE jobs
    /\ UNCHANGED <<impl, blocks, replies, walletVars, offerVars, composeVars, claimsType,
                   anchorVars, lines, current, proves, detailVars, acts>>

ReportOk(c) == Say(c, "OK") /\ current' = [current EXCEPT ![c.flow] = c.id]

(* The answer to /v0/verify.  A refusal whose body is no JSON is lost. *)
Verified(c) ==
    /\ c.flow = "v0" /\ c.at = "verifier"
    /\ calls' = calls \ {c}
    /\ \E r \in replies :
          /\ r.id = c.id
          /\ replies' = replies \ {r}
          /\ IF r.ok THEN ReportOk(c)
             ELSE /\ IF r.json THEN Say(c, "not OK") ELSE UNCHANGED lines
                  /\ UNCHANGED current
    /\ UNCHANGED <<impl, blocks, jobs, walletVars, offerVars, composeVars, claimsType,
                   anchorVars, proved, proves, detailVars, acts>>

(* External: the credential verification service, or the library, checks the
   proof and that its request is the one that the transaction anchors. *)
Matches(c) == /\ proved[c.id].proof = "valid"
              /\ c.anchor \in final /\ registered[c.anchor] = c.of

ResultsV1(c) == {"refused"} \cup IF Matches(c) THEN {"verified"} ELSE {"failed"}

(* Mutant: that the answer has the status 200 is enough. *)
AcceptedByStatus(r) == r # "refused"

(* The answer has the status 200 and reports no failure.  (Neither does one
   whose body is not JSON, and the page would take it for OK; it is assumed of
   the external service that a 200 comes with its result.) *)
Accepted(r) == r = "verified"

VerifiedV1(c) ==
    /\ c.flow = "v1" /\ c.at = "verifier"
    /\ calls' = calls \ {c}
    /\ \E r \in ResultsV1(c) : IF Accepted(r) THEN ReportOk(c)
                               ELSE Say(c, "not OK") /\ UNCHANGED current
    /\ UNCHANGED <<walletVars, offerVars, composeVars, claimsType, anchorVars, proved, proves,
                   detailVars, acts>>

(* The answer does not come back, or the library throws: nothing is said. *)
AnswerLost(c) ==
    /\ c.at = "verifier"
    /\ \A j \in jobs : j.id # c.id
    /\ calls' = calls \ {c}
    /\ replies' = {r \in replies : r.id # c.id}
    /\ UNCHANGED <<impl, blocks, jobs, walletVars, offerVars, composeVars, claimsType, anchorVars, lines, current,
                   proved, proves, detailVars, acts>>

ClearMessages ==
    /\ UserActs
    /\ lines' = [f \in Flows |-> {}]
    /\ UNCHANGED <<walletVars, offerVars, composeVars, claimsType, anchorVars, calls, current,
                   proved, proves, detailVars>>

-----------------------------------------------------------------------------
(* The details of a proof. *)

Oks(f) == {l.id : l \in {x \in lines[f] : x.text = "OK"}}

(* Every message that a proof is OK has the button, and all open the last. *)
ViewDetails(f) ==
    /\ UserActs /\ Oks(f) # {}
    /\ open' = f
    /\ UNCHANGED <<walletVars, offerVars, composeVars, claimsType, anchorVars, proofVars, raw,
                   clipboard>>

SwitchView ==
    /\ open # None
    /\ raw' = [raw EXCEPT ![open] = ~@]
    /\ UNCHANGED <<walletVars, offerVars, composeVars, claimsType, anchorVars, proofVars, open,
                   clipboard, acts>>

(* What is copied is an object without a toString. *)
CopyProof ==
    /\ open # None
    /\ clipboard' = "[object Object]"
    /\ UNCHANGED <<walletVars, offerVars, composeVars, claimsType, anchorVars, proofVars, open,
                   raw, acts>>

CloseDetails ==
    /\ open # None /\ open' = None
    /\ UNCHANGED <<walletVars, offerVars, composeVars, claimsType, anchorVars, proofVars, raw,
                   clipboard, acts>>

-----------------------------------------------------------------------------
ExplorerInit ==
    /\ VerifierInit
    /\ provider = None /\ account = [p \in {"browser", "mobile"} |-> FALSE]
    /\ topic = None /\ chainID = "new" /\ connecting = {} /\ leaving = FALSE
    /\ idps = {} /\ ticked = [c \in {"account", "id"} |-> {}]
    /\ issuers = {} /\ tags = {} /\ fetching = {}
    /\ statement = <<>> /\ currentType = None /\ lastAccount = TRUE /\ newStatement = TRUE
    /\ claimsType = "AccountOrIdentityClaims"
    /\ anchor = 0 /\ result = None /\ anchorCalls = {}
    /\ registered = <<>> /\ final = {}
    /\ calls = {} /\ lines = [f \in Flows |-> {}] /\ current = [f \in Flows |-> 0]
    /\ proved = <<>>
    /\ open = None /\ raw = [f \in Flows |-> FALSE] /\ clipboard = None
    /\ crashed = FALSE
    /\ acts = 0 /\ proves = 0 /\ submits = 0

WalletStep == \/ \E b \in {"browser"} \cup Chains : ConnectPressed(b) \/ ConnectFails(b)
              \/ BrowserConnected \/ \E b \in Chains : SessionApproved(b)
              \/ Disconnected \/ SessionDeleted \/ BrowserAccount

OfferStep == \/ IdpsListed \/ TypeIssuers \/ \E r \in Registries : SchemaFetched(r)
             \/ \E c \in {"account", "id"}, p \in Idps : TickIdp(c, p)

ComposeStep == \/ \E c \in Columns : \/ RevealAttribute(c) \/ AttributeInRange(c)
                                     \/ AttributeInSet(c) \/ AgeOrDocument(c)
               \/ handleAddTopLevel \/ ClearLast \/ SelectSource

AnchorStep == \/ SubmitAnchor \/ \E a \in anchorCalls : AnchorSent(a) \/ AnchorRefused(a)
              \/ \E h \in Anchors : AnchorFinalized(h)

ProofStep == \/ Prove \/ ProveV1 \/ ClearMessages
             \/ \E c \in calls : WalletRefuses(c) \/ VerifiedV1(c)

DetailStep == (\E f \in Flows : ViewDetails(f)) \/ SwitchView \/ CopyProof \/ CloseDetails

(* Steps of the page, of the page and its verifier, and of the verifier. *)
ExplorerNext ==
    \/ /\ ~crashed
       /\ \/ /\ \/ WalletStep \/ OfferStep \/ ComposeStep \/ AnchorStep \/ ProofStep
                \/ DetailStep
             /\ UNCHANGED <<verifierVars, crashed>>
          \/ TypeSet /\ UNCHANGED verifierVars
          \/ /\ \E c \in calls : WalletPresents(c) \/ Verified(c) \/ AnswerLost(c)
             /\ UNCHANGED crashed
    \/ VerifierNext /\ UNCHANGED pageVars

-----------------------------------------------------------------------------
(* Type invariant.  What the verifier handles, or has answered, is a call that
   waits for it or was given up, and it does not answer twice. *)
ExplorerTypeOK ==
    /\ provider \in {None, "browser", "mobile"} /\ topic \in Chains \cup {None}
    /\ topic # None => account["mobile"]
    /\ chainID \in Chains /\ connecting \subseteq {"browser"} \cup Chains
    /\ ticked["account"] \cup ticked["id"] \subseteq idps /\ tags \subseteq Registries
    /\ currentType \in Columns \cup {None}
    /\ \A k \in DOMAIN statement : statement[k].type \in Columns /\ statement[k].atoms # {}
    /\ anchor \in 0..submits /\ anchor # 0 => anchor \in DOMAIN registered
    /\ \A f \in Flows : current[f] \in 0..proves /\ Oks(f) \subseteq 1..proves
    /\ \A c \in calls : c.id \in 1..proves /\ c.at = "verifier" => c.id \in DOMAIN proved
    /\ {j.id : j \in jobs} \cap {r.id : r \in replies} = {}
    /\ \A j \in jobs : j.id \in 1..proves /\ DOMAIN j.seen \subseteq j.creds

(* The proofs that the page calls OK, or shows the details of. *)
CalledOk(f) == Oks(f) \cup ({current[f]} \ {0})

(* That a proof is OK means, for those of the first flow: the proof is valid,
   and there was one block, final when it was submitted or later, in which
   all its credentials were active together, however the chain went on
   between the lookups. *)
OkWasActive ==
    \A i \in CalledOk("v0") : /\ proved[i].proof = "valid"
                              /\ ActiveTogether(proved[i].creds, proved[i].from)

(* And for those of the second: the statements proved are the ones that a
   finalized transaction anchors, whatever was added, cleared, selected or
   anchored in between. *)
OkWasAnchored ==
    \A i \in CalledOk("v1") : /\ proved[i].proof = "valid"
                              /\ proved[i].of = registered[proved[i].anchor]
                              /\ proved[i].anchor \in final

(* The toast: mixing statement types is refused; clear the last credential
   statement or start a new one first. *)
StatementsNotMixed ==
    \A k \in DOMAIN statement : statement[k].atoms = {statement[k].type}
==============================================================================
