------------------------------ MODULE IssuerTool -----------------------------
(***************************************************************************)
(* The issuer test tool (test-tools/issuer-front-end): one page with a box *)
(* for every operation of a registry contract.  Its handlers run one at a  *)
(* time, but what they await - the wallet, the node, the backend, a schema *)
(* on the web - is answered in any order while the user goes on pressing   *)
(* buttons, changing the contract and switching accounts.                  *)
(***************************************************************************)
EXTENDS Integers

CONSTANTS Contracts,   \* indices of registry contracts
          Accounts,    \* the wallet's accounts
          Forms,       \* what the text fields and switches may hold, together
          Complete,    \* those with a key of 64 characters and both dates
          MaxEvents,   \* bound: what the user does
          None, Blank, \* Blank: the index 0 the page starts with, or no number
          Failed,      \* shown in place of what could not be read
          Example      \* the schema the attribute form starts with

ASSUME ToolAssumption == /\ MaxEvents \in Nat
                         /\ Complete \subseteq Forms
                         /\ {None, Blank, Failed, Example} \cap (Contracts \cup Accounts) = {}

Indices == Contracts \cup {Blank}
Presses == 1..MaxEvents

(* Where answers appear: the right column has that of a transaction, the box
   of step 5 that of a view. *)
Boxes == {"column", "entry"}

VARIABLES
    link,       \* the account of the wallet connection, or None
    index,      \* credentialRegistryContratIndex
    form,       \* the other inputs
    keys,       \* issuerKeys are there
    schema,     \* the contract whose schema URL and type the page has, or None
    manual,     \* manualCredentialType and manualCredentialSchema are there
    attributes, \* whose attributes the steps ask for: attributeSchema
    shown,      \* "contract": the state shown; "account": the balance shown
    timers,     \* what the intervals refresh
    reads,      \* reads under way; two of the same answer alike and count as one
    calls,      \* presses whose wallet, node or backend calls are under way
    value,      \* box -> the press whose hash or return value it holds, or 0
    error,      \* box -> the press whose error it holds, or 0
    key,        \* the offer whose credentialPublicKey is shown, or 0
    sent,       \* issueCredential transactions handed to the wallet by offers
    last,       \* history: box -> the latest press, [id, offer, over]: whether
                \* it offers a credential, and the presses then under way
    events      \* what the user did so far

toolVars == <<link, index, form, keys, schema, manual, attributes, shown, timers, reads,
              calls, value, error, key, sent, last, events>>

inputs  == <<link, index, form, timers>>
boxVars == <<value, error, last>>
readVars == <<schema, attributes, shown, reads>>

-----------------------------------------------------------------------------
(* Reads and their answers. *)

ContractRead(c) == [kind |-> "contract", of |-> c]
AccountRead(a)  == [kind |-> "account", of |-> a]
TypedRead(i)    == [kind |-> "typed", of |-> i]
SchemaRead(s)   == [kind |-> "schema", of |-> s]

Reads == {ContractRead(c) : c \in Contracts} \cup {AccountRead(a) : a \in Accounts}
         \cup {TypedRead(i) : i \in Indices} \cup {SchemaRead(s) : s \in Contracts \cup {Example}}

(* Mutant: the effects do not return a cleanup. *)
RestartKeeps(old, a, i) ==
    old \cup IF a = None THEN {}
             ELSE {AccountRead(a)} \cup IF i = Blank THEN {} ELSE {ContractRead(i)}

(* The effects on the connection and the index: each clears the interval it
   made before.  The index 0 is false, and is not refreshed. *)
Restart(old, a, i) ==
    IF a = None THEN {}
    ELSE {AccountRead(a)} \cup IF i = Blank THEN {} ELSE {ContractRead(i)}

(* An interval fires. *)
Refresh(t) == /\ t \in timers \ reads
              /\ reads' = reads \cup {t}
              /\ UNCHANGED <<inputs, keys, schema, manual, attributes, shown, calls, boxVars,
                             key, sent, events>>

(* registryMetadata for the index typed in: its schema and type are kept, and
   the schema is fetched.  Neither is dropped when the read fails. *)
TypedAnswered(i) ==
    /\ TypedRead(i) \in reads
    /\ \/ /\ i \in Contracts
          /\ shown' = [shown EXCEPT !["contract"] = i]
          /\ schema' = i
          /\ manual' = TRUE
          /\ reads' = (reads \ {TypedRead(i)}) \cup {SchemaRead(i)}
          /\ UNCHANGED attributes
       \/ /\ shown' = [shown EXCEPT !["contract"] = Failed]
          /\ attributes' = None
          /\ reads' = reads \ {TypedRead(i)}
          /\ UNCHANGED <<schema, manual>>
    /\ UNCHANGED <<inputs, keys, calls, boxVars, key, sent, events>>

(* extractFromSchema; that the example could not be fetched is only logged. *)
SchemaFetched(s) ==
    /\ SchemaRead(s) \in reads
    /\ attributes' \in {s, IF s = Example THEN attributes ELSE None}
    /\ reads' = reads \ {SchemaRead(s)}
    /\ UNCHANGED <<inputs, keys, schema, manual, shown, calls, boxVars, key, sent, events>>

(* The answer of an interval's registryMetadata. *)
ContractRefreshed(c) ==
    /\ ContractRead(c) \in reads
    /\ \/ /\ shown' = [shown EXCEPT !["contract"] = c]
          /\ UNCHANGED attributes
       \/ /\ shown' = [shown EXCEPT !["contract"] = Failed]
          /\ attributes' = None
    /\ reads' = reads \ {ContractRead(c)}
    /\ UNCHANGED <<inputs, keys, schema, manual, calls, boxVars, key, sent, events>>

(* The answer of getAccountInfo: the balance and the public key. *)
AccountRefreshed(a) ==
    /\ AccountRead(a) \in reads
    /\ \E got \in {a, Failed} : shown' = [shown EXCEPT !["account"] = got]
    /\ reads' = reads \ {AccountRead(a)}
    /\ UNCHANGED <<inputs, keys, schema, manual, attributes, calls, boxVars, key, sent, events>>

-----------------------------------------------------------------------------
(* What the user does; the steps are there only while an account is. *)

UserActs == events < MaxEvents /\ events' = events + 1

(* Connecting, disconnecting, or another account in the wallet.  An effect
   reads the new account at once. *)
Connect ==
    /\ UserActs
    /\ \E a \in (Accounts \cup {None}) \ {link} :
          /\ link' = a
          /\ timers' = Restart(timers, a, index)
          /\ reads' = reads \cup IF a = None THEN {} ELSE {AccountRead(a)}
    /\ UNCHANGED <<index, form, keys, schema, manual, attributes, shown, calls, boxVars, key, sent>>

(* Step 3: every keystroke starts a read. *)
TypeIndex ==
    /\ UserActs /\ link # None
    /\ \E i \in Indices \ {index} :
          /\ index' = i
          /\ timers' = Restart(timers, link, i)
          /\ reads' = reads \cup {TypedRead(i)}
    /\ UNCHANGED <<link, form, keys, schema, manual, attributes, shown, calls, boxVars, key, sent>>

(* Any other input field or switch. *)
EditForm ==
    /\ UserActs /\ link # None
    /\ form' \in Forms \ {form}
    /\ UNCHANGED <<link, index, timers, keys, readVars, manual, calls, boxVars, key, sent>>

(* The type and the schema of step 11, typed by hand. *)
TypeManual ==
    /\ UserActs /\ link # None
    /\ ~manual /\ manual' = TRUE
    /\ UNCHANGED <<inputs, keys, readVars, calls, boxVars, key, sent>>

(* Step 1; that the backend has no keys for the seed is shown nowhere. *)
CreateKeys ==
    /\ UserActs /\ link # None
    /\ keys' \in {keys, TRUE}
    /\ UNCHANGED <<inputs, readVars, manual, calls, boxVars, key, sent>>

-----------------------------------------------------------------------------
(* Presses that are one call: a transaction for the wallet to sign, or a
   view.  A missing input is an error before the call is made. *)

Call(kind, box) == [id |-> events + 1, kind |-> kind, box |-> box, of |-> index, form |-> form]

UnderWay == {c.id : c \in calls}

Latest(offer) == [id |-> events + 1, offer |-> offer, over |-> UnderWay]

Clear(box, offer) == /\ value' = [value EXCEPT ![box] = 0]
                     /\ last' = [last EXCEPT ![box] = Latest(offer)]

Press(box, complete) ==
    /\ UserActs /\ link # None
    /\ Clear(box, FALSE)
    /\ IF complete
       THEN error' = [error EXCEPT ![box] = 0] /\ calls' = calls \cup {Call("send", box)}
       ELSE error' = [error EXCEPT ![box] = events + 1] /\ UNCHANGED calls
    /\ UNCHANGED <<inputs, keys, readVars, manual, key, sent>>

CreateIssuer      == Press("column", keys)              \* step 2
ViewEntry         == Press("entry", form \in Complete)  \* step 5
RevokeCredential  == Press("column", form \in Complete) \* step 6
RestoreCredential == Press("column", form \in Complete) \* step 7
UpdateIssuerMetadata     == Press("column", TRUE)       \* step 8
UpdateCredentialSchema   == Press("column", TRUE)       \* step 9
UpdateCredentialMetadata == Press("column", form \in Complete) \* step 10

(* Step 11's second button: the key shown, for the index there is now. *)
IssueDelayed == Press("column", key # 0 /\ form \in Complete)

(* Mutant: the promise is not caught. *)
FailUnseen(c) == UNCHANGED <<value, error>>

(* The wallet has signed or refused, the node has answered or failed. *)
SucceedIn(c) == value' = [value EXCEPT ![c.box] = c.id] /\ UNCHANGED error
FailIn(c)    == error' = [error EXCEPT ![c.box] = c.id] /\ UNCHANGED value

Answered(c) ==
    /\ c \in calls /\ c.kind = "send"
    /\ calls' = calls \ {c}
    /\ SucceedIn(c) \/ FailIn(c)
    /\ UNCHANGED <<inputs, keys, readVars, manual, last, key, sent, events>>

-----------------------------------------------------------------------------
(* Presses that offer the wallet a credential, which calls back with its key
   when the user accepts it: steps 4, 11, 12 and 13. *)

(* The press clears the column and goes on to wait for a provider.  `ready`:
   what it checks first. *)
Offer(kind, ready) ==
    /\ UserActs /\ link # None
    /\ Clear("column", TRUE)
    /\ key' = 0
    /\ IF ready
       THEN error' = [error EXCEPT !["column"] = 0] /\ calls' = calls \cup {Call(kind, "column")}
       ELSE error' = [error EXCEPT !["column"] = events + 1] /\ UNCHANGED calls
    /\ UNCHANGED <<inputs, keys, readVars, manual, sent>>

Register        == Offer("register", schema # None)        \* step 4
RegisterLater   == Offer("later", TRUE)                    \* step 11
WrongProof      == Offer("wrongProof", schema # None)      \* step 12
WrongAttributes == Offer("wrongAttributes", schema # None) \* step 13

(* No provider, an attribute that does not parse, or the wallet or its user
   refuses, as the wallet should for wrong attributes: the console has the
   error and the column nothing.  (Of some attributes the test unit says why
   they do not parse.) *)
OfferDropped(c) ==
    /\ c \in calls /\ c.kind # "send"
    /\ calls' = calls \ {c}
    /\ UNCHANGED <<inputs, keys, readVars, manual, boxVars, key, sent, events>>

(* Step 11 needs the type and the schema once it has the provider. *)
ManualMissing(c) ==
    /\ c \in calls /\ c.kind = "later" /\ ~manual
    /\ calls' = calls \ {c}
    /\ FailIn(c)
    /\ UNCHANGED <<inputs, keys, readVars, manual, last, key, sent, events>>

(* Mutant: it reads the index there is now. *)
RegistrationNow(c) == [offer |-> c, contract |-> index, form |-> c.form]

(* What the callback registers: the closure has the index and the form of
   the press. *)
Registration(c) == [offer |-> c, contract |-> c.of, form |-> c.form]

(* The wallet calls back.  In step 11 the callback only has the commitments
   signed; in the others it sends issueCredential as well, and does not wait
   for it.  What the wallet makes of the signature is its own affair. *)
CredentialAccepted(c) ==
    /\ c \in calls /\ c.kind # "send"
    /\ c.kind = "later" => manual
    /\ key' = c.id
    /\ IF c.kind = "later" THEN calls' = calls \ {c} /\ UNCHANGED <<value, error, sent>>
       ELSE IF c.form \in Complete
       THEN /\ calls' = (calls \ {c}) \cup {[c EXCEPT !.kind = "send"]}
            /\ sent' = sent \cup {Registration(c)}
            /\ UNCHANGED <<value, error>>
       ELSE calls' = calls \ {c} /\ FailIn(c) /\ UNCHANGED sent
    /\ UNCHANGED <<inputs, keys, readVars, manual, last, events>>

-----------------------------------------------------------------------------
NoPress == [id |-> 0, offer |-> FALSE, over |-> {}]

(* The page once the wallet is connected to a, or not yet connected to any. *)
ToolInitWith(a) ==
    /\ link = a /\ index = Blank /\ timers = Restart({}, a, Blank)
    /\ form \in Complete
    /\ keys = FALSE /\ manual = FALSE /\ schema = None /\ attributes = None
    /\ shown = [w \in {"contract", "account"} |-> None]
    /\ reads = {SchemaRead(Example)} \cup timers
    /\ calls = {} /\ sent = {} /\ key = 0 /\ events = 0
    /\ value = [b \in Boxes |-> 0] /\ error = [b \in Boxes |-> 0]
    /\ last = [b \in Boxes |-> NoPress]

ToolInit == ToolInitWith(None)

ReadStep == \/ \E t \in timers : Refresh(t)
            \/ \E i \in Indices : TypedAnswered(i)
            \/ \E s \in Contracts \cup {Example} : SchemaFetched(s)
            \/ \E c \in Contracts : ContractRefreshed(c)
            \/ \E a \in Accounts : AccountRefreshed(a)

CallStep == \E c \in calls : \/ Answered(c) \/ OfferDropped(c)
                             \/ ManualMissing(c) \/ CredentialAccepted(c)

UserStep == \/ Connect \/ TypeIndex \/ EditForm \/ TypeManual \/ CreateKeys
            \/ CreateIssuer \/ ViewEntry \/ RevokeCredential \/ RestoreCredential
            \/ UpdateIssuerMetadata \/ UpdateCredentialSchema \/ UpdateCredentialMetadata
            \/ IssueDelayed \/ Register \/ RegisterLater \/ WrongProof \/ WrongAttributes

ToolNext == ReadStep \/ CallStep \/ UserStep

(* The browser's timers fire and the node answers or times out; nobody has
   to press anything, nor the wallet to decide. *)
ToolFairness ==
    /\ \A t \in Reads : WF_toolVars(Refresh(t))
    /\ \A i \in Indices : WF_toolVars(TypedAnswered(i))
    /\ \A c \in Contracts : WF_toolVars(ContractRefreshed(c))
    /\ \A a \in Accounts : WF_toolVars(AccountRefreshed(a))

ToolSpec == ToolInit /\ [][ToolNext]_toolVars /\ ToolFairness

-----------------------------------------------------------------------------
(* Type invariant; what answers there are come from presses made. *)
ToolTypeOK ==
    /\ link \in Accounts \cup {None} /\ index \in Indices /\ form \in Forms
    /\ keys \in BOOLEAN /\ manual \in BOOLEAN
    /\ schema \in Contracts \cup {None} /\ attributes \in Contracts \cup {None, Example}
    /\ shown["contract"] \in Contracts \cup {None, Failed}
    /\ shown["account"] \in Accounts \cup {None, Failed}
    /\ timers \subseteq Reads /\ reads \subseteq Reads
    /\ events \in 0..MaxEvents
    /\ \A b \in Boxes : value[b] \in 0..events /\ error[b] \in 0..events
    /\ key \in 0..events /\ UnderWay \subseteq 1..events

(* What a box shows: the hash or value, which hides the error. *)
Shown(b) == IF value[b] # 0 THEN value[b] ELSE error[b]

WasSent(id) == \E s \in sent : s.offer.id = id

(* The notes beside the buttons promise the hash or value, or an error.  Once
   the latest press of a box has ended the box shows an answer of it, or of a
   press that was still under way when it was made: nothing older is left
   standing.  It may be empty only if that press was the offer of a credential
   and did not become a transaction.  (So it is after a refusal, OfferDropped,
   which the notes of steps 4, 11 and 12 do not tell of.) *)
PressIsAnswered ==
    \A b \in Boxes : LET l == last[b] IN
        l.id # 0 /\ l.id \notin UnderWay
        => \/ Shown(b) \in {l.id} \cup l.over
           \/ Shown(b) = 0 /\ l.offer /\ ~WasSent(l.id)

(* What a callback registers goes to the contract that the credential it was
   called for names, with the form it was offered with, whatever the user has
   typed since; and of one press no two credentials are registered. *)
RegisteredAsOffered ==
    \A s \in sent : /\ s.contract = s.offer.of /\ s.form = s.offer.form
                    /\ \A t \in sent : t.offer.id = s.offer.id => t = s

(* The right column's heading: it refreshes to the contract and the account
   chosen.  When the user stops, answers for others that were still under way
   may be shown, and are replaced for good by one for these. *)
ShowsWhatIsChosen ==
    /\ <>[](link # None /\ index # Blank => shown["contract"] \in {index, Failed})
    /\ <>[](link # None => shown["account"] \in {link, Failed})
==============================================================================
