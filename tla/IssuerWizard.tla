---------------------------- MODULE IssuerWizard -----------------------------
(***************************************************************************)
(* The issuer front end (issuer-front-end): three steps in which an issuer *)
(* writes a schema and metadata, selects a network, and deploys a registry *)
(* contract.  A step's state is made when the step is shown and lost when  *)
(* it is left, while what it asked the wallet goes on; the schema object   *)
(* is a constant of the program that step 1 writes to, and outlives it.    *)
(***************************************************************************)
EXTENDS Integers

CONSTANTS Titles,         \* titles of attributes, spaces removed
          FormData,       \* what the metadata forms may hold
          ExampleData,    \* what they hold at first
          RevocationKeys,
          MaxActs,        \* bound: clicks after the wizard is opened
          MaxDeployments  \* bound: presses of Create New Issuer

ASSUME WizardAssumption == ExampleData \in FormData /\ MaxDeployments \in Nat

Deployments == 1..MaxDeployments
Files == {"credentialMetadata", "issuerMetadata"}

VARIABLES
    active, nextOff, previousOff, isTestnet, \* Root
    listed,    \* step 1: the attributes listed, [title, required]
    properties, required, \* of the constant schema object: titles
    metadata,  \* step 1: file -> the form's data last stored
    saved,     \* file -> what was last downloaded
    wallet,    \* step 3: connected
    balance,   \* of the account on the network selected
    revokers,  \* step 3: revocationKeys
    hash,      \* the deployment whose transaction hash is shown, or 0
    contract,  \* the deployment whose smartContractIndex is shown, or 0
    failed,    \* smartContractIndexError
    unread,    \* viewErrorModuleReference
    waiting,   \* waitingForTransactionToFinialize
    signing,   \* deployments the wallet has not answered
    orphaned,  \* those made by a step 3 that was left since
    polls,     \* deployments that an interval asks the node about
    asked,     \* questions the node has not answered
    chain,     \* the fate of each deployment's transaction
    presses, acts

rootVars   == <<active, nextOff, previousOff, isTestnet>>
schemaVars == <<listed, properties, required, metadata, saved>>
shownVars  == <<hash, contract, failed, unread, waiting>>
deployVars == <<wallet, balance, revokers, shownVars, signing, orphaned, polls, asked, presses>>
wizardVars == <<rootVars, schemaVars, deployVars, chain, acts>>

Acts == acts < MaxActs /\ acts' = acts + 1

-----------------------------------------------------------------------------
(* Step 1. *)

ListedTitles == {a.title : a \in listed}

(* Mutant: the attributes are added to those there are. *)
PropertiesAdded(titles) == properties \cup titles

(* addAttribute makes the schema's properties anew from the list... *)
PropertiesOf(titles) == titles

(* ...but only ever adds to `required`.  A title listed twice is refused. *)
AddAttribute ==
    /\ Acts /\ active = 1
    /\ \E t \in Titles \ ListedTitles, r \in BOOLEAN :
          /\ listed' = listed \cup {[title |-> t, required |-> r]}
          /\ properties' = PropertiesOf(ListedTitles \cup {t})
          /\ required' = required \cup IF r THEN {t} ELSE {}
    /\ UNCHANGED <<rootVars, metadata, saved, deployVars, chain>>

(* Clear attributes: the list and nothing else. *)
ClearAttributes == /\ Acts /\ active = 1 /\ listed # {}
                   /\ listed' = {}
                   /\ UNCHANGED <<rootVars, properties, required, metadata, saved,
                                  deployVars, chain>>

(* Create credential, or issuer, metadata. *)
CreateMetadata(f) ==
    /\ Acts /\ active = 1
    /\ \E d \in FormData : metadata' = [metadata EXCEPT ![f] = d]
    /\ UNCHANGED <<rootVars, listed, properties, required, saved, deployVars, chain>>

(* Download: the form is stored, and what was stored when the page was drawn
   is what goes into the file. *)
DownloadMetadata(f) ==
    /\ Acts /\ active = 1
    /\ \E d \in FormData : metadata' = [metadata EXCEPT ![f] = d]
    /\ saved' = [saved EXCEPT ![f] = metadata[f]]
    /\ UNCHANGED <<rootVars, listed, properties, required, deployVars, chain>>

-----------------------------------------------------------------------------
(* Step 2 and the buttons between steps. *)

SelectNetwork == /\ Acts /\ active = 2
                 /\ isTestnet' = ~isTestnet
                 /\ UNCHANGED <<active, nextOff, previousOff, schemaVars, deployVars, chain>>

(* updateProgress: what it first says of step 2 without a wallet the second
   part takes back. *)
UpdateProgress(a) == /\ previousOff' = IF a = 3 THEN previousOff ELSE a = 1
                     /\ nextOff' = (a = 3)

(* Leaving a step: a new one starts from nothing.  What is not answered yet
   belongs to components that are gone. *)
ForgetStep1 == /\ listed' = {} /\ metadata' = [f \in Files |-> ExampleData]
               /\ UNCHANGED <<properties, required, saved>>

ForgetStep3 == /\ wallet' = FALSE /\ balance' = "none" /\ revokers' = {}
               /\ hash' = 0 /\ contract' = 0
               /\ failed' = FALSE /\ unread' = FALSE /\ waiting' = FALSE
               /\ polls' = {} /\ asked' = {}
               /\ orphaned' = orphaned \cup signing
               /\ UNCHANGED <<signing, presses>>

GoTo(a) ==
    /\ Acts
    /\ active' = a
    /\ UpdateProgress(a)
    /\ IF active = 1 THEN ForgetStep1 ELSE UNCHANGED schemaVars
    /\ IF active = 3 THEN ForgetStep3 ELSE UNCHANGED deployVars
    /\ UNCHANGED <<isTestnet, chain>>

GoNext     == active < 3 /\ ~nextOff /\ GoTo(active + 1)
GoPrevious == active > 1 /\ ~previousOff /\ GoTo(active - 1)

-----------------------------------------------------------------------------
(* Step 3. *)

(* The button connects, and calls next, which stays on the last step.  The
   connection is awaited; it is answered here in the step that asks for it. *)
ConnectWallet == /\ Acts /\ active = 3 /\ ~wallet
                 /\ wallet' \in BOOLEAN
                 /\ UpdateProgress(3)
                 /\ UNCHANGED <<active, isTestnet, schemaVars, balance, revokers, shownVars,
                                signing, orphaned, polls, asked, presses, chain>>

(* The wallet goes away: the form and all it shows go with it. *)
WalletLeaves == /\ Acts /\ wallet
                /\ ForgetStep3
                /\ UNCHANGED <<rootVars, schemaVars, chain>>

(* getAccountInfo, at once and then every two seconds: an account that is not
   on the network selected is a failure. *)
ReadBalance == /\ wallet
               /\ balance' \in {"shown", "failed"} \ {balance}
               /\ UNCHANGED <<rootVars, schemaVars, wallet, revokers, shownVars, signing,
                              orphaned, polls, asked, presses, chain, acts>>

(* Add a key that is not listed and is one, or clear them. *)
EditRevocationKeys ==
    /\ Acts /\ wallet
    /\ revokers' \in {revokers \cup {k} : k \in RevocationKeys \ revokers} \cup ({{}} \ {revokers})
    /\ UNCHANGED <<rootVars, schemaVars, wallet, balance, shownVars, signing, orphaned, polls,
                   asked, presses, chain>>

(* Mutant: the effect on the hash returns no cleanup. *)
PollAlso(h) == polls \cup {h}

(* The effect on the hash: an interval for it in place of the one before. *)
Poll(h) == {h} \ {0}

(* Create New Issuer: what was shown is cleared but for the two errors. *)
CreateNewIssuer ==
    /\ Acts /\ wallet /\ presses < MaxDeployments
    /\ presses' = presses + 1
    /\ hash' = 0 /\ contract' = 0 /\ waiting' = TRUE
    /\ polls' = Poll(0)
    /\ signing' = signing \cup {presses'}
    /\ UNCHANGED <<rootVars, schemaVars, wallet, balance, revokers, failed, unread, orphaned,
                   asked, chain>>

(* The wallet has sent the transaction. *)
Signed(d) ==
    /\ d \in signing
    /\ signing' = signing \ {d}
    /\ chain' = [chain EXCEPT ![d] = "sent"]
    /\ IF d \in orphaned THEN UNCHANGED <<hash, polls>> ELSE hash' = d /\ polls' = Poll(d)
    /\ UNCHANGED <<rootVars, schemaVars, wallet, balance, revokers, contract, failed, unread,
                   waiting, orphaned, asked, presses, acts>>

(* It was refused, or the issuer's key is not 64 characters: the error is
   kept for a dialog that nothing opens. *)
Refused(d) ==
    /\ d \in signing
    /\ signing' = signing \ {d}
    /\ waiting' = (waiting /\ d \in orphaned)
    /\ UNCHANGED <<rootVars, schemaVars, wallet, balance, revokers, hash, contract, failed,
                   unread, orphaned, polls, asked, presses, chain, acts>>

(* The chain finalizes the transaction, unless it expires. *)
Finalized(d) == /\ chain[d] = "sent"
                /\ \E f \in {"initialized", "rejected"} : chain' = [chain EXCEPT ![d] = f]
                /\ UNCHANGED <<rootVars, schemaVars, deployVars, acts>>

(* An interval fires. *)
AskStatus(d) == /\ d \in polls \ asked
                /\ asked' = asked \cup {d}
                /\ UNCHANGED <<rootVars, schemaVars, wallet, balance, revokers, shownVars,
                               signing, orphaned, polls, presses, chain, acts>>

(* getBlockItemStatus answers: whatever is shown now, what is reported is the
   fate of the transaction asked about. *)
StatusRead(d) ==
    /\ d \in asked
    /\ asked' = asked \ {d}
    /\ unread' = FALSE
    /\ IF chain[d] = "sent" THEN UNCHANGED <<waiting, failed, contract>>
       ELSE /\ waiting' = FALSE
            /\ failed' = (chain[d] = "rejected")
            /\ contract' = IF chain[d] = "initialized" THEN d ELSE contract
    /\ UNCHANGED <<rootVars, schemaVars, wallet, balance, revokers, hash, signing, orphaned,
                   polls, presses, chain, acts>>

(* Or the node cannot be reached. *)
StatusFails(d) ==
    /\ d \in asked
    /\ asked' = asked \ {d}
    /\ unread' = TRUE
    /\ UNCHANGED <<rootVars, schemaVars, wallet, balance, revokers, hash, contract, failed,
                   waiting, signing, orphaned, polls, presses, chain, acts>>

-----------------------------------------------------------------------------
WizardInit ==
    /\ active = 1 /\ nextOff = FALSE /\ previousOff = TRUE /\ isTestnet = TRUE
    /\ listed = {} /\ properties = {} /\ required = {}
    /\ metadata = [f \in Files |-> ExampleData] /\ saved = [f \in Files |-> ExampleData]
    /\ wallet = FALSE /\ balance = "none" /\ revokers = {}
    /\ hash = 0 /\ contract = 0 /\ failed = FALSE /\ unread = FALSE /\ waiting = FALSE
    /\ signing = {} /\ orphaned = {} /\ polls = {} /\ asked = {}
    /\ chain = [d \in Deployments |-> "none"]
    /\ presses = 0 /\ acts = 0

FileStep == AddAttribute \/ ClearAttributes
            \/ \E f \in Files : CreateMetadata(f) \/ DownloadMetadata(f)

DeployStep == \/ ConnectWallet \/ WalletLeaves \/ ReadBalance \/ EditRevocationKeys
              \/ CreateNewIssuer
              \/ \E d \in Deployments : \/ Signed(d) \/ Refused(d) \/ Finalized(d)
                                        \/ AskStatus(d) \/ StatusRead(d) \/ StatusFails(d)

WizardNext == FileStep \/ SelectNetwork \/ GoNext \/ GoPrevious \/ DeployStep

(* The interval fires, and a node that is asked again and again answers
   again and again. *)
WizardFairness == \A d \in Deployments : /\ WF_wizardVars(AskStatus(d))
                                         /\ WF_wizardVars(StatusRead(d) \/ StatusFails(d))
                                         /\ SF_wizardVars(StatusRead(d))

-----------------------------------------------------------------------------
(* Type invariant, with what the navigation keeps: the buttons are off where
   there is nowhere to go and only there, and step 3's state is step 3's. *)
WizardTypeOK ==
    /\ active \in 1..3 /\ nextOff = (active = 3) /\ previousOff = (active = 1)
    /\ isTestnet \in BOOLEAN
    /\ listed \subseteq [title : Titles, required : BOOLEAN]
    /\ properties \subseteq Titles /\ required \subseteq Titles
    /\ metadata \in [Files -> FormData] /\ saved \in [Files -> FormData]
    /\ active # 3 => ~wallet
    /\ ~wallet => balance = "none" /\ revokers = {} /\ hash = 0 /\ polls = {} /\ ~waiting
    /\ signing \subseteq 1..presses /\ orphaned \subseteq 1..presses
    /\ hash \in 0..presses /\ contract \in 0..presses
    /\ polls \subseteq {hash} \ {0}
    /\ chain \in [Deployments -> {"none", "sent", "initialized", "rejected"}]

(* The schema object outlives the list that it is made from: after clearing
   the list, or leaving the step and coming back, attributes that were there
   may still be in it.  As soon as any attribute is listed, the schema that
   is shown and downloaded has the listed ones and no other, and requires at
   least those that are listed as required; and no title is listed twice. *)
SchemaHasWhatIsListed ==
    listed # {} => /\ properties = ListedTitles
                   /\ {a.title : a \in {x \in listed : x.required}} \subseteq required
                   /\ \A a, b \in listed : a.title = b.title => a = b

(* The step shows the fate of the deployment whose hash it shows.  A report
   about the one before may come in after that was cleared, and be shown beside
   the new hash.  Once the user stops: if the new deployment is initialized,
   the report on it replaces that for good.  If it is rejected, the page says
   so for good, but clears no index, so that the earlier one may stay beside
   the new hash and the error for good; what is then left there is the index
   of a deployment that the chain did initialize, never of one that was
   rejected. *)
DeploymentShown ==
    <>[]( /\ hash # 0 /\ chain[hash] = "initialized" => contract = hash /\ ~failed /\ ~waiting
          /\ hash # 0 /\ chain[hash] = "rejected"
             => failed /\ ~waiting /\ (contract # 0 => chain[contract] = "initialized") )
==============================================================================
