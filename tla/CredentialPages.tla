---------------------------- MODULE CredentialPages ---------------------------
(***************************************************************************)
(* How a person gets a credential: the frontends of the two example        *)
(* issuers and the first step of the example verifier's.  Each signs in    *)
(* with Discord, in a window of its own, or with Telegram, hands the       *)
(* account to the wallet, lets the wallet call back for the issuer's       *)
(* signature and waits for the transaction.  The three pages are open in   *)
(* one browser and share the Discord issuer's session cookie.              *)
(***************************************************************************)
EXTENDS Naturals, FiniteSets

CONSTANTS Users,       \* the accounts signed in with, all with a username
          Nobody,
          MaxMoves,    \* bound: what the person does
          MaxRequests  \* bound: credentials requested

ASSUME CredentialAssumption == MaxRequests \in Nat

Platforms   == {"discord", "telegram"}
IssuerPages == Platforms             \* one for each issuer
SignInPages == {"verifier", "discord"}
Requests    == 1..MaxRequests

VARIABLES
    session,    \* the user of the session cookie, or Nobody
    signIn,     \* page -> number of its last sign-in, 0 for none: oAuth2State
    popups,     \* windows: [page, state, user], user Nobody until redirected
    requests,   \* requestCredential under way: [id, page, plat, user, at]
    made,       \* how many there were
    showModal,  \* the verifier's page says that there is no wallet
    chain,      \* external: request -> [plat, user, status] of its transaction
    held,       \* external: requests whose credentials the wallet has
    pending, issued,  \* the verifier's page: platforms
    toast,      \* issuer's page -> [transaction, status, show]
    checked,    \* boxes of the verifier's second step
    moves

signInVars  == <<session, signIn, popups>>
reachVars   == <<showModal>>
chainVars   == <<chain, held>>
showVars    == <<pending, issued, toast, checked>>
requestVars == <<requests, made>>
credentialVars == <<signInVars, requestVars, reachVars, chainVars, showVars, moves>>

Moves == moves < MaxMoves /\ moves' = moves + 1

(* A platform of the verifier's page has its button until its transaction is
   sent.  (Another request may be under way by then.) *)
HasButton(p, plat) == p = "verifier" => plat \notin pending \cup issued

Request(p, plat, u) ==
    /\ made < MaxRequests /\ made' = made + 1
    /\ requests' = requests \cup
                     {[id |-> made', page |-> p, plat |-> plat, user |-> u, at |-> "connect"]}

-----------------------------------------------------------------------------
(* Signing in. *)

openDiscordVerification(p) ==
    /\ Moves /\ HasButton(p, "discord")
    /\ signIn' = [signIn EXCEPT ![p] = moves']
    /\ popups' = popups \cup {[page |-> p, state |-> moves', user |-> Nobody]}
    /\ UNCHANGED <<session, requestVars, reachVars, chainVars, showVars>>

(* handle_oauth_redirect: the issuer exchanges the code for the user, and the
   session is the user's from then on. *)
Redirected(w, u) ==
    /\ w.user = Nobody
    /\ session' = u
    /\ popups' = (popups \ {w}) \cup {[w EXCEPT !.user = u]}
    /\ UNCHANGED <<signIn, requestVars, reachVars, chainVars, showVars, moves>>

(* The window posts an error, which is ignored, or shows one of the issuer's,
   or is closed. *)
SignInFails(w) ==
    /\ w.user = Nobody
    /\ popups' = popups \ {w}
    /\ UNCHANGED <<session, signIn, requestVars, reachVars, chainVars, showVars, moves>>

(* The window posts the user and closes.  Only the last sign-in of a page is
   listened to. *)
onDiscordWindowMessage(w) ==
    /\ w.user # Nobody
    /\ popups' = popups \ {w}
    /\ IF w.state = signIn[w.page] THEN Request(w.page, "discord", w.user)
                                   ELSE UNCHANGED requestVars
    /\ UNCHANGED <<session, signIn, reachVars, chainVars, showVars, moves>>

(* Telegram's own button.  (Without a username: an alert, and no request.) *)
onTelegramAuth(p, u) ==
    /\ Moves /\ HasButton(p, "telegram")
    /\ Request(p, "telegram", u)
    /\ UNCHANGED <<signInVars, reachVars, chainVars, showVars>>

-----------------------------------------------------------------------------
(* requestCredential, from one await to the next. *)

MoveTo(r, at) == requests' = (requests \ {r}) \cup {[r EXCEPT !.at = at]}
Gone(r) == requests' = requests \ {r}

WalletReached(r) ==
    /\ r.at = "connect" /\ MoveTo(r, "wallet")
    /\ UNCHANGED <<signInVars, made, reachVars, chainVars, showVars, moves>>

(* There is no wallet, or the person refuses: an alert; the verifier's page
   says where to get a wallet.  That it connected before does not help: each
   render of that page, as on opening or closing the modal, forgets the
   wallet, which it keeps in a createRef. *)
WalletNotReached(r) ==
    /\ r.at = "connect" /\ Gone(r)
    /\ showModal' \in {showModal, r.page = "verifier" \/ showModal}
    /\ UNCHANGED <<signInVars, made, chainVars, showVars, moves>>

(* Whom the issuer takes the request to be from: the session's user, whoever
   it is by now, or Telegram's signed data. *)
Subject(r) == IF r.plat = "discord" THEN session ELSE r.user

(* The person accepts, the wallet calls back and the issuer registers. *)
Registered(r) ==
    /\ r.at = "wallet" /\ MoveTo(r, "registered")
    /\ chain' = [chain EXCEPT ![r.id] = [plat |-> r.plat, user |-> Subject(r), status |-> "sent"]]
    /\ UNCHANGED <<signInVars, made, reachVars, held, showVars, moves>>

(* Declined, refused by the issuer (429 or other), or the answer is lost: an
   alert.  What is registered stays. *)
NotAdded(r) ==
    /\ r.at \in {"wallet", "registered"} /\ Gone(r)
    /\ UNCHANGED <<signInVars, made, reachVars, chainVars, showVars, moves>>

(* External: the wallet takes a credential whose commitments are to the
   attributes the page named.  The page shows the transaction. *)
Added(r) ==
    /\ r.at = "registered" /\ chain[r.id].user = r.user
    /\ MoveTo(r, "wait")
    /\ held' = held \cup {r.id}
    /\ IF r.page = "verifier"
       THEN pending' = pending \cup {r.plat} /\ UNCHANGED toast
       ELSE /\ toast' = [toast EXCEPT ![r.page].transaction = r.id, ![r.page].status = "submitted"]
            /\ UNCHANGED pending
    /\ UNCHANGED <<signInVars, made, reachVars, chain, issued, checked, moves>>

(* External.  Nobody looks at the outcome. *)
ChainFinalizes(i) ==
    /\ chain[i].status = "sent"
    /\ chain' = [chain EXCEPT ![i].status = "final"]
    /\ UNCHANGED <<signInVars, requestVars, reachVars, held, showVars, moves>>

(* issueTelegram and issueDiscord, which also tick the platform's box; or
   onTransactionFinalized, of whichever transaction the toast shows. *)
ReportFinalized(r) ==
    IF r.page = "verifier"
    THEN issued' = issued \cup {r.plat} /\ checked' = checked \cup {r.plat} /\ UNCHANGED toast
    ELSE toast' = [toast EXCEPT ![r.page].status = "finalized"] /\ UNCHANGED <<issued, checked>>

(* Mutant: every error is taken for the end of the wait. *)
WaitGivenUp(r) ==
    /\ r.at = "wait"
    /\ Gone(r) /\ ReportFinalized(r)
    /\ UNCHANGED <<signInVars, made, reachVars, chainVars, pending, moves>>

(* NOT_FOUND is tried again until then. *)
Finalized(r) ==
    /\ r.at = "wait" /\ chain[r.id].status = "final"
    /\ Gone(r) /\ ReportFinalized(r)
    /\ UNCHANGED <<signInVars, made, reachVars, chainVars, pending, moves>>

(* Any other error: an alert, and the verifier's page stays pending. *)
WaitFails(r) ==
    /\ r.at = "wait" /\ Gone(r)
    /\ UNCHANGED <<signInVars, made, reachVars, chainVars, showVars, moves>>

-----------------------------------------------------------------------------
CloseModal == /\ Moves /\ showModal /\ showModal' = FALSE
              /\ UNCHANGED <<signInVars, requestVars, chainVars, showVars>>

(* It never opens again. *)
CloseToast(p) ==
    /\ Moves /\ toast[p].transaction # 0 /\ toast[p].show
    /\ toast' = [toast EXCEPT ![p].show = FALSE]
    /\ UNCHANGED <<signInVars, requestVars, reachVars, chainVars, pending, issued, checked>>

CredentialStart(boxes, done) ==
    /\ checked = boxes /\ moves = done
    /\ session = Nobody /\ signIn = [p \in SignInPages |-> 0] /\ popups = {}
    /\ requests = {} /\ made = 0 /\ showModal = FALSE
    /\ chain = [i \in Requests |-> [plat |-> "", user |-> Nobody, status |-> "none"]] /\ held = {}
    /\ pending = {} /\ issued = {}
    /\ toast = [p \in IssuerPages |-> [transaction |-> 0, status |-> "none", show |-> TRUE]]

CredentialInit == CredentialStart({}, 0)

CredentialNext ==
    \/ \E p \in SignInPages : openDiscordVerification(p)
    \/ \E w \in popups : \/ SignInFails(w) \/ onDiscordWindowMessage(w)
                         \/ \E u \in Users : Redirected(w, u)
    \/ \E p \in {"verifier", "telegram"}, u \in Users : onTelegramAuth(p, u)
    \/ \E r \in requests : \/ WalletReached(r) \/ WalletNotReached(r) \/ Registered(r)
                           \/ NotAdded(r) \/ Added(r) \/ Finalized(r) \/ WaitFails(r)
    \/ \E i \in Requests : ChainFinalizes(i)
    \/ CloseModal \/ \E p \in IssuerPages : CloseToast(p)

-----------------------------------------------------------------------------
(* Type invariant.  Every transaction shown or waited for was sent, and what
   the wallet has is on its way to the chain. *)
CredentialTypeOK ==
    /\ session \in Users \cup {Nobody} /\ signIn \in [SignInPages -> 0..moves]
    /\ \A w \in popups : w.state \in 1..signIn[w.page]
    /\ \A r \in requests : r.id \in 1..made /\ r.user \in Users
    /\ \A r, q \in requests : r.id = q.id => r = q
    /\ \A r \in requests : r.at \in {"registered", "wait"} => chain[r.id].status # "none"
    /\ held \subseteq {i \in 1..made : chain[i].status # "none"}
    /\ \A p \in IssuerPages : toast[p].transaction \in held \cup {0}
    /\ pending \subseteq Platforms /\ issued \subseteq pending

(* "Credential issued": the wallet holds a credential of that platform whose
   transaction is final, however sign-ins, requests and their failures
   overlap.  (Final, not accepted: the page does not look at the outcome.  And
   whose credential it is, Added settles.) *)
IssuedIsHeld ==
    \A plat \in issued : \E i \in held : chain[i].plat = plat /\ chain[i].status = "final"
==============================================================================
