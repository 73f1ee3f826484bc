---------------------------- MODULE SomeVerifier -----------------------------
(***************************************************************************)
(* The example verifier (examples/some-verifier/src/main.rs): requests to  *)
(* add and to remove a verification, each proved by a presentation of      *)
(* credentials, and the lookup of a user's verification.  A handler is     *)
(* several steps, for it awaits the node for the status of every           *)
(* credential, and then the database, while time passes, credentials are   *)
(* revoked and other requests are served.                                  *)
(***************************************************************************)
EXTENDS Integers, Sequences, FiniteSets, Functions

CONSTANTS Submissions,     \* requests to /verifications, POST or PATCH
          Lookups,         \* requests to /verifications/:platform/:id
          Ids,             \* users of the platforms
          Creds,           \* credentials on the chain
          Requests,        \* what is submitted: SUBSET Request
          MaxMinutes,      \* ten, in verify_request
          TicksPerMinute,  \* ticks of the clock in a minute
          MaxTime,         \* bound: ticks of the clock
          MaxEnded         \* bound: credentials that expire or are revoked

Platforms == {"telegram", "discord"}

(* A presentation proves statements about credentials.  Of a platform's
   credential the verifier wants two attributes revealed, the user and the
   name; of the holder's identity the first and the last name. *)
Web3Id  == [kind : {"web3id"}, contract : Platforms \cup {"other"}, id : Ids,
            cred : Creds, reveals : {"pair", "other"}]
Account == [kind : {"account"}, cred : Creds, tags : Seq({"first", "last", "other"})]

(* at: the timestamp; challenge: the presentation's context is its hash;
   proof: the proofs are valid. *)
Request == [method : {"add", "remove"}, stmts : Seq(Web3Id \cup Account),
            at : 0..MaxTime, challenge : BOOLEAN, proof : BOOLEAN]

(* "pending": not valid yet; "ended": expired or revoked. *)
Status == {"unknown", "pending", "active", "ended"}

ASSUME RequestsAssumption == Requests \subseteq Request
ASSUME HandlersAssumption == Submissions \cap Lookups = {}
ASSUME ClockAssumption == /\ MaxMinutes \in Nat /\ TicksPerMinute \in Nat \ {0}
                          /\ MaxTime \in Nat

VARIABLES
    now,      \* the time of the latest arrival
    status,   \* the chain: [Creds -> Status]
    sub,      \* what each submission asks: [Submissions -> Requests]
    phase,    \* its handler
    unread,   \* credentials whose status it is waiting for
    seen,     \* the statuses it has read
    reply,    \* its answer; "failed": a server error, or none in time
    before,   \* what was stored when its database call began
    stored,   \* the submissions that are verifications: SUBSET Submissions
    target,   \* whom each lookup is about: [Lookups -> Platforms \X Ids]
    look,     \* its handler
    found,    \* {v} for the verification it found, else {}
    answers,  \* what it learnt of each account: platform -> status or failure
    shown,    \* what the bot that made the lookup says
    activeIn, \* history: credentials active at some time while a handler runs
    storedIn  \* history: verifications there at some time while a lookup runs

chainVars   == <<now, status>>
handlerVars == <<phase, unread, seen, reply, before>>
lookupVars  == <<look, found, answers, shown, storedIn>>
vars == <<now, status, sub, phase, unread, seen, reply, before, stored, target, look,
          found, answers, shown, activeIn, storedIn>>

-----------------------------------------------------------------------------
(* What is read from a presentation. *)

(* Mutant: a second statement about a platform replaces the first. *)
AddReplacing(entry, s) ==
    IF s.kind = "web3id"
    THEN IF s.reveals = "pair" /\ s.contract \in Platforms /\ entry.valid
         THEN [entry EXCEPT ![s.contract] = {[plat |-> s.contract, id |-> s.id, cred |-> s.cred]}]
         ELSE [entry EXCEPT !.valid = FALSE]
    ELSE IF Range(s.tags) = {"first", "last"} /\ entry.name = {} /\ entry.valid
         THEN [entry EXCEPT !.name = {s.cred}]
         ELSE [entry EXCEPT !.valid = FALSE]

(* proof_to_verifications_entry: one statement for each platform, and one for
   the name.  Of the names nothing but first and last may be revealed, and
   both must be; `!proofs.len() == 2` negates the bits of the length and is
   never true. *)
AddStatement(entry, s) ==
    IF s.kind = "web3id"
    THEN IF /\ entry.valid
            /\ s.reveals = "pair"
            /\ s.contract \in Platforms
            /\ entry[s.contract] = {}
         THEN [entry EXCEPT ![s.contract] = {[plat |-> s.contract, id |-> s.id, cred |-> s.cred]}]
         ELSE [entry EXCEPT !.valid = FALSE]
    ELSE IF entry.valid /\ Range(s.tags) = {"first", "last"} /\ entry.name = {}
         THEN [entry EXCEPT !.name = {s.cred}]
         ELSE [entry EXCEPT !.valid = FALSE]

NoEntry == [valid |-> TRUE, telegram |-> {}, discord |-> {}, name |-> {}]

(* The loop over the statements. *)
Entry(stmts) ==
    LET after[i \in 0..Len(stmts)] ==
            IF i = 0 THEN NoEntry ELSE AddStatement(after[i - 1], stmts[i])
    IN  after[Len(stmts)]

(* The accounts a request is about, as rows of the database. *)
AccountsOf(q) ==
    LET s == sub[q].stmts
    IN  IF sub[q].method = "add" THEN Entry(s).telegram \cup Entry(s).discord
        ELSE {[plat |-> s[i].contract, id |-> s[i].id, cred |-> s[i].cred] :
                i \in {j \in 1..Len(s) : s[j].kind = "web3id"}}

CredsOf(q) == {sub[q].stmts[i].cred : i \in 1..Len(sub[q].stmts)}

(* add_verification goes on to the database ... *)
MayAdd(q) ==
    /\ sub[q].method = "add"
    /\ Len(sub[q].stmts) >= 2
    /\ Entry(sub[q].stmts).valid

(* ... and remove_verification does. *)
MayRemove(q) ==
    /\ sub[q].method = "remove"
    /\ Len(sub[q].stmts) = 1
    /\ sub[q].stmts[1].kind = "web3id"
    /\ sub[q].stmts[1].contract \in Platforms

Distance(a, b) == IF a < b THEN b - a ELSE a - b

(* num_minutes counts whole minutes: an age of less than a minute above the
   limit passes, although the doc of verify_request says that the timestamp is
   "no more than 10min from present". *)
Timely(q, t) == Distance(t, sub[q].at) \div TicksPerMinute <= MaxMinutes

(* The database, as VerificationStore promises it. *)
Store == INSTANCE VerificationStore
           WITH Requests <- Submissions,
                Accounts <- [plat : Platforms \cup {"other"}, id : Ids, cred : Creds],
                accounts <- [q \in Submissions |-> AccountsOf(q)]

(* Two verifications name the same user of a platform. *)
SameUser(q, v) ==
    \E a \in AccountsOf(q), b \in AccountsOf(v) : a.plat = b.plat /\ a.id = b.id

-----------------------------------------------------------------------------
(* Requests to add or to remove. *)

Answer(q, r) == /\ phase' = [phase EXCEPT ![q] = "done"]
                /\ reply' = [reply EXCEPT ![q] = r]
                /\ unread' = [unread EXCEPT ![q] = {}]
                /\ seen' = [seen EXCEPT ![q] = {}]
                /\ before' = [before EXCEPT ![q] = {}]
                /\ activeIn' = [activeIn EXCEPT ![q] = {}]

ActiveNow == {c \in Creds : status[c] = "active"}

(* The request arrives, later than the ones before it.  verify_request looks
   at the clock and the challenge before it asks the node. *)
Arrive(q) ==
    /\ phase[q] = "idle"
    /\ \E t \in now..MaxTime :
          /\ now' = t
          /\ IF Timely(q, t) /\ sub[q].challenge
             THEN /\ phase' = [phase EXCEPT ![q] = "reading"]
                  /\ unread' = [unread EXCEPT ![q] = CredsOf(q)]
                  /\ activeIn' = [activeIn EXCEPT ![q] = ActiveNow \cap CredsOf(q)]
                  /\ UNCHANGED <<seen, reply, before>>
             ELSE Answer(q, "refused")
    /\ UNCHANGED <<status, sub, stored, target, lookupVars>>

(* Mutant: a credential that is not on the chain has some status, too. *)
ReadStatusUnchecked(q) ==
    /\ phase[q] = "reading"
    /\ \E c \in unread[q] :
          /\ unread' = [unread EXCEPT ![q] = @ \ {c}]
          /\ seen' = [seen EXCEPT ![q] = @ \cup {status[c]}]
          /\ UNCHANGED <<phase, reply, before, activeIn>>
    /\ UNCHANGED <<chainVars, sub, stored, target, lookupVars>>

(* get_public_data: the status of every credential in the last final block,
   each by a call of its own. *)
ReadStatus(q) ==
    /\ phase[q] = "reading"
    /\ \E c \in unread[q] :
          IF status[c] = "unknown"
          THEN Answer(q, "refused")
          ELSE /\ unread' = [unread EXCEPT ![q] = @ \ {c}]
               /\ seen' = [seen EXCEPT ![q] = @ \cup {status[c]}]
               /\ UNCHANGED <<phase, reply, before, activeIn>>
    /\ UNCHANGED <<chainVars, sub, stored, target, lookupVars>>

(* A call to the node fails, or its timeout ends it. *)
NodeFails(q) ==
    /\ phase[q] = "reading"
    /\ Answer(q, "refused")
    /\ UNCHANGED <<chainVars, sub, stored, target, lookupVars>>

(* All are active and the proofs verify. *)
Verified(q) == /\ phase[q] = "reading" /\ unread[q] = {}
               /\ seen[q] \subseteq {"active"} /\ sub[q].proof

(* The rest of verify_request and what the handlers check by themselves, up
   to the call to the database. *)
Check(q) ==
    /\ phase[q] = "reading" /\ unread[q] = {}
    /\ IF Verified(q) /\ (MayAdd(q) \/ MayRemove(q))
       THEN /\ phase' = [phase EXCEPT ![q] = "storing"]
            /\ before' = [before EXCEPT ![q] = stored]
            /\ UNCHANGED <<unread, seen, reply, activeIn>>
       ELSE Answer(q, "refused")
    /\ UNCHANGED <<chainVars, sub, stored, target, lookupVars>>

(* Lookups under way see what is stored meanwhile. *)
Running(l) == look[l] \in {"asked", "resolving"}
Witness(s) == storedIn' = [l \in Lookups |-> IF Running(l) THEN storedIn[l] \cup s ELSE {}]

(* The database took the verification; its answer may be lost, or the handler
   dropped by its timeout before it comes. *)
Added(q) ==
    /\ phase[q] = "storing" /\ sub[q].method = "add"
    /\ Store!Replace(q)
    /\ Witness(stored')
    /\ \E r \in {"ok", "failed"} : Answer(q, r)
    /\ UNCHANGED <<chainVars, sub, target, look, found, answers, shown>>

(* A user of the request belongs to a verification that is not replaced: by
   another credential, or one that was stored since the call began. *)
Clash(q) ==
    /\ phase[q] = "storing" /\ sub[q].method = "add"
    /\ \E v \in stored : /\ SameUser(q, v)
                         /\ v \notin Store!SameCredential(AccountsOf(q)) \/ v \notin before[q]
    /\ Answer(q, "refused")
    /\ UNCHANGED <<chainVars, sub, stored, target, lookupVars>>

(* Mutant: what is removed is what is found at the platform's user. *)
RemovedByUser(q) ==
    /\ phase[q] = "storing" /\ sub[q].method = "remove"
    /\ stored' = stored \ {v \in stored : SameUser(q, v)}
    /\ \E r \in {IF stored' # stored THEN "ok" ELSE "refused", "failed"} :
          Answer(q, r)
    /\ UNCHANGED <<chainVars, sub, target, lookupVars>>

(* What is found by the credential is removed; if nothing is, the request is
   refused.  (The database may also find nothing when a transaction beside it
   is replacing, under the same credential, what it chose: VerifierDb has that.
   What is stored is then as if the removal had come first, as it may here;
   only the reply differs.) *)
Removed(q) ==
    /\ phase[q] = "storing" /\ sub[q].method = "remove"
    /\ Store!Forget(q)
    /\ \E r \in {IF stored' # stored THEN "ok" ELSE "refused", "failed"} :
          Answer(q, r)
    /\ UNCHANGED <<chainVars, sub, target, lookupVars>>

(* The database call fails, or the request timeout drops the handler. *)
Fails(q) ==
    /\ phase[q] \in {"reading", "storing"}
    /\ Answer(q, "failed")
    /\ UNCHANGED <<chainVars, sub, stored, target, lookupVars>>

Submission(q) == \/ Arrive(q) \/ ReadStatus(q) \/ NodeFails(q) \/ Check(q)
                 \/ Added(q) \/ Clash(q) \/ Removed(q) \/ Fails(q)

-----------------------------------------------------------------------------
(* Lookups, made by the bots when they are asked to check a user. *)

(* The credentials that prove the account a lookup is about. *)
Proofs(l) == {a.cred : a \in {b \in UNION {AccountsOf(q) : q \in Submissions} :
                                 <<b.plat, b.id>> = target[l]}}

AskLookup(l) ==
    /\ look[l] = "idle"
    /\ look' = [look EXCEPT ![l] = "asked"]
    /\ activeIn' = [activeIn EXCEPT ![l] = ActiveNow \cap Proofs(l)]
    /\ storedIn' = [storedIn EXCEPT ![l] = stored]
    /\ UNCHANGED <<chainVars, sub, handlerVars, stored, target, found, answers, shown>>

Matches(l) == {v \in stored : \E a \in AccountsOf(v) : <<a.plat, a.id>> = target[l]}

(* Database::get_verification: one snapshot. *)
GetVerification(l) ==
    /\ look[l] = "asked"
    /\ IF Matches(l) = {}
       THEN found' = found
       ELSE \E v \in Matches(l) : found' = [found EXCEPT ![l] = {v}]
    /\ look' = [look EXCEPT ![l] = "resolving"]
    /\ UNCHANGED <<chainVars, sub, handlerVars, stored, target, answers, shown, activeIn, storedIn>>

(* Mutant: the first credential of the presentation. *)
CredentialFirst(v, p) == Head(sub[v].stmts).cred

(* get_credential_status looks the credential up in the presentation: the first
   one of the platform's registry. *)
CredentialFor(v, p) ==
    LET s    == sub[v].stmts
        mine == {i \in 1..Len(s) : s[i].kind = "web3id" /\ s[i].contract = p}
    IN  s[CHOOSE i \in mine : \A j \in mine : i <= j].cred

Unresolved(l) == UNION {{a.plat : a \in AccountsOf(v)} : v \in found[l]} \ DOMAIN answers[l]

Learn(l, p, s) ==
    answers' = [answers EXCEPT ![l] =
                   [x \in DOMAIN answers[l] \cup {p} |-> IF x = p THEN s ELSE answers[l][x]]]

(* The name and the status of an account are looked up; if either fails the
   account is left out.  The lookups are independent of each other. *)
ResolveAccount(l) ==
    /\ look[l] = "resolving"
    /\ \E p \in Unresolved(l), v \in found[l] :
          Learn(l, p, status[CredentialFor(v, p)]) \/ Learn(l, p, "failed")
    /\ UNCHANGED <<chainVars, sub, handlerVars, stored, target, look, found, shown,
                   activeIn, storedIn>>

(* check, check_user: the status of the account on the bot's own platform. *)
Verdict(l) ==
    LET p == target[l][1]
    IN  IF p \in DOMAIN answers[l] /\ answers[l][p] = "active" THEN "verified" ELSE "not_verified"

Say(l, verdict) ==
    /\ look' = [look EXCEPT ![l] = "done"]
    /\ shown' = [shown EXCEPT ![l] = verdict]
    /\ found' = [found EXCEPT ![l] = {}]
    /\ answers' = [answers EXCEPT ![l] = << >>]
    /\ storedIn' = [storedIn EXCEPT ![l] = {}]
    /\ activeIn' = [activeIn EXCEPT ![l] = {}]
    /\ UNCHANGED <<chainVars, sub, handlerVars, stored, target>>

(* The lookup is answered and the bot replies. *)
Reply(l) ==
    /\ look[l] = "resolving" /\ Unresolved(l) = {}
    /\ Say(l, Verdict(l))

(* The verifier answers with an error, or not in time: the bot says so. *)
LookupFails(l) == Running(l) /\ Say(l, "sorry")

Lookup(l) == \/ AskLookup(l) \/ GetVerification(l) \/ ResolveAccount(l)
             \/ Reply(l) \/ LookupFails(l)

-----------------------------------------------------------------------------
(* A credential is issued, becomes valid, expires or is revoked, and may be
   restored. *)
Changes == [unknown |-> {"pending", "active"}, pending |-> {"active", "ended"},
            active |-> {"ended"}, ended |-> {"active"}]

Watched(x) == IF x \in Lookups THEN IF Running(x) THEN Proofs(x) ELSE {}
              ELSE IF phase[x] \in {"reading", "storing"} THEN CredsOf(x) ELSE {}

StatusChanges ==
    /\ \E c \in Creds : \E s \in Changes[status[c]] :
          /\ s = "ended" => Cardinality({d \in Creds : status[d] = "ended"}) < MaxEnded
          /\ status' = [status EXCEPT ![c] = s]
          /\ activeIn' = [x \in DOMAIN activeIn |->
                             IF s = "active" THEN activeIn[x] \cup ({c} \cap Watched(x))
                             ELSE activeIn[x]]
    /\ UNCHANGED <<now, sub, handlerVars, stored, target, lookupVars>>

Init ==
    /\ now = 0
    /\ status \in [Creds -> {"unknown", "pending", "active"}]
    /\ sub \in [Submissions -> Requests]
    /\ phase = [q \in Submissions |-> "idle"]
    /\ unread = [q \in Submissions |-> {}]
    /\ seen = [q \in Submissions |-> {}]
    /\ reply = [q \in Submissions |-> "none"]
    /\ before = [q \in Submissions |-> {}]
    /\ stored = {}
    /\ target \in [Lookups -> Platforms \X Ids]
    /\ look = [l \in Lookups |-> "idle"]
    /\ found = [l \in Lookups |-> {}]
    /\ answers = [l \in Lookups |-> << >>]
    /\ shown = [l \in Lookups |-> "none"]
    /\ activeIn = [x \in Submissions \cup Lookups |-> {}]
    /\ storedIn = [l \in Lookups |-> {}]

Next == \/ \E q \in Submissions : Submission(q)
        \/ \E l \in Lookups : Lookup(l)
        \/ StatusChanges

Spec == Init /\ [][Next]_vars

-----------------------------------------------------------------------------
TypeOK ==
    /\ now \in 0..MaxTime
    /\ status \in [Creds -> Status]
    /\ sub \in [Submissions -> Requests]
    /\ phase \in [Submissions -> {"idle", "reading", "storing", "done"}]
    /\ unread \in [Submissions -> SUBSET Creds]
    /\ seen \in [Submissions -> SUBSET (Status \ {"unknown"})]
    /\ reply \in [Submissions -> {"none", "ok", "refused", "failed"}]
    /\ \A q \in stored \cup UNION {before[p] : p \in Submissions} :
          q \in Submissions /\ sub[q].method = "add"
    /\ look \in [Lookups -> {"idle", "asked", "resolving", "done"}]
    /\ \A l \in Lookups :
          /\ Cardinality(found[l]) <= 1 /\ found[l] \subseteq Submissions
          /\ DOMAIN answers[l] \subseteq Platforms
          /\ \A p \in DOMAIN answers[l] : answers[l][p] \in (Status \cup {"failed"})
    /\ shown \in [Lookups -> {"none", "verified", "not_verified", "sorry"}]

Proved(q) ==
    LET s == sub[q].stmts
    IN  /\ sub[q].proof /\ sub[q].challenge
        /\ CredsOf(q) \subseteq activeIn[q]
        /\ AccountsOf(q) # {}
        /\ \A i \in 1..Len(s) : s[i].kind = "web3id" =>
              [plat |-> s[i].contract, id |-> s[i].id, cred |-> s[i].cred] \in AccountsOf(q)
        /\ \A i, j \in 1..Len(s) :
              s[i].kind = "account" /\ s[j].kind = "account" => i = j

EndedByHolder(v) ==
    \E q \in Submissions :
        /\ phase[q] = "storing" /\ phase'[q] = "done"
        /\ \E a \in AccountsOf(q), b \in AccountsOf(v) :
              a.plat = b.plat /\ a.cred = b.cred /\ a.cred \in activeIn[q]

SaysVerified(l) == look[l] # "done" /\ look'[l] = "done" /\ shown'[l] = "verified"

WasVerified(l) ==
    \E v \in storedIn[l] : \E a \in AccountsOf(v) :
        <<a.plat, a.id>> = target[l] /\ a.cred \in activeIn[l]

(* What is stored was proved: by a presentation whose proofs and challenge are
   right, each of whose credentials was active at some time while the request
   was handled, though it may have ended by the time it is stored.  It has an
   account of every platform it makes a statement about and at least one, so
   that there is a credential which can remove it, and at most one name.
   (Nothing is said of its age, which is looked at once, on arrival.) *)
StoredIsProved == [][\A q \in stored' \ stored : Proved(q)]_vars

(* Only who proves to hold a credential of a verification ends it: it is
   replaced or removed by a request about one of its credentials, which was
   active while that request was handled. *)
EndsByHolder == [][\A v \in stored \ stored' : EndedByHolder(v)]_vars

(* "Verified", when a bot says it of a user, was true while it was being found
   out: a verification with this user was stored, and the very credential that
   proves this account in it was active, each at some time since the bot was
   asked, whatever was replaced, removed or revoked between the lookups. *)
VerdictTrue == [][\A l \in Lookups : SaysVerified(l) => WasVerified(l)]_vars

(* proof_to_verifications_entry: "There should be exactly a first and last
   name". *)
NamesExact ==
    \A q \in stored : \A i \in 1..Len(sub[q].stmts) :
        sub[q].stmts[i].kind = "account" => Len(sub[q].stmts[i].tags) = 2
=============================================================================
