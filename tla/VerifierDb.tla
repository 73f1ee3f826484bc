----------------------------- MODULE VerifierDb ------------------------------
(***************************************************************************)
(* The database of the example verifier (examples/some-verifier/src/db.rs  *)
(* with resources/schema.sql): concurrent transactions that add, remove    *)
(* and read verifications, statement by statement.                         *)
(*                                                                         *)
(* A verification row and its platform rows are inserted by one            *)
(* transaction and deleted together (ON DELETE CASCADE), so a verification *)
(* is identified with the request that added it, and the accounts of that  *)
(* request are its platform rows.                                          *)
(***************************************************************************)
EXTENDS FiniteSets

CONSTANTS Ids,    \* user ids, on either platform
          Creds,  \* credential holder ids
          Txns,   \* the requests of this run
          Old     \* requests that were handled before

ASSUME DbAssumption == Txns \cap Old = {}

Platforms == {"telegram", "discord"}
Requests  == Txns \cup Old
Account   == [plat : Platforms, id : Ids, cred : Creds]

VARIABLES
    op,        \* what each request asks for: [Requests -> Op]
    accounts,  \* the platform entries it names: [Requests -> Entry]
    stored,    \* committed: the requests that are verifications now
    stage,     \* where its transaction is: [Requests -> Stage]
    todo,      \* the platform entries that stage has still to treat
    found,     \* the verification its DELETE has selected: {} or {v}
    deleted,   \* the verifications it has deleted, and holds locked
    snapshot,  \* what a reading transaction sees: stored, when it began
    seen,      \* the accounts it has read
    result     \* what the caller was returned: [Requests -> Result]

dbVars == <<op, accounts, stored, stage, todo, found, deleted, snapshot, seen, result>>

Op == {"none", "add", "remove", "get"}
Stage == {"idle", "deleting", "inserting", "reading", "naming", "joining", "done"}
Result == {"none", "ok", "nothing", "clash", "error"}

(* The platform entries of a VerificationsEntry.  A removal names one, by its
   credential; a lookup one, by its user. *)
Entry == {as \in SUBSET Account : \A a, b \in as : a.plat = b.plat => a = b}

SameUser(a, b) == a.plat = b.plat /\ a.id = b.id
SameCred(a, b) == a.plat = b.plat /\ a.cred = b.cred

(* What is left of Platform::SUPPORTED_PLATFORMS, in its order. *)
First(as) == CHOOSE a \in as : a.plat = "discord" => as = {a}

(* The verifications in vs with a row of the same user, or credential. *)
WithUser(vs, a) == {v \in vs : \E b \in accounts[v] : SameUser(a, b)}
WithCred(vs, a) == {v \in vs : \E b \in accounts[v] : SameCred(a, b)}

-----------------------------------------------------------------------------
(* Postgres at its default isolation: a statement sees what is committed when
   it begins, and what its own transaction did; to change a row, or to insert
   a key, that another transaction has changed or inserted and not committed,
   it waits for that transaction to end. *)
Inserted(t) == IF stage[t] = "inserting" THEN accounts[t] \ todo[t] ELSE {}

KeyTaken(x, a) ==
    \E b \in Inserted(x) \cup UNION {accounts[v] : v \in deleted[x]} :
        SameUser(a, b) \/ SameCred(a, b)

(* Mutant: without the keys of the platform tables, insertions wait for
   nobody. *)
BlockersWithoutKeys(t) ==
    {x \in Txns \ {t} : stage[t] = "deleting" /\ found[t] \cap deleted[x] # {}}

Blockers(t) ==
    IF stage[t] = "deleting"
    THEN {x \in Txns \ {t} : found[t] \cap deleted[x] # {}}
    ELSE {x \in Txns \ {t} :
             stage[t] = "inserting" /\ todo[t] # {} /\ KeyTaken(x, First(todo[t]))}

(* Mutant: the connection returns to the pool with its transaction open. *)
EndKeepsLocks(t, r) ==
    /\ stage' = [stage EXCEPT ![t] = "done"]
    /\ todo' = [todo EXCEPT ![t] = {}]
    /\ found' = [found EXCEPT ![t] = {}]
    /\ result' = [result EXCEPT ![t] = r]
    /\ UNCHANGED <<op, accounts, deleted, snapshot, seen>>

(* The transaction ends: its locks are free, and its caller is answered. *)
End(t, r) ==
    /\ stage' = [stage EXCEPT ![t] = "done"]
    /\ todo' = [todo EXCEPT ![t] = {}]
    /\ found' = [found EXCEPT ![t] = {}]
    /\ deleted' = [deleted EXCEPT ![t] = {}]
    /\ result' = [result EXCEPT ![t] = r]
    /\ UNCHANGED <<op, accounts, snapshot, seen>>

Rollback(t, r) == End(t, r) /\ UNCHANGED stored

(* A dropped handler, a broken connection: the transaction is rolled back. *)
Abandon(t) == stage[t] \notin {"idle", "done"} /\ Rollback(t, "error")

(* The server ends one of the transactions that wait for each other. *)
BreakDeadlock(t) ==
    /\ \E ring \in SUBSET Txns :
          t \in ring /\ \A x \in ring : Blockers(x) \cap ring # {}
    /\ Rollback(t, "error")

-----------------------------------------------------------------------------
(* A request takes a connection from the pool and begins. *)
Begin(t, o, as) ==
    /\ stage[t] = "idle"
    /\ op' = [op EXCEPT ![t] = o]
    /\ accounts' = [accounts EXCEPT ![t] = as]
    /\ todo' = [todo EXCEPT ![t] = as]
    /\ stage' = [stage EXCEPT ![t] = IF o = "get" THEN "reading" ELSE "deleting"]
    /\ UNCHANGED <<stored, found, deleted, snapshot, seen, result>>

(* Mutant: the verification is looked up by user, not by credential. *)
SelectByUser(t) ==
    LET hits == WithUser(stored \ deleted[t], First(todo[t]))
    IN  /\ stage[t] = "deleting" /\ todo[t] # {} /\ found[t] = {}
        /\ found' = [found EXCEPT ![t] = hits]
        /\ todo' = IF hits = {} THEN [todo EXCEPT ![t] = @ \ {First(@)}] ELSE todo
        /\ UNCHANGED <<op, accounts, stored, stage, deleted, snapshot, seen, result>>

(* DELETE FROM verifications WHERE id IN (SELECT ... WHERE cred_id = $1): the
   rows are selected in the statement's snapshot, ... *)
Select(t) ==
    LET hits == WithCred(stored \ deleted[t], First(todo[t]))
    IN  /\ stage[t] = "deleting" /\ todo[t] # {} /\ found[t] = {}
        /\ found' = [found EXCEPT ![t] = hits]
        /\ todo' = IF hits = {} THEN [todo EXCEPT ![t] = @ \ {First(@)}] ELSE todo
        /\ UNCHANGED <<op, accounts, stored, stage, deleted, snapshot, seen, result>>

(* ... and deleted, with the platform rows that refer to them, unless they
   are gone by the time their lock is free. *)
Delete(t) ==
    /\ stage[t] = "deleting" /\ found[t] # {} /\ Blockers(t) = {}
    /\ deleted' = [deleted EXCEPT ![t] = @ \cup (found[t] \cap stored)]
    /\ found' = [found EXCEPT ![t] = {}]
    /\ todo' = [todo EXCEPT ![t] = @ \ {First(@)}]
    /\ UNCHANGED <<op, accounts, stored, stage, snapshot, seen, result>>

(* INSERT INTO verifications: no other transaction is concerned. *)
InsertVerification(t) ==
    /\ op[t] = "add" /\ stage[t] = "deleting" /\ todo[t] = {}
    /\ stage' = [stage EXCEPT ![t] = "inserting"]
    /\ todo' = [todo EXCEPT ![t] = accounts[t]]
    /\ UNCHANGED <<op, accounts, stored, found, deleted, snapshot, seen, result>>

(* Mutant: a clash is returned and the transaction kept. *)
ClashKeepsTransaction(t) ==
    LET a      == First(todo[t])
        others == stored \ deleted[t]
    IN  /\ stage[t] = "inserting" /\ todo[t] # {} /\ Blockers(t) = {}
        /\ \/ /\ WithUser(others, a) # {}
              /\ result' = [result EXCEPT ![t] = "clash"]
              /\ UNCHANGED <<op, accounts, stored, stage, todo, found, deleted,
                             snapshot, seen>>
           \/ /\ WithUser(others, a) = {} /\ WithCred(others, a) # {}
              /\ Rollback(t, "error")
           \/ /\ WithUser(others, a) = {} /\ WithCred(others, a) = {}
              /\ todo' = [todo EXCEPT ![t] = @ \ {a}]
              /\ UNCHANGED <<op, accounts, stored, stage, found, deleted, snapshot,
                             seen, result>>

(* add_platform_entry: a row with the same user is a clash (ON CONFLICT ON
   CONSTRAINT pkey DO NOTHING), one with the same credential an error. *)
AddPlatformEntry(t) ==
    LET a      == First(todo[t])
        others == stored \ deleted[t]
    IN  /\ stage[t] = "inserting" /\ todo[t] # {} /\ Blockers(t) = {}
        /\ \/ /\ WithUser(others, a) # {}
              /\ Rollback(t, "clash")
           \/ /\ WithUser(others, a) = {} /\ WithCred(others, a) # {}
              /\ Rollback(t, "error")
           \/ /\ WithUser(others, a) = {} /\ WithCred(others, a) = {}
              /\ todo' = [todo EXCEPT ![t] = @ \ {a}]
              /\ UNCHANGED <<op, accounts, stored, stage, found, deleted, snapshot,
                             seen, result>>

(* The caller hears of the commit, or not. *)
CommitAdd(t) ==
    /\ stage[t] = "inserting" /\ todo[t] = {}
    /\ stored' = (stored \ deleted[t]) \cup {t}
    /\ \E r \in {"ok", "error"} : End(t, r)

CommitRemove(t) ==
    /\ op[t] = "remove" /\ stage[t] = "deleting" /\ todo[t] = {}
    /\ stored' = stored \ deleted[t]
    /\ \E r \in {IF deleted[t] = {} THEN "nothing" ELSE "ok", "error"} : End(t, r)

-----------------------------------------------------------------------------
(* get_verification: three statements on one snapshot. *)

SelectUser(t) ==
    LET hits == WithUser(stored, First(accounts[t]))
    IN  /\ stage[t] = "reading"
        /\ IF hits = {}
           THEN Rollback(t, "nothing")
           ELSE /\ stage' = [stage EXCEPT ![t] = "naming"]
                /\ found' = [found EXCEPT ![t] = hits]
                /\ snapshot' = [snapshot EXCEPT ![t] = stored]
                /\ seen' = [seen EXCEPT ![t] =
                      {b \in UNION {accounts[v] : v \in hits} : SameUser(First(accounts[t]), b)}]
                /\ UNCHANGED <<op, accounts, stored, todo, deleted, result>>

(* Mutant: the default isolation level. *)
VisibleCommitted(t) == stored

(* BEGIN ... ISOLATION LEVEL REPEATABLE READ *)
Visible(t) == snapshot[t]

(* The verification row, for the names and the presentation. *)
SelectVerification(t) ==
    /\ stage[t] = "naming"
    /\ IF found[t] \cap Visible(t) = {}
       THEN Rollback(t, "nothing")
       ELSE /\ stage' = [stage EXCEPT ![t] = "joining"]
            /\ UNCHANGED <<op, accounts, stored, todo, found, deleted, snapshot,
                           seen, result>>

(* The row of the other platform with the same verification_id, if any. *)
SelectOther(t) ==
    /\ stage[t] = "joining"
    /\ stage' = [stage EXCEPT ![t] = "done"]
    /\ seen' = [seen EXCEPT ![t] =
          @ \cup UNION {accounts[v] : v \in found[t] \cap Visible(t)}]
    /\ found' = [found EXCEPT ![t] = {}]
    /\ result' = [result EXCEPT ![t] = "ok"]
    /\ UNCHANGED <<op, accounts, stored, todo, deleted, snapshot>>

Statement(t) ==
    \/ Select(t) \/ Delete(t) \/ InsertVerification(t) \/ AddPlatformEntry(t)
    \/ CommitAdd(t) \/ CommitRemove(t)
    \/ SelectUser(t) \/ SelectVerification(t) \/ SelectOther(t)

-----------------------------------------------------------------------------
(* A caller asks for one of the three operations of Database: additions name
   one or two accounts, the others a credential or a user. *)
Call(t) ==
    \/ \E as \in Entry \ {{}} : Begin(t, "add", as)
    \/ \E o \in {"remove", "get"}, a \in Account : Begin(t, o, {a})

(* The database as earlier requests have left it: verifications with no user
   and no credential in common. *)
Init ==
    /\ accounts \in [Requests -> Entry]
    /\ \A t \in Txns : accounts[t] = {}
    /\ \A v \in Old : accounts[v] # {}
    /\ \A v, w \in Old : v # w =>
          \A a \in accounts[v], b \in accounts[w] : ~SameUser(a, b) /\ ~SameCred(a, b)
    /\ stored = Old
    /\ op = [t \in Requests |-> "none"]
    /\ stage = [t \in Requests |-> "idle"]
    /\ todo = [t \in Requests |-> {}]
    /\ found = [t \in Requests |-> {}]
    /\ deleted = [t \in Requests |-> {}]
    /\ snapshot = [t \in Requests |-> {}]
    /\ seen = [t \in Requests |-> {}]
    /\ result = [t \in Requests |-> "none"]

Next == \E t \in Txns :
            Call(t) \/ Statement(t) \/ Abandon(t) \/ BreakDeadlock(t)

Spec == Init /\ [][Next]_dbVars

(* Postgres executes the statements it is sent, and looks for deadlocks. *)
Fairness == \A t \in Txns : WF_dbVars(Statement(t)) /\ WF_dbVars(BreakDeadlock(t))

-----------------------------------------------------------------------------
(* The types of the variables; a transaction that has ended, or not begun, has
   no work left and holds no lock, and the rows it holds are committed ones. *)
TypeOK ==
    /\ op \in [Requests -> Op]
    /\ accounts \in [Requests -> Entry]
    /\ stored \subseteq Requests
    /\ stage \in [Requests -> Stage]
    /\ todo \in [Requests -> Entry]
    /\ found \in [Requests -> SUBSET Requests]
    /\ deleted \in [Requests -> SUBSET Requests]
    /\ snapshot \in [Requests -> SUBSET Requests]
    /\ seen \in [Requests -> SUBSET Account]
    /\ result \in [Requests -> Result]
    /\ \A t \in Requests :
          /\ deleted[t] \subseteq stored
          /\ stage[t] \in {"idle", "done"} => found[t] = {} /\ deleted[t] = {}

(* A user and a credential of a platform belong to one verification: the keys
   of the platform tables hold although each insertion checks them before the
   transactions beside it have committed. *)
KeysUnique ==
    \A v, w \in stored : v # w =>
        \A a \in accounts[v], b \in accounts[w] : ~SameUser(a, b) /\ ~SameCred(a, b)

(* What a lookup returns is one verification as it was at one moment, whole,
   although three statements read it and others replace and remove it. *)
ReadsWholeVerification ==
    \A t \in Txns : op[t] = "get" /\ result[t] = "ok" =>
        \E v \in snapshot[t] : seen[t] = accounts[v]

(* Committed additions and removals have the effect of one request at a time,
   at their commit: the verifications with one of the credentials are gone,
   whoever added them while the transaction ran, and nothing else is. *)
Store == INSTANCE VerificationStore WITH Accounts <- Account
ImplementsStore == Store!Spec

(* Every transaction ends, whatever rows it waits for. *)
EveryTransactionEnds == \A t \in Txns : stage[t] # "idle" ~> stage[t] = "done"

(* The documentation of add_verification: "In case the user already exist and
   is identified by a different credential holder ID this will return the
   user ID of the clashing user, and will not do any updates."  So a user's
   credential never changes with an addition. *)
KeepsCredentialOfUser ==
    [][\A t \in Txns \cap stored' : t \notin stored =>
         \A v \in stored : \A a \in accounts[t], b \in accounts[v] :
             SameUser(a, b) => SameCred(a, b)]_dbVars
=============================================================================
