--------------------------- MODULE VerifierDbProofs ---------------------------
(***************************************************************************)
(* Theorems about the verification database, for every set of users,       *)
(* credentials, earlier verifications and concurrent transactions.         *)
(***************************************************************************)
EXTENDS VerifierDb, TLAPS

Clash(a, b) == SameUser(a, b) \/ SameCred(a, b)

(* What a transaction's stage says of its request. *)
StageFits(t) ==
    /\ stage[t] = "deleting" => op[t] \in {"add", "remove"}
    /\ stage[t] = "inserting" => op[t] = "add"
    /\ stage[t] \in {"reading", "naming", "joining"} => op[t] = "get"
    /\ stage[t] # "idle" => accounts[t] # {}
    /\ stage[t] \in {"deleting", "inserting"} => todo[t] \subseteq accounts[t]
    /\ stage[t] # "done" => result[t] = "none"
    /\ stage[t] \in {"reading", "naming", "joining"} => deleted[t] = {}
    /\ op[t] = "remove" => \E a \in Account : accounts[t] = {a}

(* Whatever a transaction has to do with was committed, so that what it names
   stays as it is. *)
KnownIsDone ==
    \A t, v \in Txns :
        v \in stored \cup found[t] \cup deleted[t] \cup snapshot[t] => stage[v] = "done"

(* A transaction deletes what one of its credentials proves. *)
DeletesItsOwn(t) ==
    /\ \A v \in deleted[t] : \E a \in accounts[t], b \in accounts[v] : SameCred(a, b)
    /\ stage[t] = "deleting" =>
          \A v \in found[t] : \E a \in accounts[t], b \in accounts[v] : SameCred(a, b)

(* No row is deleted by two transactions. *)
LocksApart == \A t, x \in Txns : t # x => deleted[t] \cap deleted[x] = {}

(* What a transaction has inserted shares no key with what another has, or
   with what is committed and it has not deleted. *)
InsertsApart ==
    \A t, x \in Txns : t # x =>
        \A a \in Inserted(t), b \in Inserted(x) : ~Clash(a, b)

InsertsFit ==
    \A t \in Txns : \A v \in stored \ deleted[t] :
        \A a \in Inserted(t), b \in accounts[v] : ~Clash(a, b)

(* A lookup has found one verification, which its snapshot has. *)
ReadsOne(t) ==
    stage[t] \in {"naming", "joining"} =>
        \E v \in snapshot[t] : found[t] = {v} /\ seen[t] \subseteq accounts[v]

DbInv == /\ TypeOK
         /\ KeysUnique
         /\ ReadsWholeVerification
         /\ KnownIsDone
         /\ LocksApart
         /\ InsertsApart
         /\ InsertsFit
         /\ \A v \in Old : stage[v] = "idle"
         /\ \A t \in Txns : StageFits(t) /\ DeletesItsOwn(t) /\ ReadsOne(t)

-----------------------------------------------------------------------------
LEMMA FirstIn ==
    ASSUME NEW as \in Entry, as # {}
    PROVE  First(as) \in as
<1>1. \E a \in as : a.plat = "discord" => as = {a}
  <2>1. CASE \E a \in as : a.plat # "discord"
    BY <2>1
  <2>2. CASE \A a \in as : a.plat = "discord"
    <3>1. \A a, b \in as : a = b
      BY <2>2 DEF Entry
    <3> QED
      BY <3>1
  <2> QED
    BY <2>1, <2>2
<1> QED
  BY <1>1 DEF First

LEMMA InitInv == Init => DbInv
<1> SUFFICES ASSUME Init PROVE DbInv
  OBVIOUS
<1>1. TypeOK
  BY DEF Init, TypeOK, Op, Stage, Result, Requests, Entry
<1>2. KeysUnique /\ ReadsWholeVerification
  BY DEF Init, KeysUnique, ReadsWholeVerification, Requests
<1>3. KnownIsDone
  BY DbAssumption DEF Init, KnownIsDone, Requests
<1>4. LocksApart /\ InsertsApart /\ InsertsFit
  BY DEF Init, LocksApart, InsertsApart, InsertsFit, Inserted, Requests
<1>5. /\ \A t \in Txns : StageFits(t) /\ DeletesItsOwn(t) /\ ReadsOne(t)
      /\ \A v \in Old : stage[v] = "idle"
  BY DEF Init, StageFits, DeletesItsOwn, ReadsOne, Requests
<1> QED
  BY <1>1, <1>2, <1>3, <1>4, <1>5 DEF DbInv

(* A transaction that ends, with what it stored or removed, or without. *)
LEMMA EndPreserves ==
    ASSUME DbInv, NEW t \in Txns, NEW r \in Result,
           End(t, r), stage[t] # "idle", op[t] = "get" => r # "ok",
           stored' \subseteq stored \cup {t}, t \in stored' => Inserted(t) = accounts[t],
           \A x \in Txns : x # t => deleted[x] \subseteq stored',
           KeysUnique'
    PROVE  DbInv'
<1> USE DEF Requests
<1>1. /\ stage' = [stage EXCEPT ![t] = "done"]
      /\ todo' = [todo EXCEPT ![t] = {}]
      /\ found' = [found EXCEPT ![t] = {}]
      /\ deleted' = [deleted EXCEPT ![t] = {}]
      /\ result' = [result EXCEPT ![t] = r]
      /\ UNCHANGED <<op, accounts, snapshot, seen>>
  BY DEF End
<1>2. /\ stage'[t] = "done" /\ todo'[t] = {} /\ found'[t] = {} /\ deleted'[t] = {}
      /\ result'[t] = r
      /\ \A x \in Requests : x # t =>
            /\ stage'[x] = stage[x] /\ todo'[x] = todo[x] /\ found'[x] = found[x]
            /\ deleted'[x] = deleted[x] /\ result'[x] = result[x]
  BY <1>1 DEF DbInv, TypeOK
<1>3. TypeOK'
  <2>1. /\ op' \in [Requests -> Op] /\ accounts' \in [Requests -> Entry]
        /\ stored' \subseteq Requests /\ stage' \in [Requests -> Stage]
        /\ todo' \in [Requests -> Entry]
        /\ found' \in [Requests -> SUBSET Requests]
        /\ deleted' \in [Requests -> SUBSET Requests]
        /\ snapshot' \in [Requests -> SUBSET Requests]
        /\ seen' \in [Requests -> SUBSET Account]
        /\ result' \in [Requests -> Result]
    BY <1>1 DEF DbInv, TypeOK, Entry, Stage
  <2>2. \A x \in Requests : stage'[x] \in {"idle", "done"} => found'[x] = {} /\ deleted'[x] = {}
    BY <1>2 DEF DbInv, TypeOK
  <2>3. \A x \in Requests : deleted'[x] \subseteq stored'
    <3>1. \A x \in Old : deleted[x] = {}
      BY DEF DbInv, TypeOK
    <3> QED
      BY <1>2, <3>1
  <2> QED
    BY <2>1, <2>2, <2>3 DEF TypeOK
<1>4. ReadsWholeVerification'
  BY <1>1, <1>2 DEF DbInv, ReadsWholeVerification
<1>5. KnownIsDone'
  BY <1>1, <1>2 DEF DbInv, KnownIsDone
<1>6. LocksApart'
  BY <1>2 DEF DbInv, LocksApart
<1>7. \A x \in Txns : Inserted(x)' = IF x = t THEN {} ELSE Inserted(x)
  BY <1>1, <1>2 DEF Inserted
<1>8. InsertsApart'
  BY <1>7 DEF DbInv, InsertsApart
<1>9. InsertsFit'
  BY <1>1, <1>2, <1>7 DEF DbInv, InsertsFit, InsertsApart
<1>10. /\ \A x \in Txns : StageFits(x)' /\ DeletesItsOwn(x)' /\ ReadsOne(x)'
       /\ \A v \in Old : stage'[v] = "idle"
  BY <1>1, <1>2, DbAssumption DEF DbInv, StageFits, DeletesItsOwn, ReadsOne
<1> QED
  BY <1>3, <1>4, <1>5, <1>6, <1>8, <1>9, <1>10 DEF DbInv

LEMMA RollbackPreserves ==
    ASSUME DbInv, NEW t \in Txns, NEW r \in Result \ {"ok"}, Rollback(t, r), stage[t] \notin {"idle", "done"}
    PROVE  DbInv'
<1>1. t \notin stored
  BY DEF DbInv, KnownIsDone
<1>2. \A x \in Txns : deleted[x] \subseteq stored
  BY DEF DbInv, TypeOK, Requests
<1>3. KeysUnique'
  BY DEF Rollback, End, DbInv, KeysUnique
<1> QED
  BY <1>1, <1>2, <1>3, EndPreserves DEF Rollback

(* At its commit an addition has deleted all that is proved with one of its
   credentials, and nothing else. *)
LEMMA AddDeletesAll ==
    ASSUME DbInv, NEW t \in Txns, stage[t] = "inserting", todo[t] = {}
    PROVE  /\ t \notin stored
           /\ deleted[t] = Store!SameCredential(accounts[t])
           /\ \A v \in stored \ deleted[t] :
                 \A a \in accounts[t], b \in accounts[v] : ~Clash(a, b)
<1>1. t \notin stored
  BY DEF DbInv, KnownIsDone
<1>2. Inserted(t) = accounts[t]
  BY DEF Inserted
<1>3. \A v \in stored \ deleted[t] :
         \A a \in accounts[t], b \in accounts[v] : ~Clash(a, b)
  BY <1>2 DEF DbInv, InsertsFit
<1>4. deleted[t] = Store!SameCredential(accounts[t])
  <2>1. deleted[t] \subseteq stored
    BY DEF DbInv, TypeOK, Requests
  <2> QED
    BY <1>3, <2>1 DEF Store!SameCredential, DbInv, DeletesItsOwn, SameCred, Clash
<1> QED
  BY <1>1, <1>3, <1>4

LEMMA CommitAddPreserves ==
    ASSUME DbInv, NEW t \in Txns, CommitAdd(t)
    PROVE  DbInv'
<1>1. PICK r \in {"ok", "error"} : End(t, r)
  BY DEF CommitAdd
<1>2. /\ stage[t] = "inserting" /\ todo[t] = {} /\ UNCHANGED accounts
      /\ stored' = (stored \ deleted[t]) \cup {t}
      /\ op[t] = "add"
  BY <1>1 DEF CommitAdd, End, DbInv, StageFits
<1>3. \A v \in stored \ deleted[t] :
         \A a \in accounts[t], b \in accounts[v] : ~Clash(a, b)
  BY <1>2, AddDeletesAll
<1>4. KeysUnique'
  BY <1>2, <1>3 DEF DbInv, KeysUnique, Clash, SameUser, SameCred
<1>5. \A x \in Txns : x # t => deleted[x] \subseteq stored'
  BY <1>2 DEF DbInv, LocksApart, TypeOK, Requests
<1>6. Inserted(t) = accounts[t] /\ r \in Result /\ stored' \subseteq stored \cup {t}
  BY <1>2 DEF Inserted, Result
<1> QED
  BY <1>1, <1>2, <1>4, <1>5, <1>6, EndPreserves

(* A removal names one credential, so what it has deleted is all that the
   credential proves, unless it has deleted nothing. *)
LEMMA RemovalDeletesAll ==
    ASSUME DbInv, NEW t \in Txns, op[t] = "remove", deleted[t] # {}
    PROVE  deleted[t] = Store!SameCredential(accounts[t])
<1>1. PICK a \in Account : accounts[t] = {a}
  BY DEF DbInv, StageFits
<1>2. /\ deleted[t] \subseteq stored
      /\ \A v \in deleted[t] : \E b \in accounts[v] : SameCred(a, b)
  BY <1>1 DEF DbInv, DeletesItsOwn, TypeOK, Requests
<1>3. PICK w \in deleted[t] : \E b \in accounts[w] : SameCred(a, b)
  BY <1>2
<1>4. \A v \in stored : (\E b \in accounts[v] : SameCred(a, b)) => v = w
  BY <1>2, <1>3 DEF DbInv, KeysUnique, SameCred
<1>5. Store!SameCredential({a}) = {v \in stored : \E b \in accounts[v] : SameCred(a, b)}
  BY DEF Store!SameCredential, SameCred
<1> QED
  BY <1>1, <1>2, <1>4, <1>5

LEMMA CommitRemovePreserves ==
    ASSUME DbInv, NEW t \in Txns, CommitRemove(t)
    PROVE  DbInv'
<1>1. PICK r \in {"nothing", "ok", "error"} : End(t, r)
  BY DEF CommitRemove
<1>2. /\ stage[t] = "deleting" /\ op[t] = "remove" /\ UNCHANGED accounts
      /\ stored' = stored \ deleted[t]
  BY <1>1 DEF CommitRemove, End
<1>3. KeysUnique'
  BY <1>2 DEF DbInv, KeysUnique
<1>4. \A x \in Txns : x # t => deleted[x] \subseteq stored'
  BY <1>2 DEF DbInv, LocksApart, TypeOK, Requests
<1>5. t \notin stored /\ r \in Result
  BY <1>2 DEF DbInv, KnownIsDone, Result
<1> QED
  BY <1>1, <1>2, <1>3, <1>4, <1>5, EndPreserves

(* A transaction that begins has nothing to do with any other. *)
LEMMA BeginPreserves ==
    ASSUME DbInv, NEW t \in Txns, NEW o \in {"add", "remove", "get"}, NEW as \in Entry, as # {},
           o = "remove" => \E a \in Account : as = {a},
           Begin(t, o, as)
    PROVE  DbInv'
<1> USE DEF Requests
<1>1. /\ stage[t] = "idle" /\ op'[t] = o /\ accounts'[t] = as /\ todo'[t] = as
      /\ stage'[t] = IF o = "get" THEN "reading" ELSE "deleting"
      /\ \A x \in Requests : x # t =>
            /\ op'[x] = op[x] /\ accounts'[x] = accounts[x]
            /\ todo'[x] = todo[x] /\ stage'[x] = stage[x]
      /\ UNCHANGED <<stored, found, deleted, snapshot, seen, result>>
  BY DEF Begin, DbInv, TypeOK
<1>2. /\ t \notin stored /\ found[t] = {} /\ deleted[t] = {} /\ result[t] = "none"
      /\ \A x \in Txns : t \notin found[x] \cup deleted[x] \cup snapshot[x]
  BY <1>1 DEF DbInv, KnownIsDone, TypeOK, StageFits
<1>3. /\ \A v \in stored : accounts'[v] = accounts[v]
      /\ \A x \in Txns : \A v \in found[x] \cup deleted[x] \cup snapshot[x] :
            accounts'[v] = accounts[v]
  BY <1>1, <1>2 DEF DbInv, TypeOK
<1>4. TypeOK'
  <2>1. /\ op' \in [Requests -> Op] /\ accounts' \in [Requests -> Entry]
        /\ todo' \in [Requests -> Entry] /\ stage' \in [Requests -> Stage]
    BY DEF Begin, DbInv, TypeOK, Op, Stage
  <2> QED
    BY <1>1, <1>2, <2>1 DEF DbInv, TypeOK
<1>5. KeysUnique'
  BY <1>1, <1>3 DEF DbInv, KeysUnique
<1>6. ReadsWholeVerification'
  <2>1. op'[t] = "get" => result'[t] # "ok"
    BY <1>1, <1>2
  <2> QED
    BY <1>1, <1>3, <2>1 DEF DbInv, ReadsWholeVerification
<1>7. KnownIsDone' /\ LocksApart'
  BY <1>1, <1>2 DEF DbInv, KnownIsDone, LocksApart
<1>8. \A x \in Txns : Inserted(x)' = Inserted(x)
  BY <1>1 DEF Inserted
<1>9. InsertsApart' /\ InsertsFit'
  <2>1. \A v \in stored : accounts'[v] = accounts[v]
    BY <1>3
  <2> QED
    BY <1>1, <2>1, <1>8 DEF DbInv, InsertsApart, InsertsFit
<1>10. ASSUME NEW x \in Txns PROVE StageFits(x)' /\ DeletesItsOwn(x)' /\ ReadsOne(x)'
  <2>1. CASE x = t
    BY <1>1, <1>2, <2>1 DEF StageFits, DeletesItsOwn, ReadsOne
  <2>2. CASE x # t
    BY <1>1, <1>3, <2>2 DEF DbInv, StageFits, DeletesItsOwn, ReadsOne
  <2> QED
    BY <2>1, <2>2
<1>11. \A v \in Old : stage'[v] = "idle"
  BY <1>1, DbAssumption DEF DbInv
<1> QED
  BY <1>4, <1>5, <1>6, <1>7, <1>9, <1>10, <1>11 DEF DbInv

(* A statement changes its own transaction's variables only. *)
LEMMA StatementPreserves ==
    ASSUME DbInv, NEW t \in Txns, stage[t] # "done", TypeOK',
           UNCHANGED <<op, accounts, stored>>,
           \A x \in Requests : x # t =>
               /\ stage'[x] = stage[x] /\ todo'[x] = todo[x] /\ found'[x] = found[x]
               /\ deleted'[x] = deleted[x] /\ snapshot'[x] = snapshot[x]
               /\ seen'[x] = seen[x] /\ result'[x] = result[x],
           found'[t] \cup deleted'[t] \cup snapshot'[t]
               \subseteq stored \cup found[t] \cup deleted[t] \cup snapshot[t],
           deleted[t] \subseteq deleted'[t],
           \A x \in Txns : x # t => deleted'[t] \cap deleted[x] = {},
           \A a \in Inserted(t)' \ Inserted(t) :
               /\ \A x \in Txns : x # t => \A b \in Inserted(x) : ~Clash(a, b)
               /\ \A v \in stored \ deleted[t] : \A b \in accounts[v] : ~Clash(a, b),
           StageFits(t)', DeletesItsOwn(t)', ReadsOne(t)',
           op[t] = "get" /\ result'[t] = "ok" =>
               \E v \in snapshot'[t] : seen'[t] = accounts[v]
    PROVE  DbInv'
<1> USE DEF Requests
<1>1. KeysUnique'
  BY DEF DbInv, KeysUnique
<1>2. ReadsWholeVerification'
  BY DEF DbInv, ReadsWholeVerification
<1>3. KnownIsDone'
  BY DEF DbInv, KnownIsDone
<1>4. LocksApart'
  BY DEF DbInv, LocksApart
<1>5. \A x \in Txns : x # t => Inserted(x)' = Inserted(x)
  BY DEF Inserted
<1>6. InsertsApart'
  <2>1. \A a, b : Clash(a, b) => Clash(b, a)
    BY DEF Clash, SameUser, SameCred
  <2>2. \A x, y \in Txns : x # t /\ y # t /\ x # y =>
           \A a \in Inserted(x)', b \in Inserted(y)' : ~Clash(a, b)
    BY <1>5 DEF DbInv, InsertsApart
  <2>3. \A x \in Txns : x # t =>
           \A a \in Inserted(t)', b \in Inserted(x)' : ~Clash(a, b)
    BY <1>5 DEF DbInv, InsertsApart
  <2> HIDE DEF Clash
  <2> QED
    BY <2>1, <2>2, <2>3 DEF InsertsApart
<1>7. InsertsFit'
  <2>1. \A x \in Txns : x # t => Inserted(x)' = Inserted(x) /\ deleted'[x] = deleted[x]
    BY <1>5
  <2>2. \A v \in stored \ deleted'[t] :
           \A a \in Inserted(t)', b \in accounts[v] : ~Clash(a, b)
    BY DEF DbInv, InsertsFit
  <2> QED
    BY <2>1, <2>2 DEF DbInv, InsertsFit
<1>8. \A x \in Txns : StageFits(x)' /\ DeletesItsOwn(x)' /\ ReadsOne(x)'
  BY DEF DbInv, StageFits, DeletesItsOwn, ReadsOne
<1>9. \A v \in Old : stage'[v] = "idle"
  BY DbAssumption DEF DbInv
<1> QED
  BY <1>1, <1>2, <1>3, <1>4, <1>6, <1>7, <1>8, <1>9 DEF DbInv

LEMMA SelectPreserves ==
    ASSUME DbInv, NEW t \in Txns, Select(t)
    PROVE  DbInv'
<1> USE DEF Requests
<1> DEFINE a == First(todo[t])
           hits == WithCred(stored \ deleted[t], a)
<1>1. /\ stage[t] = "deleting" /\ todo[t] # {} /\ found[t] = {}
      /\ found' = [found EXCEPT ![t] = hits]
      /\ todo' = IF hits = {} THEN [todo EXCEPT ![t] = @ \ {a}] ELSE todo
      /\ UNCHANGED <<op, accounts, stored, stage, deleted, snapshot, seen, result>>
  BY DEF Select
<1>2. a \in accounts[t]
  <2>1. todo[t] \in Entry
    BY DEF DbInv, TypeOK
  <2>2. a \in todo[t]
    BY <1>1, <2>1, FirstIn
  <2> QED
    BY <1>1, <2>2 DEF DbInv, StageFits
<1>3. hits \subseteq stored /\ \A v \in hits : \E b \in accounts[v] : SameCred(a, b)
  BY DEF WithCred
<1> HIDE DEF a, hits
<1>4. /\ found'[t] = hits /\ todo'[t] \subseteq todo[t]
      /\ \A x \in Requests : x # t => todo'[x] = todo[x] /\ found'[x] = found[x]
  BY <1>1 DEF DbInv, TypeOK
<1>5. TypeOK'
  <2>1. todo' \in [Requests -> Entry]
    BY <1>1 DEF DbInv, TypeOK, Entry
  <2>2. found' \in [Requests -> SUBSET Requests]
    BY <1>1, <1>3 DEF DbInv, TypeOK
  <2>3. \A x \in Requests : stage[x] \in {"idle", "done"} => found'[x] = {}
    BY <1>1, <1>4 DEF DbInv, TypeOK
  <2> QED
    BY <1>1, <2>1, <2>2, <2>3 DEF DbInv, TypeOK
<1>6. Inserted(t)' = {}
  BY <1>1 DEF Inserted
<1>7. StageFits(t)' /\ DeletesItsOwn(t)' /\ ReadsOne(t)'
  BY <1>1, <1>2, <1>3, <1>4 DEF DbInv, StageFits, DeletesItsOwn, ReadsOne
<1>8. result'[t] = "none"
  BY <1>1 DEF DbInv, StageFits
<1>9. \A x \in Txns : x # t => deleted'[t] \cap deleted[x] = {}
  BY <1>1 DEF DbInv, LocksApart
<1> QED
  BY <1>1, <1>3, <1>4, <1>5, <1>6, <1>7, <1>8, <1>9, StatementPreserves

LEMMA DeletePreserves ==
    ASSUME DbInv, NEW t \in Txns, Delete(t)
    PROVE  DbInv'
<1> USE DEF Requests
<1>1. /\ stage[t] = "deleting" /\ found[t] # {} /\ Blockers(t) = {}
      /\ deleted' = [deleted EXCEPT ![t] = @ \cup (found[t] \cap stored)]
      /\ found' = [found EXCEPT ![t] = {}]
      /\ todo' = [todo EXCEPT ![t] = @ \ {First(@)}]
      /\ UNCHANGED <<op, accounts, stored, stage, snapshot, seen, result>>
  BY DEF Delete
<1>2. /\ deleted'[t] = deleted[t] \cup (found[t] \cap stored) /\ found'[t] = {}
      /\ todo'[t] \subseteq todo[t]
      /\ \A x \in Requests : x # t =>
            todo'[x] = todo[x] /\ found'[x] = found[x] /\ deleted'[x] = deleted[x]
  BY <1>1 DEF DbInv, TypeOK
<1>3. TypeOK'
  <2>1. todo' \in [Requests -> Entry]
    BY <1>1 DEF DbInv, TypeOK, Entry
  <2>2. /\ found' \in [Requests -> SUBSET Requests]
        /\ deleted' \in [Requests -> SUBSET Requests]
    BY <1>1 DEF DbInv, TypeOK
  <2>3. \A x \in Requests :
           /\ deleted'[x] \subseteq stored
           /\ stage[x] \in {"idle", "done"} => found'[x] = {} /\ deleted'[x] = {}
    BY <1>1, <1>2 DEF DbInv, TypeOK
  <2> QED
    BY <1>1, <2>1, <2>2, <2>3 DEF DbInv, TypeOK
<1>4. \A x \in Txns : x # t => deleted'[t] \cap deleted[x] = {}
  BY <1>1, <1>2 DEF Blockers, DbInv, LocksApart
<1>5. Inserted(t)' = {}
  BY <1>1 DEF Inserted
<1>6. StageFits(t)' /\ DeletesItsOwn(t)' /\ ReadsOne(t)'
  BY <1>1, <1>2 DEF DbInv, StageFits, DeletesItsOwn, ReadsOne
<1>7. result'[t] = "none"
  BY <1>1 DEF DbInv, StageFits
<1> QED
  BY <1>1, <1>2, <1>3, <1>4, <1>5, <1>6, <1>7, StatementPreserves

LEMMA InsertVerificationPreserves ==
    ASSUME DbInv, NEW t \in Txns, InsertVerification(t)
    PROVE  DbInv'
<1> USE DEF Requests
<1>1. /\ op[t] = "add" /\ stage[t] = "deleting"
      /\ stage' = [stage EXCEPT ![t] = "inserting"]
      /\ todo' = [todo EXCEPT ![t] = accounts[t]]
      /\ UNCHANGED <<op, accounts, stored, found, deleted, snapshot, seen, result>>
  BY DEF InsertVerification
<1>2. /\ stage'[t] = "inserting" /\ todo'[t] = accounts[t]
      /\ \A x \in Requests : x # t => stage'[x] = stage[x] /\ todo'[x] = todo[x]
  BY <1>1 DEF DbInv, TypeOK
<1>3. TypeOK'
  <2>1. todo' \in [Requests -> Entry] /\ stage' \in [Requests -> Stage]
    BY <1>1 DEF DbInv, TypeOK, Stage
  <2> QED
    BY <1>1, <1>2, <2>1 DEF DbInv, TypeOK
<1>4. Inserted(t)' = {}
  BY <1>1, <1>2 DEF Inserted
<1>5. StageFits(t)' /\ DeletesItsOwn(t)' /\ ReadsOne(t)'
  BY <1>1, <1>2 DEF DbInv, StageFits, DeletesItsOwn, ReadsOne
<1>6. \A x \in Txns : x # t => deleted'[t] \cap deleted[x] = {}
  BY <1>1 DEF DbInv, LocksApart
<1> QED
  BY <1>1, <1>2, <1>3, <1>4, <1>5, <1>6, StatementPreserves

(* A row that is inserted shares no key with any other transaction's, for it
   waited for them, nor with what is committed. *)
LEMMA AddPlatformEntryPreserves ==
    ASSUME DbInv, NEW t \in Txns, AddPlatformEntry(t)
    PROVE  DbInv'
<1> USE DEF Requests
<1> DEFINE a == First(todo[t])
           others == stored \ deleted[t]
<1>1. stage[t] = "inserting" /\ todo[t] # {} /\ Blockers(t) = {}
  BY DEF AddPlatformEntry
<1>2. CASE Rollback(t, "clash") \/ Rollback(t, "error")
  BY <1>1, <1>2, RollbackPreserves DEF Result
<1>3. CASE /\ WithUser(others, a) = {} /\ WithCred(others, a) = {}
           /\ todo' = [todo EXCEPT ![t] = @ \ {a}]
           /\ UNCHANGED <<op, accounts, stored, stage, found, deleted, snapshot,
                          seen, result>>
  <2>1. \A v \in stored \ deleted[t] : \A b \in accounts[v] : ~Clash(a, b)
    BY <1>3 DEF WithUser, WithCred, Clash
  <2>2. \A x \in Txns : x # t => \A b \in Inserted(x) : ~Clash(a, b)
    BY <1>1 DEF Blockers, KeyTaken, Clash
  <2> HIDE DEF a
  <2>3. /\ todo'[t] = todo[t] \ {a}
        /\ \A x \in Requests : x # t => todo'[x] = todo[x]
    BY <1>3 DEF DbInv, TypeOK
  <2>4. Inserted(t)' \subseteq Inserted(t) \cup {a}
    BY <1>1, <1>3, <2>3 DEF Inserted
  <2>5. TypeOK'
    <3>1. todo' \in [Requests -> Entry]
      BY <1>3 DEF DbInv, TypeOK, Entry
    <3> QED
      BY <1>3, <3>1 DEF DbInv, TypeOK
  <2>6. StageFits(t)' /\ DeletesItsOwn(t)' /\ ReadsOne(t)'
    BY <1>1, <1>3, <2>3 DEF DbInv, StageFits, DeletesItsOwn, ReadsOne
  <2>7. \A x \in Txns : x # t => deleted'[t] \cap deleted[x] = {}
    BY <1>3 DEF DbInv, LocksApart
  <2>8. result'[t] = "none"
    BY <1>1, <1>3 DEF DbInv, StageFits
  <2>9. \A c \in Inserted(t)' \ Inserted(t) :
           /\ \A x \in Txns : x # t => \A b \in Inserted(x) : ~Clash(c, b)
           /\ \A v \in stored \ deleted[t] : \A b \in accounts[v] : ~Clash(c, b)
    BY <2>1, <2>2, <2>4
  <2> QED
    BY <1>1, <1>3, <2>3, <2>5, <2>6, <2>7, <2>8, <2>9, StatementPreserves
<1> QED
  BY <1>2, <1>3 DEF AddPlatformEntry

(* The rows of a user belong to one verification. *)
LEMMA SelectUserPreserves ==
    ASSUME DbInv, NEW t \in Txns, SelectUser(t)
    PROVE  DbInv'
<1> USE DEF Requests
<1> DEFINE a == First(accounts[t])
           hits == WithUser(stored, a)
           rows == {b \in UNION {accounts[v] : v \in hits} : SameUser(a, b)}
<1>1. stage[t] = "reading" /\ op[t] = "get"
  BY DEF SelectUser, DbInv, StageFits
<1>2. CASE hits = {}
  BY <1>1, <1>2, RollbackPreserves DEF SelectUser, Result
<1>3. CASE hits # {}
  <2>1. /\ stage' = [stage EXCEPT ![t] = "naming"]
        /\ found' = [found EXCEPT ![t] = hits]
        /\ snapshot' = [snapshot EXCEPT ![t] = stored]
        /\ seen' = [seen EXCEPT ![t] = rows]
        /\ UNCHANGED <<op, accounts, stored, todo, deleted, result>>
    BY <1>3 DEF SelectUser
  <2>2. PICK v \in stored : hits = {v}
    BY <1>3 DEF WithUser, DbInv, KeysUnique, SameUser
  <2>3. rows \subseteq accounts[v] /\ accounts[v] \subseteq Account
    BY <2>2 DEF DbInv, TypeOK, Entry
  <2> HIDE DEF hits, rows, a
  <2>4. /\ stage'[t] = "naming" /\ found'[t] = {v} /\ snapshot'[t] = stored /\ seen'[t] = rows
        /\ \A x \in Requests : x # t =>
              /\ stage'[x] = stage[x] /\ found'[x] = found[x]
              /\ snapshot'[x] = snapshot[x] /\ seen'[x] = seen[x]
    BY <2>1, <2>2 DEF DbInv, TypeOK
  <2>5. TypeOK'
    <3>1. /\ stage' \in [Requests -> Stage] /\ found' \in [Requests -> SUBSET Requests]
          /\ snapshot' \in [Requests -> SUBSET Requests]
      BY <2>1, <2>2 DEF DbInv, TypeOK, Stage
    <3>2. seen' \in [Requests -> SUBSET Account]
      BY <2>1, <2>3 DEF DbInv, TypeOK
    <3>3. \A x \in Requests : stage'[x] \in {"idle", "done"} => found'[x] = {} /\ deleted'[x] = {}
      BY <2>1, <2>4 DEF DbInv, TypeOK
    <3> QED
      BY <2>1, <3>1, <3>2, <3>3 DEF DbInv, TypeOK
  <2>6. Inserted(t)' = {}
    BY <2>4 DEF Inserted
  <2>7. StageFits(t)' /\ DeletesItsOwn(t)' /\ ReadsOne(t)'
    BY <1>1, <2>1, <2>3, <2>4 DEF DbInv, StageFits, DeletesItsOwn, ReadsOne
  <2>8. \A x \in Txns : x # t => deleted'[t] \cap deleted[x] = {}
    BY <2>1 DEF DbInv, LocksApart
  <2>9. result'[t] = "none"
    BY <1>1, <2>1 DEF DbInv, StageFits
  <2> QED
    BY <1>1, <2>1, <2>4, <2>5, <2>6, <2>7, <2>8, <2>9, StatementPreserves
<1> QED
  BY <1>2, <1>3

(* Its verification is still in the snapshot when the lookup reads the names. *)
LEMMA SelectVerificationPreserves ==
    ASSUME DbInv, NEW t \in Txns, SelectVerification(t)
    PROVE  DbInv'
<1> USE DEF Requests
<1>1. stage[t] = "naming" /\ op[t] = "get"
  BY DEF SelectVerification, DbInv, StageFits
<1>2. PICK v \in snapshot[t] : found[t] = {v} /\ seen[t] \subseteq accounts[v]
  BY <1>1 DEF DbInv, ReadsOne
<1>3. /\ stage' = [stage EXCEPT ![t] = "joining"]
      /\ UNCHANGED <<op, accounts, stored, todo, found, deleted, snapshot, seen, result>>
  BY <1>2 DEF SelectVerification, Visible
<1>4. /\ stage'[t] = "joining"
      /\ \A x \in Requests : x # t => stage'[x] = stage[x]
  BY <1>3 DEF DbInv, TypeOK
<1>5. TypeOK'
  <2>1. stage' \in [Requests -> Stage]
    BY <1>3 DEF DbInv, TypeOK, Stage
  <2> QED
    BY <1>3, <1>4, <2>1 DEF DbInv, TypeOK
<1>6. Inserted(t)' = {}
  BY <1>4 DEF Inserted
<1>7. StageFits(t)' /\ DeletesItsOwn(t)' /\ ReadsOne(t)'
  BY <1>1, <1>2, <1>3, <1>4 DEF DbInv, StageFits, DeletesItsOwn, ReadsOne
<1>8. \A x \in Txns : x # t => deleted'[t] \cap deleted[x] = {}
  BY <1>3 DEF DbInv, LocksApart
<1>9. result'[t] = "none"
  BY <1>1, <1>3 DEF DbInv, StageFits
<1> QED
  BY <1>1, <1>3, <1>4, <1>5, <1>6, <1>7, <1>8, <1>9, StatementPreserves

LEMMA SelectOtherPreserves ==
    ASSUME DbInv, NEW t \in Txns, SelectOther(t)
    PROVE  DbInv'
<1> USE DEF Requests
<1>1. stage[t] = "joining" /\ op[t] = "get"
  BY DEF SelectOther, DbInv, StageFits
<1>2. PICK v \in snapshot[t] : found[t] = {v} /\ seen[t] \subseteq accounts[v]
  BY <1>1 DEF DbInv, ReadsOne
<1>3. /\ stage' = [stage EXCEPT ![t] = "done"]
      /\ seen' = [seen EXCEPT ![t] = @ \cup UNION {accounts[w] : w \in found[t] \cap Visible(t)}]
      /\ found' = [found EXCEPT ![t] = {}]
      /\ result' = [result EXCEPT ![t] = "ok"]
      /\ UNCHANGED <<op, accounts, stored, todo, deleted, snapshot>>
  BY DEF SelectOther
<1>4. UNION {accounts[w] : w \in found[t] \cap Visible(t)} = accounts[v]
  BY <1>2 DEF Visible
<1>5. /\ stage'[t] = "done" /\ found'[t] = {} /\ result'[t] = "ok" /\ seen'[t] = accounts[v]
      /\ \A x \in Requests : x # t =>
            /\ stage'[x] = stage[x] /\ found'[x] = found[x]
            /\ seen'[x] = seen[x] /\ result'[x] = result[x]
  BY <1>2, <1>3, <1>4 DEF DbInv, TypeOK
<1>6. deleted[t] = {}
  BY <1>1 DEF DbInv, StageFits
<1>7. TypeOK'
  <2>1. /\ stage' \in [Requests -> Stage] /\ found' \in [Requests -> SUBSET Requests]
        /\ result' \in [Requests -> Result]
    BY <1>3 DEF DbInv, TypeOK, Stage, Result
  <2>2. accounts[v] \subseteq Account
    BY <1>2 DEF DbInv, TypeOK, Entry
  <2>3. seen' \in [Requests -> SUBSET Account]
    BY <1>3, <1>4, <2>2 DEF DbInv, TypeOK
  <2>4. \A x \in Requests : stage'[x] \in {"idle", "done"} => found'[x] = {} /\ deleted'[x] = {}
    BY <1>3, <1>5, <1>6 DEF DbInv, TypeOK
  <2> QED
    BY <1>3, <2>1, <2>3, <2>4 DEF DbInv, TypeOK
<1>8. Inserted(t)' = {}
  BY <1>5 DEF Inserted
<1>9. StageFits(t)' /\ DeletesItsOwn(t)' /\ ReadsOne(t)'
  BY <1>1, <1>3, <1>5, <1>6 DEF DbInv, StageFits, DeletesItsOwn, ReadsOne
<1>10. \A x \in Txns : x # t => deleted'[t] \cap deleted[x] = {}
  BY <1>3, <1>6
<1> QED
  BY <1>1, <1>2, <1>3, <1>5, <1>7, <1>8, <1>9, <1>10, StatementPreserves

(* Only a transaction that has work to do waits. *)
LEMMA WaitersRun ==
    ASSUME DbInv, NEW t \in Txns, BreakDeadlock(t) \/ Abandon(t)
    PROVE  Rollback(t, "error") /\ stage[t] \notin {"idle", "done"}
<1>1. CASE Abandon(t)
  BY <1>1 DEF Abandon
<1>2. CASE BreakDeadlock(t)
  <2>1. Blockers(t) # {} /\ Rollback(t, "error")
    BY <1>2 DEF BreakDeadlock
  <2>2. stage[t] \in {"deleting", "inserting"}
    BY <2>1 DEF Blockers
  <2> QED
    BY <2>1, <2>2
<1> QED
  BY <1>1, <1>2

LEMMA CallPreserves ==
    ASSUME DbInv, NEW t \in Txns, Call(t)
    PROVE  DbInv'
<1>1. ASSUME NEW as \in Entry \ {{}}, Begin(t, "add", as) PROVE DbInv'
  BY <1>1, BeginPreserves
<1>2. ASSUME NEW o \in {"remove", "get"}, NEW a \in Account, Begin(t, o, {a}) PROVE DbInv'
  <2>1. {a} \in Entry /\ {a} # {}
    BY DEF Entry
  <2> QED
    BY <1>2, <2>1, BeginPreserves
<1> QED
  BY <1>1, <1>2 DEF Call

LEMMA NextPreserves ==
    ASSUME DbInv, [Next]_dbVars
    PROVE  DbInv'
<1>1. ASSUME NEW t \in Txns, Statement(t) PROVE DbInv'
  BY <1>1, SelectPreserves, DeletePreserves, InsertVerificationPreserves,
     AddPlatformEntryPreserves, CommitAddPreserves, CommitRemovePreserves,
     SelectUserPreserves, SelectVerificationPreserves, SelectOtherPreserves DEF Statement
<1>2. ASSUME NEW t \in Txns, Abandon(t) \/ BreakDeadlock(t) PROVE DbInv'
  BY <1>2, WaitersRun, RollbackPreserves DEF Result
<1>3. ASSUME NEW t \in Txns, Call(t) PROVE DbInv'
  BY <1>3, CallPreserves
<1>4. CASE UNCHANGED dbVars
  <2>1. TypeOK' /\ KeysUnique' /\ ReadsWholeVerification'
    BY <1>4 DEF dbVars, DbInv, TypeOK, KeysUnique, ReadsWholeVerification
  <2>2. KnownIsDone' /\ LocksApart'
    BY <1>4 DEF dbVars, DbInv, KnownIsDone, LocksApart
  <2>3. \A t : Inserted(t)' = Inserted(t)
    BY <1>4 DEF dbVars, Inserted
  <2>4. InsertsApart' /\ InsertsFit'
    BY <1>4, <2>3 DEF dbVars, DbInv, InsertsApart, InsertsFit
  <2>5. /\ \A v \in Old : stage'[v] = "idle"
        /\ \A t \in Txns : StageFits(t)' /\ DeletesItsOwn(t)' /\ ReadsOne(t)'
    BY <1>4 DEF dbVars, DbInv, StageFits, DeletesItsOwn, ReadsOne
  <2> QED
    BY <2>1, <2>2, <2>4, <2>5 DEF DbInv
<1> QED
  BY <1>1, <1>2, <1>3, <1>4 DEF Next

-----------------------------------------------------------------------------
(* The invariant holds however the statements of transactions follow. *)
THEOREM DbInvHolds == Spec => []DbInv
<1> QED
  BY InitInv, NextPreserves, PTL DEF Spec

(* The types; locks are held on committed rows, by transactions under way. *)
THEOREM DbTypes == Spec => []TypeOK
<1>1. DbInv => TypeOK
  BY DEF DbInv
<1> QED
  BY <1>1, DbInvHolds, PTL

(* The keys of the platform tables hold, however many transactions insert and
   delete side by side. *)
THEOREM DbKeysUnique == Spec => []KeysUnique
<1>1. DbInv => KeysUnique
  BY DEF DbInv
<1> QED
  BY <1>1, DbInvHolds, PTL

(* A lookup returns one verification, whole. *)
THEOREM DbReadsWhole == Spec => []ReadsWholeVerification
<1>1. DbInv => ReadsWholeVerification
  BY DEF DbInv
<1> QED
  BY <1>1, DbInvHolds, PTL

(* Refinement: the commit of an addition replaces, that of a removal forgets
   or does nothing, and no other statement changes what is committed. *)
LEMMA AddReplaces ==
    ASSUME DbInv, NEW t \in Txns, CommitAdd(t)
    PROVE  Store!Replace(t)
<1>1. /\ stage[t] = "inserting" /\ todo[t] = {}
      /\ stored' = (stored \ deleted[t]) \cup {t}
  BY DEF CommitAdd
<1> QED
  BY <1>1, AddDeletesAll DEF Store!Replace, Clash, SameUser

LEMMA RemovalForgets ==
    ASSUME DbInv, NEW t \in Txns, CommitRemove(t)
    PROVE  Store!Forget(t) \/ UNCHANGED stored
<1>1. /\ stage[t] = "deleting" /\ op[t] = "remove" /\ stored' = stored \ deleted[t]
  BY DEF CommitRemove
<1>2. t \notin stored
  BY <1>1 DEF DbInv, KnownIsDone
<1>3. CASE deleted[t] # {}
  BY <1>1, <1>2, <1>3, RemovalDeletesAll DEF Store!Forget
<1>4. CASE deleted[t] = {}
  BY <1>1, <1>4
<1> QED
  BY <1>3, <1>4

LEMMA StepRefines ==
    ASSUME DbInv, [Next]_dbVars
    PROVE  [Store!Next]_stored
<1>1. ASSUME NEW t \in Txns, CommitAdd(t) PROVE Store!Next
  BY <1>1, AddReplaces DEF Store!Next, Requests
<1>2. ASSUME NEW t \in Txns, CommitRemove(t) PROVE Store!Next \/ UNCHANGED stored
  BY <1>2, RemovalForgets DEF Store!Next, Requests
<1>3. ASSUME NEW t \in Txns,
             \/ Select(t) \/ Delete(t) \/ InsertVerification(t) \/ AddPlatformEntry(t)
             \/ SelectUser(t) \/ SelectVerification(t) \/ SelectOther(t)
             \/ Call(t) \/ Abandon(t) \/ BreakDeadlock(t)
      PROVE  UNCHANGED stored
  BY <1>3 DEF Select, Delete, InsertVerification, AddPlatformEntry, SelectUser,
     SelectVerification, SelectOther, Call, Begin, Abandon, BreakDeadlock, Rollback
<1>4. CASE UNCHANGED dbVars
  BY <1>4 DEF dbVars
<1> QED
  BY <1>1, <1>2, <1>3, <1>4 DEF Next, Statement

(* The transactions of db.rs do what VerificationStore promises: committed
   requests have the effect of one at a time. *)
THEOREM DbImplementsStore == Spec => ImplementsStore
<1>1. Init => Store!Init
  BY DEF Init, Store!Init, Requests
<1>2. DbInv /\ [Next]_dbVars => [Store!Next]_stored
  BY StepRefines
<1> QED
  BY <1>1, <1>2, DbInvHolds, PTL DEF Spec, ImplementsStore, Store!Spec
=============================================================================
