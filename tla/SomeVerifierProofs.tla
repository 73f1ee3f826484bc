-------------------------- MODULE SomeVerifierProofs --------------------------
(***************************************************************************)
(* Theorems about the example verifier, for every set of requests, lookups *)
(* and credentials, every limit of the timestamp and every interleaving.   *)
(***************************************************************************)
EXTENDS SomeVerifier, FiniteSetTheorems, WellFoundedInduction, TLAPS

(* Induction, on a set instead of a predicate: what holds of 0 and goes on
   from each number below n to the next holds up to n. *)
LEMMA LeastElement ==
    ASSUME NEW T, T \subseteq Nat, T # {}
    PROVE  \E x \in T : \A y \in T : x <= y
<1> DEFINE Less == {p \in Nat \X Nat : p[1] < p[2]}
<1>1. IsWellFoundedOn(Less, Nat)
  BY NatLessThanWellFounded DEF OpToRel
<1> HIDE DEF Less
<1>2. PICK x \in T : \A y \in T : <<y, x>> \notin Less
  BY <1>1, WFMin
<1>3. \A y \in T : y < x => <<y, x>> \in Less
  BY DEF Less
<1>4. \A y \in T : ~(y < x)
  BY <1>2, <1>3
<1>5. \A y \in T : x <= y
  BY <1>4
<1> QED
  BY <1>5

LEMMA InductionUpTo ==
    ASSUME NEW n \in Nat, NEW S, 0 \in S,
           \A i \in 1..n : i - 1 \in S => i \in S
    PROVE  0..n \subseteq S
<1> DEFINE Out == 0..n \ S
<1>1. SUFFICES ASSUME Out # {} PROVE FALSE
  OBVIOUS
<1>2. Out \subseteq Nat
  OBVIOUS
<1>3. PICK x \in Out : \A y \in Out : x <= y
  BY <1>1, <1>2, LeastElement
<1>4. x \in 1..n /\ x - 1 \in 0..n /\ x - 1 \notin Out
  BY <1>3
<1> QED
  BY <1>4

-----------------------------------------------------------------------------
(* The loop over the statements. *)
Row == [plat : Platforms \cup {"other"}, id : Ids, cred : Creds]
Entries == [valid : BOOLEAN, telegram : SUBSET Row, discord : SUBSET Row, name : SUBSET Creds]
RowOf(s) == [plat |-> s.contract, id |-> s.id, cred |-> s.cred]
Stmts == Seq(Web3Id \cup Account)

Loop(stmts, f) ==
    f = [i \in 0..Len(stmts) |-> IF i = 0 THEN NoEntry ELSE AddStatement(f[i - 1], stmts[i])]

(* The loop runs to the end: there is a function that has the entry after each
   statement. *)
LEMMA LoopRuns ==
    ASSUME NEW stmts \in Stmts
    PROVE  \E f : Loop(stmts, f) /\ Entry(stmts) = f[Len(stmts)]
<1> DEFINE N == Len(stmts)
           Upto(k, f) == f = [i \in 0..k |-> IF i = 0 THEN NoEntry
                                                ELSE AddStatement(f[i - 1], stmts[i])]
           S == {k \in 0..N : \E f : Upto(k, f)}
<1>1. N \in Nat
  BY DEF Stmts
<1>2. Upto(0, [i \in 0..0 |-> NoEntry])
  OBVIOUS
<1>3. \A i \in 1..N : \A f : Upto(i - 1, f) => \E g : Upto(i, g)
  <2>1. SUFFICES ASSUME NEW i \in 1..N, NEW f, Upto(i - 1, f)
                 PROVE  \E g : Upto(i, g)
    OBVIOUS
  <2> DEFINE g == [j \in 0..i |-> IF j = i THEN AddStatement(f[i - 1], stmts[i]) ELSE f[j]]
  <2>2. \A j \in 0..i : j # 0 => g[j - 1] = f[j - 1]
    BY <2>1
  <2>3. \A j \in 0..i : g[j] = IF j = 0 THEN NoEntry ELSE AddStatement(g[j - 1], stmts[j])
    BY <2>1, <2>2
  <2>4. g = [j \in 0..i |-> IF j = 0 THEN NoEntry ELSE AddStatement(g[j - 1], stmts[j])]
    BY <2>3, Zenon
  <2> QED
    BY <2>4
<1>4. N \in S
  <2> HIDE DEF Upto
  <2>1. 0 \in S
    BY <1>1, <1>2
  <2>2. \A i \in 1..N : i - 1 \in S => i \in S
    BY <1>1, <1>3
  <2> HIDE DEF S, N
  <2>3. 0..N \subseteq S
    BY <1>1, <2>1, <2>2, InductionUpTo, Zenon
  <2> QED
    BY <1>1, <2>3
<1>5. \E f : Loop(stmts, f)
  BY <1>4 DEF Loop
<1> QED
  BY <1>5 DEF Entry, Loop

(* What the entry e says of the first k statements when none was refused: of
   each platform one row, from the one statement about it, and one name. *)
Tells(stmts, k, e) ==
    /\ \A i \in 1..k : stmts[i].kind = "web3id" =>
          stmts[i].contract \in Platforms /\ e[stmts[i].contract] = {RowOf(stmts[i])}
    /\ \A p \in Platforms : e[p] # {} =>
          \E i \in 1..k : stmts[i].kind = "web3id" /\ stmts[i].contract = p
    /\ \A i, j \in 1..k :
          /\ stmts[i].kind = "web3id" /\ stmts[j].kind = "web3id"
          /\ stmts[i].contract = stmts[j].contract
          => i = j
    /\ \A i \in 1..k : stmts[i].kind = "account" => e.name # {}
    /\ \A i, j \in 1..k :
          stmts[i].kind = "account" /\ stmts[j].kind = "account" => i = j

(* One turn of the loop. *)
LEMMA TurnTells ==
    ASSUME NEW stmts \in Stmts, NEW k \in 1..Len(stmts), NEW e \in Entries,
           e.valid => Tells(stmts, k - 1, e)
    PROVE  LET new == AddStatement(e, stmts[k])
           IN  new \in Entries /\ (new.valid => Tells(stmts, k, new))
<1> DEFINE s == stmts[k]
           new == AddStatement(e, s)
<1>1. s \in Web3Id \/ s \in Account
  BY DEF Stmts
<1>2. \A i \in 1..k : i = k \/ i \in 1..(k - 1)
  OBVIOUS
<1>3. CASE s \in Web3Id /\ new.valid
  <2>1. /\ s.kind = "web3id" /\ e.valid /\ s.contract \in Platforms
        /\ e[s.contract] = {}
        /\ new = [e EXCEPT ![s.contract] = {RowOf(s)}]
    BY <1>3 DEF AddStatement, RowOf, Web3Id, Entries
  <2>2. new \in Entries
    BY <1>3, <2>1 DEF Entries, Web3Id, Row, RowOf, Platforms
  <2>3. /\ new[s.contract] = {RowOf(s)} /\ new.name = e.name
        /\ \A p \in Platforms : p # s.contract => new[p] = e[p]
    BY <2>1 DEF Entries, Platforms
  <2>4. Tells(stmts, k - 1, e)
    BY <2>1
  <2>5. Tells(stmts, k, new)
    <3> HIDE DEF new
    <3>1. \A i \in 1..(k - 1) : stmts[i].kind = "web3id" =>
             /\ stmts[i].contract \in Platforms /\ stmts[i].contract # s.contract
             /\ new[stmts[i].contract] = {RowOf(stmts[i])}
      <4>1. \A i \in 1..(k - 1) : stmts[i].kind = "web3id" =>
               stmts[i].contract \in Platforms /\ e[stmts[i].contract] = {RowOf(stmts[i])}
        BY <2>4 DEF Tells
      <4>2. \A i \in 1..(k - 1) : stmts[i].kind = "web3id" =>
               stmts[i].contract # s.contract
        BY <2>1, <4>1
      <4> QED
        BY <2>3, <4>1, <4>2
    <3>2. \A p \in Platforms : new[p] # {} =>
             \E i \in 1..k : stmts[i].kind = "web3id" /\ stmts[i].contract = p
      BY <1>2, <2>1, <2>3, <2>4 DEF Tells
    <3>3. k \in 1..k /\ s.kind # "account"
      BY <2>1
    <3>4. /\ \A i \in 1..(k - 1) : stmts[i].kind = "account" => new.name # {}
          /\ \A i, j \in 1..(k - 1) :
                stmts[i].kind = "account" /\ stmts[j].kind = "account" => i = j
          /\ \A i, j \in 1..(k - 1) :
                /\ stmts[i].kind = "web3id" /\ stmts[j].kind = "web3id"
                /\ stmts[i].contract = stmts[j].contract
                => i = j
      BY <2>3, <2>4 DEF Tells
    <3>5. \A i \in 1..k : stmts[i].kind = "web3id" =>
             stmts[i].contract \in Platforms /\ new[stmts[i].contract] = {RowOf(stmts[i])}
      BY <1>2, <2>1, <2>3, <3>1
    <3>6. /\ \A i \in 1..k : stmts[i].kind = "account" => new.name # {}
          /\ \A i, j \in 1..k :
                stmts[i].kind = "account" /\ stmts[j].kind = "account" => i = j
      BY <1>2, <3>3, <3>4
    <3>7. \A i, j \in 1..k :
             /\ stmts[i].kind = "web3id" /\ stmts[j].kind = "web3id"
             /\ stmts[i].contract = stmts[j].contract
             => i = j
      BY <1>2, <3>1, <3>4
    <3> QED
      BY <3>2, <3>5, <3>6, <3>7 DEF Tells
  <2> QED
    BY <2>2, <2>5
<1>4. CASE s \in Account /\ new.valid
  <2>1. /\ s.kind = "account" /\ e.valid /\ e.name = {}
        /\ new = [e EXCEPT !.name = {s.cred}]
    BY <1>4 DEF AddStatement, Account, Entries
  <2>2. new \in Entries
    BY <1>4, <2>1 DEF Entries, Account
  <2>3. new.name # {} /\ \A p \in Platforms : new[p] = e[p]
    BY <2>1 DEF Entries, Platforms
  <2>4. Tells(stmts, k - 1, e)
    BY <2>1
  <2>5. Tells(stmts, k, new)
    <3> HIDE DEF new
    <3>1. k \in 1..k /\ s.kind # "web3id"
      BY <2>1
    <3>2. \A i \in 1..(k - 1) : stmts[i].kind # "account"
      BY <2>1, <2>4 DEF Tells
    <3>3. \A i \in 1..k : stmts[i].kind = "web3id" =>
             stmts[i].contract \in Platforms /\ new[stmts[i].contract] = {RowOf(stmts[i])}
      BY <1>2, <2>3, <2>4, <3>1 DEF Tells
    <3>4. \A p \in Platforms : new[p] # {} =>
             \E i \in 1..k : stmts[i].kind = "web3id" /\ stmts[i].contract = p
      BY <2>3, <2>4 DEF Tells
    <3>5. \A i, j \in 1..k :
             /\ stmts[i].kind = "web3id" /\ stmts[j].kind = "web3id"
             /\ stmts[i].contract = stmts[j].contract
             => i = j
      BY <1>2, <2>4, <3>1 DEF Tells
    <3>6. \A i, j \in 1..k : stmts[i].kind = "account" /\ stmts[j].kind = "account" => i = j
      BY <1>2, <3>2
    <3> QED
      BY <2>3, <3>3, <3>4, <3>5, <3>6 DEF Tells
  <2> QED
    BY <2>2, <2>5
<1>5. CASE ~new.valid
  <2>1. new \in {e, [e EXCEPT !.valid = FALSE]}
    <3>1. CASE s \in Web3Id
      BY <1>5, <3>1 DEF AddStatement, Entries, Web3Id, Platforms
    <3>2. CASE s \in Account
      BY <1>5, <3>2 DEF AddStatement, Entries, Account
    <3> QED
      BY <1>1, <3>1, <3>2
  <2>2. new \in Entries
    BY <2>1 DEF Entries
  <2> QED
    BY <1>5, <2>2
<1> QED
  BY <1>1, <1>3, <1>4, <1>5

(* proof_to_verifications_entry reads every statement, and only those. *)
LEMMA EntryTells ==
    ASSUME NEW stmts \in Stmts
    PROVE  /\ Entry(stmts) \in Entries
           /\ Entry(stmts).valid => Tells(stmts, Len(stmts), Entry(stmts))
<1>1. PICK f : Loop(stmts, f) /\ Entry(stmts) = f[Len(stmts)]
  BY LoopRuns
<1> DEFINE N == Len(stmts)
           S == {k \in 0..N : f[k] \in Entries /\ (f[k].valid => Tells(stmts, k, f[k]))}
<1>2. N \in Nat
  BY DEF Stmts
<1>3. 0 \in S
  BY <1>1, <1>2 DEF Loop, NoEntry, Entries, Tells, Platforms
<1>4. ASSUME NEW i \in 1..N, i - 1 \in S
      PROVE  i \in S
  <2>1. f[i] = AddStatement(f[i - 1], stmts[i])
    BY <1>1, <1>2 DEF Loop
  <2> QED
    BY <1>4, <2>1, TurnTells
<1>5. 0..N \subseteq S
  <2> HIDE DEF S, N
  <2> QED
    BY <1>2, <1>3, <1>4, InductionUpTo, Zenon
<1> QED
  BY <1>1, <1>2, <1>5

-----------------------------------------------------------------------------
(* The inductive invariant. *)

Learnt == UNION {[D -> Status \cup {"failed"}] : D \in SUBSET Platforms}

VerifierShape ==
    /\ now \in 0..MaxTime
    /\ status \in [Creds -> Status]
    /\ sub \in [Submissions -> Requests]
    /\ phase \in [Submissions -> {"idle", "reading", "storing", "done"}]
    /\ unread \in [Submissions -> SUBSET Creds]
    /\ seen \in [Submissions -> SUBSET (Status \ {"unknown"})]
    /\ reply \in [Submissions -> {"none", "ok", "refused", "failed"}]
    /\ before \in [Submissions -> SUBSET Submissions]
    /\ stored \in SUBSET Submissions
    /\ target \in [Lookups -> Platforms \X Ids]
    /\ look \in [Lookups -> {"idle", "asked", "resolving", "done"}]
    /\ found \in [Lookups -> {{}} \cup {{v} : v \in Submissions}]
    /\ answers \in [Lookups -> Learnt]
    /\ shown \in [Lookups -> {"none", "verified", "not_verified", "sorry"}]
    /\ activeIn \in [Submissions \cup Lookups -> SUBSET Creds]
    /\ storedIn \in [Lookups -> SUBSET Submissions]

(* Only a request that may be added is ever stored. *)
StoredMayAdd == /\ \A v \in stored : MayAdd(v)
                /\ \A q \in Submissions : \A v \in before[q] : MayAdd(v)

(* What a handler watches and is active now was active while it ran. *)
WatchIsKept ==
    \A x \in Submissions \cup Lookups : \A c \in Watched(x) :
        status[c] = "active" => c \in activeIn[x]

(* A handler that has read nothing but "active" knows of every credential it
   has read that it was active; in its call to the database it has read them
   all and checked the rest. *)
ReadWasActive(q) ==
    phase[q] \in {"reading", "storing"} =>
        /\ sub[q].challenge
        /\ seen[q] \subseteq {"active"} => CredsOf(q) \ unread[q] \subseteq activeIn[q]

StoringIsChecked(q) ==
    phase[q] = "storing" => /\ unread[q] = {} /\ seen[q] \subseteq {"active"}
                            /\ sub[q].proof
                            /\ MayAdd(q) \/ MayRemove(q)

(* A lookup has seen all that is stored; what it found names its user, and it
   has learnt of that verification's accounts only; if it learnt that the
   account it is about is active, it was. *)
LookupIsTrue(l) ==
    /\ Running(l) => stored \subseteq storedIn[l]
    /\ look[l] # "resolving" => found[l] = {}
    /\ found[l] \subseteq storedIn[l]
    /\ \A v \in found[l] : /\ MayAdd(v)
                           /\ \E a \in AccountsOf(v) : <<a.plat, a.id>> = target[l]
    /\ \A p \in DOMAIN answers[l] : \E v \in found[l] : \E a \in AccountsOf(v) : a.plat = p
    /\ \A v \in found[l] :
          target[l][1] \in DOMAIN answers[l] /\ answers[l][target[l][1]] = "active"
             => CredentialFor(v, target[l][1]) \in activeIn[l]

VerifierInv == /\ VerifierShape
               /\ StoredMayAdd
               /\ WatchIsKept
               /\ \A q \in Submissions : ReadWasActive(q) /\ StoringIsChecked(q)
               /\ \A l \in Lookups : LookupIsTrue(l)

-----------------------------------------------------------------------------
(* Facts about requests. *)

LEMMA RequestTypes ==
    ASSUME sub \in [Submissions -> Requests], NEW q \in Submissions
    PROVE  /\ sub[q] \in Request /\ sub[q].stmts \in Stmts
           /\ CredsOf(q) \subseteq Creds
<1>1. sub[q] \in Request /\ sub[q].stmts \in Stmts
  BY RequestsAssumption DEF Request, Stmts
<1>2. \A i \in 1..Len(sub[q].stmts) : sub[q].stmts[i] \in Web3Id \cup Account
  BY <1>1 DEF Stmts
<1>3. CredsOf(q) \subseteq Creds
  BY <1>2 DEF CredsOf, Web3Id, Account
<1> QED
  BY <1>1, <1>3

(* A request that may be added names an account of every platform it makes a
   statement about, each with the credential that proves it, and names one. *)
LEMMA AddedAccounts ==
    ASSUME sub \in [Submissions -> Requests], NEW q \in Submissions, MayAdd(q)
    PROVE  LET s == sub[q].stmts
           IN  /\ AccountsOf(q) # {}
               /\ \A i \in 1..Len(s) : s[i].kind = "web3id" => RowOf(s[i]) \in AccountsOf(q)
               /\ \A i, j \in 1..Len(s) :
                     s[i].kind = "account" /\ s[j].kind = "account" => i = j
               /\ \A a \in AccountsOf(q) : /\ a.plat \in Platforms
                                          /\ a.cred \in CredsOf(q)
                                          /\ a.cred = CredentialFor(q, a.plat)
<1> DEFINE s == sub[q].stmts
           e == Entry(s)
<1>1. s \in Stmts /\ Len(s) \in Nat /\ Len(s) >= 2
  BY RequestTypes DEF MayAdd, Stmts
<1>2. \A i \in 1..Len(s) : s[i].kind \in {"web3id", "account"}
  <2>1. \A i \in 1..Len(s) : s[i] \in Web3Id \cup Account
    BY <1>1 DEF Stmts
  <2> QED
    BY <2>1 DEF Web3Id, Account
<1>3. e \in Entries /\ Tells(s, Len(s), e)
  BY <1>1, EntryTells DEF MayAdd
<1>4. AccountsOf(q) = e["telegram"] \cup e["discord"]
  BY DEF AccountsOf, MayAdd
<1> HIDE DEF e, s
<1>5. \A i \in 1..Len(s) : s[i].kind = "web3id" => RowOf(s[i]) \in AccountsOf(q)
  BY <1>3, <1>4 DEF Tells, Platforms
<1>6. \A i, j \in 1..Len(s) : s[i].kind = "account" /\ s[j].kind = "account" => i = j
  BY <1>3 DEF Tells
<1>7. AccountsOf(q) # {}
  <2>1. 1 \in 1..Len(s) /\ 2 \in 1..Len(s)
    BY <1>1
  <2>2. s[1].kind = "web3id" \/ s[2].kind = "web3id"
    BY <1>2, <1>6, <2>1
  <2> QED
    BY <1>5, <2>1, <2>2
<1>8. ASSUME NEW a \in AccountsOf(q)
      PROVE  /\ a.plat \in Platforms /\ a.cred \in CredsOf(q)
             /\ a.cred = CredentialFor(q, a.plat)
  <2>1. PICK p \in Platforms : a \in e[p]
    BY <1>4 DEF Platforms
  <2>2. PICK i \in 1..Len(s) : s[i].kind = "web3id" /\ s[i].contract = p
    BY <1>3, <2>1 DEF Tells
  <2>3. a = RowOf(s[i])
    <3>1. e[s[i].contract] = {RowOf(s[i])}
      BY <1>3, <2>2 DEF Tells
    <3> QED
      BY <2>1, <2>2, <3>1
  <2>4. {j \in 1..Len(s) : s[j].kind = "web3id" /\ s[j].contract = p} = {i}
    BY <1>3, <2>2 DEF Tells
  <2>5. (CHOOSE j \in {i} : \A k \in {i} : j <= k) = i
    OBVIOUS
  <2>6. CredentialFor(q, p) = s[i].cred
    BY <2>4, <2>5 DEF CredentialFor, s
  <2> QED
    BY <2>1, <2>2, <2>3, <2>6 DEF RowOf, CredsOf, s
<1> QED
  BY <1>5, <1>6, <1>7, <1>8 DEF s

(* What a request is about is proved with credentials it presents. *)
LEMMA AccountsAreProved ==
    ASSUME sub \in [Submissions -> Requests], NEW q \in Submissions,
           MayAdd(q) \/ MayRemove(q)
    PROVE  \A a \in AccountsOf(q) : a.cred \in CredsOf(q)
<1>1. CASE MayAdd(q)
  BY <1>1, AddedAccounts
<1>2. CASE MayRemove(q)
  BY <1>2 DEF MayRemove, AccountsOf, CredsOf
<1> QED
  BY <1>1, <1>2

(* A request is what it is. *)
LEMMA RequestsStay ==
    ASSUME UNCHANGED sub
    PROVE  \A q : /\ CredsOf(q)' = CredsOf(q)
                 /\ AccountsOf(q)' = AccountsOf(q)
                 /\ MayAdd(q)' = MayAdd(q)
                 /\ MayRemove(q)' = MayRemove(q)
                 /\ \A p : CredentialFor(q, p)' = CredentialFor(q, p)
BY DEF CredsOf, AccountsOf, MayAdd, MayRemove, CredentialFor

LEMMA ProofsAreCreds ==
    ASSUME sub \in [Submissions -> Requests], NEW l
    PROVE  Proofs(l) \subseteq Creds
<1>1. ASSUME NEW q \in Submissions, NEW a \in AccountsOf(q)
      PROVE  a.cred \in Creds
  <2>1. CASE sub[q].method = "add"
    <3>1. Entry(sub[q].stmts) \in Entries
      BY RequestTypes, EntryTells
    <3> QED
      BY <1>1, <2>1, <3>1 DEF AccountsOf, Entries, Row
  <2>2. CASE sub[q].method # "add"
    <3>1. a.cred \in CredsOf(q)
      BY <1>1, <2>2 DEF AccountsOf, CredsOf
    <3> QED
      BY <3>1, RequestTypes
  <2> QED
    BY <2>1, <2>2
<1> QED
  BY <1>1 DEF Proofs

LEMMA LookupsStay ==
    ASSUME UNCHANGED <<sub, target>>
    PROVE  \A l : Proofs(l)' = Proofs(l)
<1>1. \A q : AccountsOf(q)' = AccountsOf(q)
  BY RequestsStay
<1> QED
  BY <1>1 DEF Proofs

-----------------------------------------------------------------------------
(* The invariant is kept by every step. *)

LEMMA InitInv == Init => VerifierInv
<1> SUFFICES ASSUME Init PROVE VerifierInv
  OBVIOUS
<1>1. VerifierShape
  <2>1. answers \in [Lookups -> Learnt]
    <3>1. << >> \in [{} -> Status \cup {"failed"}]
      OBVIOUS
    <3>2. << >> \in Learnt
      BY <3>1 DEF Learnt
    <3> QED
      BY <3>2 DEF Init
  <2> QED
    BY <2>1, ClockAssumption DEF Init, VerifierShape, Status
<1>2. \A x \in Submissions \cup Lookups : Watched(x) = {}
  BY DEF Watched, Running, Init
<1> QED
  BY <1>1, <1>2 DEF Init, VerifierInv, StoredMayAdd, WatchIsKept, ReadWasActive,
     StoringIsChecked, LookupIsTrue, Running

(* A step that answers a request, whatever it does to what is stored. *)
LEMMA AnswerPreserves ==
    ASSUME VerifierInv, NEW q \in Submissions, NEW r \in {"ok", "refused", "failed"},
           Answer(q, r),
           UNCHANGED <<status, sub, target, look, found, answers, shown>>,
           now' \in 0..MaxTime,
           stored' \subseteq Submissions,
           \A v \in stored' : MayAdd(v),
           storedIn' \in [Lookups -> SUBSET Submissions],
           \A l \in Lookups :
               Running(l) => stored' \subseteq storedIn'[l] /\ storedIn[l] \subseteq storedIn'[l]
    PROVE  VerifierInv'
<1>1. VerifierShape'
  BY DEF VerifierInv, VerifierShape, Answer
<1>2. /\ phase'[q] = "done" /\ activeIn'[q] = {} /\ before'[q] = {}
      /\ \A p \in Submissions : p # q =>
            /\ phase'[p] = phase[p] /\ unread'[p] = unread[p] /\ seen'[p] = seen[p]
            /\ before'[p] = before[p] /\ activeIn'[p] = activeIn[p]
      /\ \A l \in Lookups : activeIn'[l] = activeIn[l]
  BY HandlersAssumption DEF VerifierInv, VerifierShape, Answer
<1>3. StoredMayAdd'
  BY <1>2, RequestsStay DEF VerifierInv, StoredMayAdd
<1>4. WatchIsKept'
  <2>1. \A p \in Submissions \ {q} : Watched(p)' = Watched(p)
    BY <1>2, RequestsStay, HandlersAssumption DEF Watched
  <2>2. \A l \in Lookups : Watched(l)' = Watched(l)
    BY LookupsStay DEF Watched, Running
  <2>3. Watched(q)' = {}
    BY <1>2, HandlersAssumption DEF Watched
  <2> QED
    BY <1>2, <2>1, <2>2, <2>3 DEF VerifierInv, WatchIsKept
<1>5. \A p \in Submissions : ReadWasActive(p)' /\ StoringIsChecked(p)'
  BY <1>2, RequestsStay DEF VerifierInv, ReadWasActive, StoringIsChecked
<1>6. ASSUME NEW l \in Lookups PROVE LookupIsTrue(l)'
  BY <1>2, RequestsStay DEF VerifierInv, LookupIsTrue, Running
<1> QED
  BY <1>1, <1>3, <1>4, <1>5, <1>6 DEF VerifierInv

(* The same, when what is stored stays. *)
LEMMA RefusalPreserves ==
    ASSUME VerifierInv, NEW q \in Submissions, NEW r \in {"ok", "refused", "failed"},
           Answer(q, r), now' \in 0..MaxTime,
           UNCHANGED <<status, sub, stored, target, lookupVars>>
    PROVE  VerifierInv'
<1>1. /\ stored \subseteq Submissions /\ storedIn \in [Lookups -> SUBSET Submissions]
      /\ \A v \in stored : MayAdd(v)
      /\ \A l \in Lookups : Running(l) => stored \subseteq storedIn[l]
  BY DEF VerifierInv, VerifierShape, StoredMayAdd, LookupIsTrue
<1> QED
  BY <1>1, AnswerPreserves DEF lookupVars

LEMMA ArrivePreserves ==
    ASSUME VerifierInv, NEW q \in Submissions, Arrive(q)
    PROVE  VerifierInv'
<1>1. PICK t \in now..MaxTime :
         /\ now' = t
         /\ IF Timely(q, t) /\ sub[q].challenge
            THEN /\ phase' = [phase EXCEPT ![q] = "reading"]
                 /\ unread' = [unread EXCEPT ![q] = CredsOf(q)]
                 /\ activeIn' = [activeIn EXCEPT ![q] = ActiveNow \cap CredsOf(q)]
                 /\ UNCHANGED <<seen, reply, before>>
            ELSE Answer(q, "refused")
  BY DEF Arrive
<1>2. now' \in 0..MaxTime
  BY <1>1, ClockAssumption DEF VerifierInv, VerifierShape
<1>3. CASE ~(Timely(q, t) /\ sub[q].challenge)
  BY <1>1, <1>2, <1>3, RefusalPreserves DEF Arrive
<1>4. CASE Timely(q, t) /\ sub[q].challenge
  <2>1. /\ UNCHANGED <<status, sub, stored, target, look, found, answers, shown, storedIn,
                        seen, reply, before>>
        /\ phase' = [phase EXCEPT ![q] = "reading"]
        /\ unread' = [unread EXCEPT ![q] = CredsOf(q)]
        /\ activeIn' = [activeIn EXCEPT ![q] = ActiveNow \cap CredsOf(q)]
    BY <1>1, <1>4 DEF Arrive, lookupVars
  <2>2. CredsOf(q) \subseteq Creds /\ ActiveNow \cap CredsOf(q) \subseteq Creds
    BY RequestTypes DEF VerifierInv, VerifierShape
  <2>3. VerifierShape'
    BY <1>2, <2>1, <2>2 DEF VerifierInv, VerifierShape
  <2>4. /\ phase'[q] = "reading" /\ unread'[q] = CredsOf(q)
        /\ activeIn'[q] = ActiveNow \cap CredsOf(q)
        /\ \A p \in Submissions : p # q =>
              phase'[p] = phase[p] /\ unread'[p] = unread[p] /\ activeIn'[p] = activeIn[p]
        /\ \A l \in Lookups : activeIn'[l] = activeIn[l]
    BY <2>1, HandlersAssumption DEF VerifierInv, VerifierShape
  <2>5. StoredMayAdd'
    BY <2>1, RequestsStay DEF VerifierInv, StoredMayAdd
  <2>6. WatchIsKept'
    <3>1. \A p \in Submissions \ {q} : Watched(p)' = Watched(p)
      BY <2>1, <2>4, RequestsStay, HandlersAssumption DEF Watched
    <3>2. \A l \in Lookups : Watched(l)' = Watched(l)
      BY <2>1, LookupsStay DEF Watched, Running
    <3>3. Watched(q)' = CredsOf(q)
      BY <2>1, <2>4, RequestsStay, HandlersAssumption DEF Watched
    <3> QED
      BY <2>1, <2>2, <2>4, <3>1, <3>2, <3>3 DEF VerifierInv, WatchIsKept, ActiveNow
  <2>7. \A p \in Submissions : ReadWasActive(p)' /\ StoringIsChecked(p)'
    BY <1>4, <2>1, <2>4, RequestsStay DEF VerifierInv, ReadWasActive, StoringIsChecked
  <2>8. ASSUME NEW l \in Lookups PROVE LookupIsTrue(l)'
    BY <2>1, <2>4, RequestsStay DEF VerifierInv, LookupIsTrue, Running
  <2> QED
    BY <2>3, <2>5, <2>6, <2>7, <2>8 DEF VerifierInv
<1> QED
  BY <1>3, <1>4

(* A status that is read is what the credential's status is now: if it is
   "active", the history has the credential. *)
LEMMA ReadStatusPreserves ==
    ASSUME VerifierInv, NEW q \in Submissions, ReadStatus(q)
    PROVE  VerifierInv'
<1>1. PICK c \in unread[q] :
         IF status[c] = "unknown"
         THEN Answer(q, "refused")
         ELSE /\ unread' = [unread EXCEPT ![q] = @ \ {c}]
              /\ seen' = [seen EXCEPT ![q] = @ \cup {status[c]}]
              /\ UNCHANGED <<phase, reply, before, activeIn>>
  BY DEF ReadStatus
<1>2. UNCHANGED <<now, status, sub, stored, target, lookupVars>> /\ phase[q] = "reading"
  BY DEF ReadStatus, chainVars
<1>3. now' \in 0..MaxTime
  BY <1>2 DEF VerifierInv, VerifierShape
<1>4. CASE status[c] = "unknown"
  BY <1>1, <1>2, <1>3, <1>4, RefusalPreserves
<1>5. CASE status[c] # "unknown"
  <2>1. /\ unread' = [unread EXCEPT ![q] = @ \ {c}]
        /\ seen' = [seen EXCEPT ![q] = @ \cup {status[c]}]
        /\ UNCHANGED <<phase, reply, before, activeIn>>
    BY <1>1, <1>5
  <2>2. c \in Creds /\ status[c] \in Status \ {"unknown"}
    BY <1>5 DEF VerifierInv, VerifierShape
  <2>3. VerifierShape'
    BY <1>2, <2>1, <2>2 DEF VerifierInv, VerifierShape, lookupVars
  <2>4. StoredMayAdd' /\ WatchIsKept'
    BY <1>2, <2>1, RequestsStay, LookupsStay
       DEF VerifierInv, StoredMayAdd, WatchIsKept, Watched, Running, lookupVars
  <2>5. ASSUME NEW p \in Submissions PROVE ReadWasActive(p)'
    <3>1. CASE p # q
      BY <1>2, <2>1, <3>1, RequestsStay DEF VerifierInv, VerifierShape, ReadWasActive
    <3>2. CASE p = q
      <4>1. seen'[q] = seen[q] \cup {status[c]} /\ unread'[q] = unread[q] \ {c}
        BY <2>1 DEF VerifierInv, VerifierShape
      <4>2. c \in CredsOf(q) /\ status[c] = "active" => c \in activeIn[q]
        BY <1>2, HandlersAssumption DEF VerifierInv, WatchIsKept, Watched
      <4> QED
        BY <1>2, <2>1, <3>2, <4>1, <4>2, RequestsStay DEF VerifierInv, ReadWasActive
    <3> QED
      BY <3>1, <3>2
  <2>6. ASSUME NEW p \in Submissions PROVE StoringIsChecked(p)'
    BY <1>2, <2>1, RequestsStay DEF VerifierInv, VerifierShape, StoringIsChecked
  <2>7. ASSUME NEW l \in Lookups PROVE LookupIsTrue(l)'
    BY <1>2, <2>1, RequestsStay DEF VerifierInv, LookupIsTrue, Running, lookupVars
  <2> QED
    BY <2>3, <2>4, <2>5, <2>6, <2>7 DEF VerifierInv
<1> QED
  BY <1>4, <1>5

LEMMA CheckPreserves ==
    ASSUME VerifierInv, NEW q \in Submissions, Check(q)
    PROVE  VerifierInv'
<1>1. UNCHANGED <<now, status, sub, stored, target, lookupVars>>
      /\ phase[q] = "reading" /\ unread[q] = {}
  BY DEF Check, chainVars
<1>2. now' \in 0..MaxTime
  BY <1>1 DEF VerifierInv, VerifierShape
<1>3. CASE ~(Verified(q) /\ (MayAdd(q) \/ MayRemove(q)))
  BY <1>1, <1>2, <1>3, RefusalPreserves DEF Check
<1>4. CASE Verified(q) /\ (MayAdd(q) \/ MayRemove(q))
  <2>1. /\ phase' = [phase EXCEPT ![q] = "storing"]
        /\ before' = [before EXCEPT ![q] = stored]
        /\ UNCHANGED <<unread, seen, reply, activeIn>>
    BY <1>4 DEF Check
  <2>2. VerifierShape'
    BY <1>1, <2>1 DEF VerifierInv, VerifierShape, lookupVars
  <2>3. /\ phase'[q] = "storing" /\ before'[q] = stored
        /\ \A p \in Submissions : p # q => phase'[p] = phase[p] /\ before'[p] = before[p]
    BY <2>1 DEF VerifierInv, VerifierShape
  <2>4. StoredMayAdd'
    BY <1>1, <2>3, RequestsStay DEF VerifierInv, StoredMayAdd
  <2>5. WatchIsKept'
    <3>1. \A x \in Submissions \cup Lookups : Watched(x)' = Watched(x)
      BY <1>1, <2>3, RequestsStay, LookupsStay DEF Watched, Running, lookupVars
    <3> QED
      BY <1>1, <2>1, <3>1 DEF VerifierInv, WatchIsKept
  <2>6. \A p \in Submissions : ReadWasActive(p)' /\ StoringIsChecked(p)'
    BY <1>1, <1>4, <2>1, <2>3, RequestsStay
       DEF VerifierInv, ReadWasActive, StoringIsChecked, Verified
  <2>7. ASSUME NEW l \in Lookups PROVE LookupIsTrue(l)'
    BY <1>1, <2>1, RequestsStay DEF VerifierInv, LookupIsTrue, Running, lookupVars
  <2> QED
    BY <2>2, <2>4, <2>5, <2>6, <2>7 DEF VerifierInv
<1> QED
  BY <1>3, <1>4

(* The database takes a verification that was checked, and lookups see it. *)
LEMMA AddedPreserves ==
    ASSUME VerifierInv, NEW q \in Submissions, Added(q)
    PROVE  VerifierInv'
<1>1. PICK r \in {"ok", "failed"} : Answer(q, r)
  BY DEF Added
<1>2. /\ phase[q] = "storing" /\ sub[q].method = "add"
      /\ stored' \subseteq stored \cup {q} /\ Witness(stored')
      /\ UNCHANGED <<now, status, sub, target, look, found, answers, shown>>
  BY DEF Added, chainVars, Store!Replace
<1>3. MayAdd(q)
  BY <1>2 DEF VerifierInv, StoringIsChecked, MayRemove
<1>4. stored' \subseteq Submissions /\ \A v \in stored' : MayAdd(v)
  BY <1>2, <1>3 DEF VerifierInv, VerifierShape, StoredMayAdd
<1>5. storedIn' \in [Lookups -> SUBSET Submissions]
  BY <1>2, <1>4 DEF Witness, VerifierInv, VerifierShape
<1>6. \A l \in Lookups :
         Running(l) => stored' \subseteq storedIn'[l] /\ storedIn[l] \subseteq storedIn'[l]
  BY <1>2 DEF Witness
<1>7. now' \in 0..MaxTime
  BY <1>2 DEF VerifierInv, VerifierShape
<1> QED
  BY <1>1, <1>2, <1>4, <1>5, <1>6, <1>7, AnswerPreserves

LEMMA RemovedPreserves ==
    ASSUME VerifierInv, NEW q \in Submissions, Removed(q)
    PROVE  VerifierInv'
<1>1. PICK r \in {"ok", "refused", "failed"} : Answer(q, r)
  BY DEF Removed
<1>2. /\ stored' \subseteq stored
      /\ UNCHANGED <<now, status, sub, target, look, found, answers, shown, storedIn>>
  BY DEF Removed, chainVars, lookupVars, Store!Forget
<1>3. /\ stored' \subseteq Submissions /\ now' \in 0..MaxTime
      /\ \A v \in stored' : MayAdd(v)
      /\ storedIn' \in [Lookups -> SUBSET Submissions]
      /\ \A l \in Lookups : Running(l) => stored' \subseteq storedIn'[l]
  BY <1>2 DEF VerifierInv, VerifierShape, StoredMayAdd, LookupIsTrue
<1> QED
  BY <1>1, <1>2, <1>3, AnswerPreserves

LEMMA SubmissionPreserves ==
    ASSUME VerifierInv, NEW q \in Submissions, Submission(q)
    PROVE  VerifierInv'
<1>1. CASE Arrive(q)
  BY <1>1, ArrivePreserves
<1>2. CASE ReadStatus(q)
  BY <1>2, ReadStatusPreserves
<1>3. CASE NodeFails(q) \/ Clash(q) \/ Fails(q)
  <2>1. now' \in 0..MaxTime
    BY <1>3 DEF NodeFails, Clash, Fails, chainVars, VerifierInv, VerifierShape
  <2> QED
    BY <1>3, <2>1, RefusalPreserves DEF NodeFails, Clash, Fails, chainVars
<1>4. CASE Check(q)
  BY <1>4, CheckPreserves
<1>5. CASE Added(q)
  BY <1>5, AddedPreserves
<1>6. CASE Removed(q)
  BY <1>6, RemovedPreserves
<1> QED
  BY <1>1, <1>2, <1>3, <1>4, <1>5, <1>6 DEF Submission

(* What a step of a lookup leaves alone. *)
LEMMA LookupStep ==
    ASSUME VerifierInv, NEW l \in Lookups, Lookup(l), VerifierShape',
           \A k \in Lookups : k # l =>
               /\ look'[k] = look[k] /\ found'[k] = found[k] /\ answers'[k] = answers[k]
               /\ storedIn'[k] = storedIn[k],
           \A x \in Submissions \cup Lookups : x # l => activeIn'[x] = activeIn[x],
           \A c \in Watched(l)' : status[c] = "active" => c \in activeIn'[l],
           LookupIsTrue(l)'
    PROVE  VerifierInv'
<1>1. UNCHANGED <<now, status, sub, phase, unread, seen, reply, before, stored, target>>
  BY DEF Lookup, AskLookup, GetVerification, ResolveAccount, Reply, LookupFails, Say,
         chainVars, handlerVars
<1>2. StoredMayAdd'
  BY <1>1, RequestsStay DEF VerifierInv, StoredMayAdd
<1>3. WatchIsKept'
  <2>1. \A x \in Submissions \cup Lookups : x # l => Watched(x)' = Watched(x)
    BY <1>1, RequestsStay, LookupsStay DEF Watched, Running
  <2> QED
    BY <1>1, <2>1 DEF VerifierInv, WatchIsKept
<1>4. \A q \in Submissions : ReadWasActive(q)' /\ StoringIsChecked(q)'
  BY <1>1, RequestsStay, HandlersAssumption DEF VerifierInv, ReadWasActive, StoringIsChecked
<1>5. ASSUME NEW k \in Lookups PROVE LookupIsTrue(k)'
  <2>1. CASE k # l
    BY <1>1, <2>1, RequestsStay DEF VerifierInv, LookupIsTrue, Running
  <2> QED
    BY <2>1
<1> QED
  BY <1>2, <1>3, <1>4, <1>5 DEF VerifierInv

LEMMA AskPreserves ==
    ASSUME VerifierInv, NEW l \in Lookups, AskLookup(l)
    PROVE  VerifierInv'
<1>1. VerifierShape'
  BY DEF AskLookup, chainVars, handlerVars, VerifierInv, VerifierShape, ActiveNow
<1>2. /\ look'[l] = "asked" /\ activeIn'[l] = ActiveNow \cap Proofs(l) /\ storedIn'[l] = stored
      /\ \A k \in Lookups : k # l => look'[k] = look[k] /\ storedIn'[k] = storedIn[k]
      /\ \A x \in Submissions \cup Lookups : x # l => activeIn'[x] = activeIn[x]
      /\ UNCHANGED <<status, sub, stored, target, found, answers>>
  BY DEF AskLookup, chainVars, VerifierInv, VerifierShape
<1>3. Watched(l)' = Proofs(l)
  BY <1>2, LookupsStay DEF Watched, Running
<1>4. \A c \in Watched(l)' : status[c] = "active" => c \in activeIn'[l]
  <2>1. Proofs(l) \subseteq Creds
    BY ProofsAreCreds DEF VerifierInv, VerifierShape
  <2> QED
    BY <1>2, <1>3, <2>1 DEF ActiveNow
<1>5. look[l] = "idle" /\ LookupIsTrue(l)'
  BY <1>2 DEF AskLookup, VerifierInv, LookupIsTrue, Running
<1> QED
  BY <1>1, <1>2, <1>4, <1>5, LookupStep DEF Lookup

LEMMA GetPreserves ==
    ASSUME VerifierInv, NEW l \in Lookups, GetVerification(l)
    PROVE  VerifierInv'
<1>1. /\ look' = [look EXCEPT ![l] = "resolving"] /\ look[l] = "asked"
      /\ UNCHANGED <<now, status, sub, phase, unread, seen, reply, before, stored, target,
                     answers, shown, activeIn, storedIn>>
  BY DEF GetVerification, chainVars, handlerVars
<1>2. \/ found' = found
      \/ \E v \in Matches(l) : found' = [found EXCEPT ![l] = {v}]
  BY DEF GetVerification
<1>3. VerifierShape'
  <2> DEFINE Found == {{}} \cup {{v} : v \in Submissions}
  <2>1. \A v \in Matches(l) : {v} \in Found
    BY DEF Matches, VerifierInv, VerifierShape
  <2>2. found \in [Lookups -> Found]
    BY DEF VerifierInv, VerifierShape
  <2>3. found' \in [Lookups -> {{}} \cup {{v} : v \in Submissions}]
    <3> HIDE DEF Found
    <3>1. found' \in [Lookups -> Found]
      BY <1>2, <2>1, <2>2
    <3> QED
      BY <3>1 DEF Found
  <2> QED
    BY <1>1, <2>3 DEF VerifierInv, VerifierShape
<1>4. /\ look'[l] = "resolving"
      /\ \A k \in Lookups : k # l => look'[k] = look[k] /\ found'[k] = found[k]
      /\ found'[l] = found[l] \/ \E v \in Matches(l) : found'[l] = {v}
  BY <1>1, <1>2 DEF VerifierInv, VerifierShape
<1>5. \A c \in Watched(l)' : status[c] = "active" => c \in activeIn'[l]
  <2>1. Watched(l)' = Watched(l)
    BY <1>1, <1>4, LookupsStay DEF Watched, Running
  <2> QED
    BY <1>1, <2>1 DEF VerifierInv, WatchIsKept
<1>6. LookupIsTrue(l)'
  <2>1. found[l] = {} /\ DOMAIN answers[l] = {} /\ stored \subseteq storedIn[l]
    BY <1>1 DEF VerifierInv, LookupIsTrue, Running
  <2>2. \A v \in Matches(l) :
           /\ v \in storedIn[l] /\ MayAdd(v)
           /\ \E a \in AccountsOf(v) : <<a.plat, a.id>> = target[l]
    BY <2>1 DEF Matches, VerifierInv, StoredMayAdd
  <2> QED
    BY <1>1, <1>4, <2>1, <2>2, RequestsStay DEF LookupIsTrue, Running
<1> QED
  BY <1>1, <1>3, <1>4, <1>5, <1>6, LookupStep DEF Lookup

(* A lookup learns the status an account's credential has now. *)
LEMMA ResolvePreserves ==
    ASSUME VerifierInv, NEW l \in Lookups, ResolveAccount(l)
    PROVE  VerifierInv'
<1>1. PICK p \in Unresolved(l), v \in found[l] :
         Learn(l, p, status[CredentialFor(v, p)]) \/ Learn(l, p, "failed")
  BY DEF ResolveAccount
<1>2. PICK s : Learn(l, p, s) /\ s \in {status[CredentialFor(v, p)], "failed"}
  BY <1>1
<1>3. /\ look[l] = "resolving"
      /\ UNCHANGED <<now, status, sub, phase, unread, seen, reply, before, stored, target,
                     look, found, shown, activeIn, storedIn>>
  BY DEF ResolveAccount, chainVars, handlerVars
<1>4. /\ found[l] = {v} /\ v \in Submissions /\ MayAdd(v)
      /\ \E a \in AccountsOf(v) : a.plat = p
  <2>1. found[l] = {v} /\ v \in Submissions
    BY DEF VerifierInv, VerifierShape
  <2>2. p \in {a.plat : a \in AccountsOf(v)}
    BY <2>1 DEF Unresolved
  <2> QED
    BY <2>1, <2>2 DEF VerifierInv, LookupIsTrue
<1>5. /\ p \in Platforms
      /\ CredentialFor(v, p) \in Creds
      /\ p = target[l][1] => CredentialFor(v, p) \in Proofs(l)
  <2>1. /\ \A a \in AccountsOf(v) : /\ a.plat \in Platforms /\ a.cred \in CredsOf(v)
                                    /\ a.cred = CredentialFor(v, a.plat)
        /\ CredsOf(v) \subseteq Creds
    BY <1>4, AddedAccounts, RequestTypes DEF VerifierInv, VerifierShape
  <2>2. PICK a \in AccountsOf(v) : <<a.plat, a.id>> = target[l]
    BY <1>4 DEF VerifierInv, LookupIsTrue
  <2>3. CredentialFor(v, target[l][1]) \in Proofs(l)
    BY <1>4, <2>1, <2>2 DEF Proofs
  <2> QED
    BY <1>4, <2>1, <2>3
<1>6. /\ answers'[l] = [x \in DOMAIN answers[l] \cup {p} |-> IF x = p THEN s ELSE answers[l][x]]
      /\ \A k \in Lookups : k # l => answers'[k] = answers[k]
  BY <1>2 DEF Learn, VerifierInv, VerifierShape
<1>7. s \in Status \cup {"failed"}
  BY <1>2, <1>5 DEF VerifierInv, VerifierShape
<1>8. VerifierShape'
  <2>1. PICK D \in SUBSET Platforms : answers[l] \in [D -> Status \cup {"failed"}]
    BY DEF VerifierInv, VerifierShape, Learnt
  <2>2. answers'[l] \in [D \cup {p} -> Status \cup {"failed"}] /\ D \cup {p} \in SUBSET Platforms
    BY <1>5, <1>6, <1>7, <2>1
  <2>3. answers'[l] \in Learnt
    BY <2>2 DEF Learnt
  <2>4. answers' \in [Lookups -> Learnt]
    BY <1>2, <1>6, <2>3 DEF Learn, VerifierInv, VerifierShape
  <2> QED
    BY <1>3, <2>4 DEF VerifierInv, VerifierShape
<1>9. Watched(l) = Proofs(l) /\ Watched(l)' = Watched(l)
  BY <1>3, LookupsStay DEF Watched, Running
<1>10. \A c \in Watched(l) : status[c] = "active" => c \in activeIn[l]
  BY DEF VerifierInv, WatchIsKept
<1>11. LookupIsTrue(l)'
  <2>1. \A x \in DOMAIN answers'[l] : 
           x # p => x \in DOMAIN answers[l] /\ answers'[l][x] = answers[l][x]
    BY <1>6
  <2>2. p \in DOMAIN answers'[l] /\ answers'[l][p] = s
    BY <1>6
  <2>3. p = target[l][1] /\ s = "active" => CredentialFor(v, p) \in activeIn[l]
    BY <1>2, <1>5, <1>9, <1>10
  <2> HIDE DEF Unresolved
  <2> QED
    BY <1>3, <1>4, <2>1, <2>2, <2>3, RequestsStay DEF VerifierInv, LookupIsTrue, Running
<1> QED
  BY <1>3, <1>6, <1>8, <1>9, <1>10, <1>11, LookupStep DEF Lookup

LEMMA SayPreserves ==
    ASSUME VerifierInv, NEW l \in Lookups, Reply(l) \/ LookupFails(l)
    PROVE  VerifierInv'
<1>1. PICK w \in {"verified", "not_verified", "sorry"} : Say(l, w)
  BY DEF Reply, LookupFails, Verdict
<1>2. VerifierShape'
  <2>1. << >> \in Learnt
    <3>1. << >> \in [{} -> Status \cup {"failed"}]
      OBVIOUS
    <3> QED
      BY <3>1 DEF Learnt
  <2>2. answers' \in [Lookups -> Learnt]
    BY <1>1, <2>1 DEF Say, VerifierInv, VerifierShape
  <2> QED
    BY <1>1, <2>2 DEF Say, chainVars, handlerVars, VerifierInv, VerifierShape
<1>3. /\ look'[l] = "done" /\ found'[l] = {} /\ answers'[l] = << >>
      /\ \A k \in Lookups : k # l =>
            /\ look'[k] = look[k] /\ found'[k] = found[k] /\ answers'[k] = answers[k]
            /\ storedIn'[k] = storedIn[k]
      /\ \A x \in Submissions \cup Lookups : x # l => activeIn'[x] = activeIn[x]
  BY <1>1 DEF Say, VerifierInv, VerifierShape
<1>4. Watched(l)' = {}
  BY <1>3 DEF Watched, Running
<1>5. LookupIsTrue(l)'
  <2>1. DOMAIN answers'[l] = {}
    BY <1>3
  <2> QED
    BY <1>3, <2>1 DEF LookupIsTrue, Running
<1> QED
  BY <1>2, <1>3, <1>4, <1>5, LookupStep DEF Lookup

(* A credential that becomes active is noted by all who watch it. *)
LEMMA StatusPreserves ==
    ASSUME VerifierInv, StatusChanges
    PROVE  VerifierInv'
<1> DEFINE Becomes(c, s) ==
             /\ status' = [status EXCEPT ![c] = s]
             /\ activeIn' = [x \in DOMAIN activeIn |->
                                IF s = "active" THEN activeIn[x] \cup ({c} \cap Watched(x))
                                ELSE activeIn[x]]
<1>0. PICK c \in Creds : \E s \in Changes[status[c]] : Becomes(c, s)
  BY DEF StatusChanges
<1>1. PICK s \in Changes[status[c]] : Becomes(c, s)
  BY <1>0
<1>2. UNCHANGED <<now, sub, phase, unread, seen, reply, before, stored, target, look,
                  found, answers, shown, storedIn>>
  BY DEF StatusChanges, handlerVars, lookupVars
<1>3. s \in Status
  BY DEF Changes, VerifierInv, VerifierShape, Status
<1>4. /\ \A x \in Submissions \cup Lookups :
            /\ activeIn[x] \subseteq activeIn'[x] /\ activeIn'[x] \subseteq activeIn[x] \cup {c}
            /\ s = "active" /\ c \in Watched(x) => c \in activeIn'[x]
      /\ activeIn' \in [Submissions \cup Lookups -> SUBSET Creds]
  BY <1>1 DEF VerifierInv, VerifierShape
<1>5. VerifierShape'
  BY <1>1, <1>2, <1>3, <1>4 DEF VerifierInv, VerifierShape
<1>6. StoredMayAdd'
  BY <1>2, RequestsStay DEF VerifierInv, StoredMayAdd
<1>7. WatchIsKept'
  <2>1. \A x : Watched(x)' = Watched(x)
    BY <1>2, RequestsStay, LookupsStay DEF Watched, Running
  <2>2. \A d \in Creds : d # c => status'[d] = status[d]
    BY <1>1 DEF VerifierInv, VerifierShape
  <2>3. status'[c] = s
    BY <1>1 DEF VerifierInv, VerifierShape
  <2>4. ASSUME NEW x \in Submissions \cup Lookups PROVE Watched(x) \subseteq Creds
    BY RequestTypes, ProofsAreCreds DEF Watched, VerifierInv, VerifierShape
  <2> QED
    BY <1>4, <2>1, <2>2, <2>3, <2>4 DEF VerifierInv, WatchIsKept
<1>8. \A q \in Submissions : ReadWasActive(q)' /\ StoringIsChecked(q)'
  BY <1>2, <1>4, RequestsStay DEF VerifierInv, ReadWasActive, StoringIsChecked
<1>9. ASSUME NEW l \in Lookups PROVE LookupIsTrue(l)'
  BY <1>2, <1>4, RequestsStay DEF VerifierInv, LookupIsTrue, Running
<1> QED
  BY <1>5, <1>6, <1>7, <1>8, <1>9 DEF VerifierInv

LEMMA NextPreserves ==
    ASSUME VerifierInv, [Next]_vars
    PROVE  VerifierInv'
<1>1. ASSUME NEW q \in Submissions, Submission(q) PROVE VerifierInv'
  BY <1>1, SubmissionPreserves
<1>2. ASSUME NEW l \in Lookups, Lookup(l) PROVE VerifierInv'
  BY <1>2, AskPreserves, GetPreserves, ResolvePreserves, SayPreserves DEF Lookup
<1>3. CASE StatusChanges
  BY <1>3, StatusPreserves
<1>4. CASE UNCHANGED vars
  <2>1. /\ VerifierShape'
        /\ \A x : Watched(x)' = Watched(x)
    BY <1>4, RequestsStay, LookupsStay DEF vars, VerifierInv, VerifierShape, Watched, Running
  <2>2. StoredMayAdd' /\ WatchIsKept'
    BY <1>4, <2>1, RequestsStay DEF vars, VerifierInv, StoredMayAdd, WatchIsKept
  <2>3. \A q \in Submissions : ReadWasActive(q)' /\ StoringIsChecked(q)'
    BY <1>4, RequestsStay DEF vars, VerifierInv, ReadWasActive, StoringIsChecked
  <2>4. ASSUME NEW l \in Lookups PROVE LookupIsTrue(l)'
    BY <1>4, RequestsStay DEF vars, VerifierInv, LookupIsTrue, Running
  <2> QED
    BY <2>1, <2>2, <2>3, <2>4 DEF VerifierInv
<1> QED
  BY <1>1, <1>2, <1>3, <1>4 DEF Next

-----------------------------------------------------------------------------
(* The invariant that the other theorems rest on holds in every behaviour. *)
THEOREM VerifierInvHolds == Spec => []VerifierInv
<1> QED
  BY InitInv, NextPreserves, PTL DEF Spec

LEMMA ShapeGivesType == VerifierInv => TypeOK
<1> SUFFICES ASSUME VerifierInv PROVE TypeOK
  OBVIOUS
<1>1. \A q \in stored \cup UNION {before[p] : p \in Submissions} :
         q \in Submissions /\ sub[q].method = "add"
  BY DEF VerifierInv, VerifierShape, StoredMayAdd, MayAdd
<1>2. \A l \in Lookups : Cardinality(found[l]) <= 1 /\ found[l] \subseteq Submissions
  <2>1. ASSUME NEW l \in Lookups
        PROVE  found[l] = {} \/ \E v \in Submissions : found[l] = {v}
    BY DEF VerifierInv, VerifierShape
  <2>2. \A l \in Lookups : Cardinality(found[l]) \in {0, 1}
    BY <2>1, FS_EmptySet, FS_Singleton
  <2> QED
    BY <2>1, <2>2
<1>3. \A l \in Lookups : /\ DOMAIN answers[l] \subseteq Platforms
                        /\ \A p \in DOMAIN answers[l] : answers[l][p] \in Status \cup {"failed"}
  BY DEF VerifierInv, VerifierShape, Learnt
<1> QED
  BY <1>1, <1>2, <1>3 DEF TypeOK, VerifierInv, VerifierShape

(* The type invariant: in particular what is stored, and what was stored when a
   handler's database call began, are requests that add. *)
THEOREM VerifierTypes == Spec => []TypeOK
<1> QED
  BY VerifierInvHolds, ShapeGivesType, PTL

-----------------------------------------------------------------------------
(* The steps that the properties are about. *)

(* Handlers are what requests' phases and what is stored change by. *)
LEMMA OthersLeavePhase ==
    ASSUME [Next]_vars, ~ \E q \in Submissions : Submission(q)
    PROVE  UNCHANGED <<phase, stored>>
BY DEF Next, vars, Lookup, AskLookup, GetVerification, ResolveAccount, Reply, LookupFails, Say,
       StatusChanges, handlerVars

(* Storing and removing are the only steps that change what is stored. *)
LEMMA StoreSteps ==
    ASSUME [Next]_vars, stored' # stored
    PROVE  \E q \in Submissions : Added(q) \/ Removed(q)
<1>1. PICK q \in Submissions : Submission(q)
  BY OthersLeavePhase
<1>2. Added(q) \/ Removed(q)
  BY <1>1 DEF Submission, Arrive, ReadStatus, NodeFails, Check, Clash, Fails
<1> QED
  BY <1>2

(* What a call to the database rests on. *)
LEMMA CheckedCreds ==
    ASSUME VerifierInv, NEW q \in Submissions, phase[q] = "storing"
    PROVE  /\ sub[q].proof /\ sub[q].challenge
           /\ CredsOf(q) \subseteq activeIn[q]
           /\ \A a \in AccountsOf(q) : a.cred \in activeIn[q]
<1>1. /\ sub[q].proof /\ sub[q].challenge /\ CredsOf(q) \subseteq activeIn[q]
      /\ MayAdd(q) \/ MayRemove(q)
  BY DEF VerifierInv, ReadWasActive, StoringIsChecked
<1>2. sub \in [Submissions -> Requests]
  BY DEF VerifierInv, VerifierShape
<1> QED
  BY <1>1, <1>2, AccountsAreProved

LEMMA StoredStep ==
    ASSUME VerifierInv, [Next]_vars, NEW q \in stored' \ stored
    PROVE  Proved(q)
<1>1. PICK p \in Submissions : Added(p) \/ Removed(p)
  BY StoreSteps
<1>2. Added(q) /\ q \in Submissions
  BY <1>1 DEF Added, Removed, Store!Replace, Store!Forget
<1>3. phase[q] = "storing" /\ MayAdd(q)
  BY <1>2 DEF Added, VerifierInv, StoringIsChecked, MayRemove
<1>4. sub \in [Submissions -> Requests]
  BY DEF VerifierInv, VerifierShape
<1> QED
  BY <1>2, <1>3, <1>4, AddedAccounts, CheckedCreds DEF Proved, RowOf

(* What is stored was proved, by whom it says, with credentials that were
   active at some time while the request was handled. *)
THEOREM StoredIsProvedHolds == Spec => StoredIsProved
<1>1. VerifierInv /\ [Next]_vars => [\A q \in stored' \ stored : Proved(q)]_vars
  BY StoredStep
<1> QED
  BY <1>1, VerifierInvHolds, PTL DEF Spec, StoredIsProved

LEMMA EndStep ==
    ASSUME VerifierInv, [Next]_vars, NEW v \in stored \ stored'
    PROVE  EndedByHolder(v)
<1>1. PICK q \in Submissions : Added(q) \/ Removed(q)
  BY StoreSteps
<1>2. phase[q] = "storing" /\ phase'[q] = "done"
  BY <1>1 DEF Added, Removed, Answer, VerifierInv, VerifierShape
<1>3. v \in Store!SameCredential(AccountsOf(q))
  BY <1>1, RequestTypes DEF Added, Removed, Store!Replace, Store!Forget, VerifierInv, VerifierShape
<1>4. PICK a \in AccountsOf(q), b \in AccountsOf(v) : a.plat = b.plat /\ a.cred = b.cred
  BY <1>3 DEF Store!SameCredential, VerifierInv, VerifierShape
<1>5. a.cred \in activeIn[q]
  BY <1>2, CheckedCreds
<1> QED
  BY <1>2, <1>4, <1>5 DEF EndedByHolder

(* A verification ends only by a request of a holder of one of its
   credentials, which was active while that request was handled. *)
THEOREM EndsByHolderHolds == Spec => EndsByHolder
<1>1. VerifierInv /\ [Next]_vars => [\A v \in stored \ stored' : EndedByHolder(v)]_vars
  BY EndStep
<1> QED
  BY <1>1, VerifierInvHolds, PTL DEF Spec, EndsByHolder

LEMMA VerdictStep ==
    ASSUME VerifierInv, [Next]_vars, NEW l \in Lookups, SaysVerified(l)
    PROVE  WasVerified(l)
<1>1. Reply(l) /\ Verdict(l) = "verified"
  <2>1. PICK k \in Lookups : Lookup(k)
    BY DEF SaysVerified, Next, vars, Submission, Arrive, ReadStatus, NodeFails, Check, Added,
           Clash, Removed, Fails, StatusChanges, lookupVars
  <2>2. CASE Reply(k)
    BY <2>2 DEF SaysVerified, Reply, Say, VerifierInv, VerifierShape
  <2>3. CASE LookupFails(k)
    BY <2>3 DEF SaysVerified, LookupFails, Say, VerifierInv, VerifierShape
  <2>4. CASE AskLookup(k) \/ GetVerification(k) \/ ResolveAccount(k)
    BY <2>4 DEF SaysVerified, AskLookup, GetVerification, ResolveAccount, VerifierInv, VerifierShape
  <2> QED
    BY <2>1, <2>2, <2>3, <2>4 DEF Lookup
<1> DEFINE p == target[l][1]
<1>2. p \in DOMAIN answers[l] /\ answers[l][p] = "active"
  BY <1>1 DEF Verdict
<1>3. PICK v \in found[l] : TRUE
  BY <1>2 DEF VerifierInv, LookupIsTrue
<1>4. /\ v \in storedIn[l] /\ MayAdd(v) /\ v \in Submissions
      /\ CredentialFor(v, p) \in activeIn[l]
  BY <1>2, <1>3 DEF VerifierInv, LookupIsTrue, VerifierShape
<1>5. PICK a \in AccountsOf(v) : <<a.plat, a.id>> = target[l]
  BY <1>3 DEF VerifierInv, LookupIsTrue
<1>6. a.plat = p /\ a.cred = CredentialFor(v, p)
  BY <1>4, <1>5, AddedAccounts DEF VerifierInv, VerifierShape
<1> QED
  BY <1>4, <1>5, <1>6 DEF WasVerified

(* A bot says "verified" only of a user who was, with a credential that was
   active, at some time since it was asked. *)
THEOREM VerdictTrueHolds == Spec => VerdictTrue
<1>1. VerifierInv /\ [Next]_vars => [\A l \in Lookups : SaysVerified(l) => WasVerified(l)]_vars
  BY VerdictStep
<1> QED
  BY <1>1, VerifierInvHolds, PTL DEF Spec, VerdictTrue
=============================================================================
