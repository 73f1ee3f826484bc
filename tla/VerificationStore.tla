-------------------------- MODULE VerificationStore --------------------------
(***************************************************************************)
(* What the verification database of the example verifier promises: a set  *)
(* of verifications, each with the accounts one presentation named, that   *)
(* changes one request at a time.                                          *)
(***************************************************************************)
CONSTANTS Requests,  \* each request may become a verification
          Accounts   \* [plat, id, cred]: an account and what it is proved with

VARIABLES accounts,  \* the accounts each request names: [Requests -> SUBSET Accounts]
          stored     \* the requests that are verifications now

(* The verifications one of whose accounts is proved with one of the same
   credentials. *)
SameCredential(as) ==
    {v \in stored : \E a \in as, b \in accounts[v] : a.plat = b.plat /\ a.cred = b.cred}

(* A new verification takes the place of those proved with its credentials,
   and shares no user with any other. *)
Replace(q) ==
    LET kept == stored \ SameCredential(accounts[q])
    IN  /\ q \notin stored
        /\ \A v \in kept : \A a \in accounts[q], b \in accounts[v] :
               ~(a.plat = b.plat /\ a.id = b.id)
        /\ stored' = kept \cup {q}

(* The holder of a credential removes the verification it proves. *)
Forget(q) == /\ q \notin stored
             /\ stored' = stored \ SameCredential(accounts[q])

Init == stored \in SUBSET Requests
Next == \E q \in Requests : Replace(q) \/ Forget(q)
Spec == Init /\ [][Next]_stored
=============================================================================
