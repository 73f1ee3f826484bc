--------------------------- MODULE MCSomeVerifier ----------------------------
EXTENDS SomeVerifier, TLC

CONSTANTS alice, bob, c1, c2, c3

Proves(p, u, c) == [kind |-> "web3id", contract |-> p, id |-> u, cred |-> c, reveals |-> "pair"]
Hides(p, u, c)  == [Proves(p, u, c) EXCEPT !.reveals = "other"]
Names(c, t)     == [kind |-> "account", cred |-> c, tags |-> t]

(* c1 and c3 are credentials for users of the platforms, c2 is one for the
   other platform or the identity. *)
Full  == <<Proves("discord", alice, c2), Proves("telegram", alice, c1)>>
Named == <<Proves("telegram", alice, c3), Names(c2, <<"first", "last">>)>>

Statements ==
    { Full, Named,
      <<Proves("telegram", alice, c1)>>,
      <<Proves("telegram", alice, c1), Proves("telegram", bob, c3)>>,
      <<Proves("discord", bob, c2), Proves("telegram", bob, c1)>>,
      <<Proves("telegram", bob, c3), Names(c2, <<"first", "first", "last">>)>>,
      <<Hides("telegram", alice, c1), Names(c2, <<"first", "other">>)>> }

(* Requests that are right in every respect but at most one. *)
Good == [method : {"add"}, stmts : Statements, at : {0}, challenge : {TRUE}, proof : {TRUE}]
        \cup [method : {"remove"}, stmts : {<<Proves("telegram", alice, c1)>>, Full,
                                            <<Proves("discord", alice, c2)>>},
              at : {0}, challenge : {TRUE}, proof : {TRUE}]
Bad  == { [method |-> "add", stmts |-> Full, at |-> t, challenge |-> c, proof |-> p] :
            <<t, c, p>> \in {<<0, FALSE, TRUE>>, <<0, TRUE, FALSE>>, <<MaxTime, TRUE, TRUE>>} }
MCRequests == Good \cup Bad

(* One credential is not there yet; one user is looked up.  Not all requests
   are refused for what they ask: such requests never meet. *)
MCInit == /\ Init
          /\ \E q \in Submissions : sub[q] \in Good /\ (MayAdd(q) \/ MayRemove(q))
          /\ status = [c \in Creds |-> IF c = c3 THEN "unknown" ELSE "active"]
          /\ \A l \in Lookups : target[l] = <<"telegram", alice>>

Symmetry == Permutations(Submissions)

MCSpec == MCInit /\ [][Next]_vars
=============================================================================
