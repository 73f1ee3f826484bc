---------------------------- MODULE MCVerifierDb -----------------------------
EXTENDS VerifierDb, TLC

Symmetry == Permutations(Ids) \cup Permutations(Creds)
            \cup Permutations(Txns) \cup Permutations(Old)

(* For liveness: two verifications that name one user under one credential on
   both platforms, so that two additions can wait for each other. *)
Owner == CHOOSE f \in [Old -> Ids] : \A v, w \in Old : f[v] = f[w] => v = w
Holder == CHOOSE f \in [Old -> Creds] : \A v, w \in Old : f[v] = f[w] => v = w

FullInit ==
    /\ Init
    /\ \A v \in Old : accounts[v] = [plat : Platforms, id : {Owner[v]}, cred : {Holder[v]}]

FullSpec == FullInit /\ [][Next]_dbVars /\ Fairness
=============================================================================
