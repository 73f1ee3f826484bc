-------------------------------- MODULE MCDapps -------------------------------
(***************************************************************************)
(* The pages for holders of credentials: those of the example issuers and  *)
(* the example verifier, and the proof explorer with its verifier.  The    *)
(* explorer shares nothing with the others: which of them is used is       *)
(* chosen at the start, and the other stays as it is.                      *)
(***************************************************************************)
EXTENDS MCProofExplorer, VerifierPage

VARIABLE used

dappsVars == <<explorerVars, verifierPageVars, used>>

(* The explorer that is not used. *)
ExplorerUnused == /\ ExplorerInit /\ impl = "rust"
                  /\ blocks = <<[c \in Creds |-> "active"]>>

(* The example verifier's page as it is loaded, or with the privacy notice
   shown. *)
PageStarts ==
    \/ VerifierPageInit
    \/ CredentialStart({"discord", "name"}, 1) /\ VerifierPageStart(TRUE)

MCInit == \/ used = "explorer" /\ ExplorerStarts /\ VerifierPageInit
          \/ used = "page" /\ ExplorerUnused /\ PageStarts

MCNext == \/ used = "explorer" /\ ExplorerNext /\ UNCHANGED <<verifierPageVars, used>>
          \/ used = "page" /\ VerifierPageNext /\ UNCHANGED <<explorerVars, used>>

MCSpec == MCInit /\ [][MCNext]_dappsVars

(* The same names are given to credentials and users, which never meet. *)
Symmetry == Permutations(Creds)

(* Type invariants of both. *)
DappsTypeOK == ExplorerTypeOK /\ VerifierPageTypeOK
==============================================================================
