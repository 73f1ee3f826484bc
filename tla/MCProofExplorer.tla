--------------------------- MODULE MCProofExplorer ----------------------------
EXTENDS ProofExplorer

ExplorerSpec == ExplorerInit /\ [][ExplorerNext]_explorerVars

(* The explorer once a wallet is connected and one statement is there. *)
Ready(p, col) ==
    /\ provider = p
    /\ account = [w \in {"browser", "mobile"} |-> w = p]
    /\ topic = IF p = "mobile" THEN "new" ELSE None
    /\ statement = <<[type |-> col, allowed |-> {}, atoms |-> {col}]>>
    /\ currentType = col /\ lastAccount = (col # "web3id") /\ newStatement = FALSE
    /\ chainID = "new" /\ connecting = {} /\ leaving = FALSE
    /\ idps = Idps /\ ticked = [c \in {"account", "id"} |-> {}]
    /\ issuers = {} /\ tags = {} /\ fetching = {}
    /\ claimsType = "AccountOrIdentityClaims"
    /\ anchor = 0 /\ result = None /\ anchorCalls = {}
    /\ registered = <<>> /\ final = {}
    /\ calls = {} /\ lines = [f \in Flows |-> {}] /\ current = [f \in Flows |-> 0]
    /\ proved = <<>>
    /\ open = None /\ raw = [f \in Flows |-> FALSE] /\ clipboard = None
    /\ crashed = FALSE
    /\ acts = (IF p = "browser" /\ col = "id" THEN 0 ELSE 1) /\ proves = 0 /\ submits = 0

(* An empty page, or one about to ask for a proof of either flow; it is for
   the first that the verifier and the chain matter. *)
ExplorerStarts ==
    /\ VerifierInit
    /\ \/ /\ blocks = <<[c \in Creds |-> "active"]>> /\ impl = "rust"
          /\ ExplorerInit \/ Ready("browser", "id")
       \/ \E p \in {"browser", "mobile"}, col \in {"account", "web3id"} : Ready(p, col)
==============================================================================
