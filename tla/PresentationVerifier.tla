------------------------ MODULE PresentationVerifier --------------------------
(***************************************************************************)
(* The generic verifier, POST /v0/verify, in its two versions: the Rust    *)
(* one (services/web3id-verifier) and the TypeScript one                   *)
(* (services/web3id-verifier-ts).  A handler awaits the node for the       *)
(* latest finalized block, and then for the status of each credential in   *)
(* that block, while the chain goes on.                                    *)
(***************************************************************************)
EXTENDS Integers, Sequences

CONSTANTS Creds,     \* credentials on the chain
          MaxBlocks  \* bound: blocks in which a status changes

Status == {"active", "inactive", "unknown"}
Proofs == {"valid", "invalid", "unreadable"}

VARIABLES
    impl,    \* the version that runs: "rust" or "ts"
    blocks,  \* finalized blocks: the statuses in each
    jobs,    \* requests being handled
    replies  \* those answered: [id, ok, json]

verifierVars == <<impl, blocks, jobs, replies>>

-----------------------------------------------------------------------------
(* A presentation of some credentials arrives.  `at` is the block whose state
   is read, `seen` the statuses read; `from` is history. *)
Job(id, creds, proof) == [id |-> id, creds |-> creds, proof |-> proof,
                          at |-> 0, seen |-> <<>>, from |-> Len(blocks)]

(* f with one more entry. *)
With(f, k, v) == [x \in DOMAIN f \cup {k} |-> IF x = k THEN v ELSE f[x]]

Unread(j) == j.creds \ DOMAIN j.seen

(* The body of a refusal.  The Rust version sends its messages as JSON, but
   the timeout layer sends nothing; the other sends plain text. *)
IsJson(why) == impl = "rust" /\ why # "timeout"

Reply(j, ok, json) == /\ jobs' = jobs \ {j}
                      /\ replies' = replies \cup {[id |-> j.id, ok |-> ok, json |-> json]}
                      /\ UNCHANGED <<impl, blocks>>

(* Mutant: the answer is sent and the handler goes on. *)
RefuseAndGoOn(j, why) ==
    /\ replies' = replies \cup {[id |-> j.id, ok |-> FALSE, json |-> IsJson(why)]}
    /\ UNCHANGED <<impl, blocks, jobs>>

Refuse(j, why) == Reply(j, FALSE, IsJson(why))

(* The body is no presentation: 400 from the Rust version, 500 from the other,
   which parses it outside of its try. *)
Malformed(j) == j.at = 0 /\ j.proof = "unreadable" /\ Refuse(j, "malformed")

GetBlockInfo(j) == /\ j.at = 0 /\ j.proof # "unreadable"
                   /\ jobs' = (jobs \ {j}) \cup {[j EXCEPT !.at = Len(blocks)]}
                   /\ UNCHANGED <<impl, blocks, replies>>

(* Mutant: the latest block, not the one asked for. *)
StatusInLatest(j, c) == blocks[Len(blocks)][c]

StatusIn(j, c) == blocks[j.at][c]

(* get_public_data, getPublicData: one credential after another. *)
LookUp(j, c) ==
    /\ j.at > 0 /\ c \in Unread(j)
    /\ IF StatusIn(j, c) = "unknown" THEN Refuse(j, "missing")
       ELSE /\ jobs' = (jobs \ {j}) \cup {[j EXCEPT !.seen = With(@, c, StatusIn(j, c))]}
            /\ UNCHANGED <<impl, blocks, replies>>

(* A call to the node fails or times out: 404 or 500. *)
NodeFails(j) == j.proof # "unreadable" /\ Refuse(j, "node")

(* The timeout layer, which only the Rust version has. *)
TimesOut(j) == impl = "rust" /\ Refuse(j, "timeout")

(* All statuses are there. *)
Decide(j) ==
    /\ j.at > 0 /\ Unread(j) = {}
    /\ IF \E c \in j.creds : j.seen[c] # "active" THEN Refuse(j, "inactive")
       ELSE IF j.proof = "invalid" THEN Refuse(j, "invalid")
       ELSE Reply(j, TRUE, TRUE)

(* External: credentials are registered, revoked or restored.  Bound: while a
   request is handled; the first block is any. *)
NewBlock ==
    /\ Len(blocks) < MaxBlocks /\ jobs # {}
    /\ \E cs \in SUBSET Creds \ {{}} :
          blocks' = Append(blocks, [c \in Creds |->
             LET was == blocks[Len(blocks)][c] IN
             IF c \notin cs THEN was ELSE IF was = "active" THEN "inactive" ELSE "active"])
    /\ UNCHANGED <<impl, jobs, replies>>

VerifierInit == /\ impl \in {"rust", "ts"}
                /\ blocks \in {<<s>> : s \in [Creds -> Status]}
                /\ jobs = {} /\ replies = {}

VerifierNext == NewBlock \/ \E j \in jobs : \/ Malformed(j) \/ GetBlockInfo(j)
                                            \/ \E c \in j.creds : LookUp(j, c)
                                            \/ NodeFails(j) \/ TimesOut(j) \/ Decide(j)

(* Some block, final when the request came or later, has them all active. *)
ActiveTogether(creds, from) ==
    \E b \in from..Len(blocks) : \A c \in creds : blocks[b][c] = "active"
==============================================================================
