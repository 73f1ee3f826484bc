----------------------------- MODULE IssuerNode ------------------------------
(***************************************************************************)
(* EXTERNAL: the Concordium node and chain, as the issuer services use     *)
(* them (get_next_account_sequence_number at start, then one               *)
(* register_credential transaction per issuance).  Only the issuer's       *)
(* account is modelled: a transaction carries the account's sequence       *)
(* number, the node admits it when that is the next one, and it becomes    *)
(* final later or expires.  A transaction that was handed to the network   *)
(* may reach the node although its sender has given up waiting.            *)
(***************************************************************************)
EXTENDS Integers, Sequences, FiniteSets, Functions

CONSTANTS Requests  \* issue requests; each is submitted at most once

VARIABLES
    final,     \* Seq(Message): finalized transactions of the account
    pending,   \* Seq(Message): admitted by the node, not yet finalized
    expired,   \* SUBSET Message: admitted once, and dropped since
    inflight,  \* SUBSET Message: sent, not yet processed by the node
    sends      \* number of transactions sent so far: the age of the next one

nodeVars == <<final, pending, expired, inflight, sends>>

(* at: the transaction's age; every transaction expires five minutes after
   it was built, so they expire in this order. *)
Message == [req : Requests, nonce : Nat, at : Nat]

(* The sequence number the node reports and admits. *)
NextNonce == Len(final) + Len(pending) + 1

(* all_final of the answer to get_next_account_sequence_number. *)
AllFinal == pending = << >>

(* Transactions of the account that the node holds, oldest first. *)
Admitted == final \o pending

NodeInit == /\ final = << >>
            /\ pending = << >>
            /\ expired = {}
            /\ inflight = {}
            /\ sends = 0

(* The issuer hands a transaction to the network. *)
Transmit(m) == /\ inflight' = inflight \cup {m}
               /\ sends' = sends + 1
               /\ UNCHANGED <<final, pending, expired>>

(* The node processes a transaction: it admits it, or refuses it. *)
Admit(m) == /\ m \in inflight
            /\ m.nonce = NextNonce
            /\ inflight' = inflight \ {m}
            /\ pending' = Append(pending, m)
            /\ UNCHANGED <<final, expired, sends>>

Refuse(m) == /\ m \in inflight
             /\ inflight' = inflight \ {m}
             /\ UNCHANGED <<final, pending, expired, sends>>

(* A block with the oldest pending transaction becomes final. *)
Finalize == /\ pending # << >>
            /\ final' = Append(final, Head(pending))
            /\ pending' = Tail(pending)
            /\ UNCHANGED <<expired, inflight, sends>>

(* The oldest pending transaction expires before it is in a block.  The ones
   behind it have lost their predecessor; whatever was sent before it and is
   still on its way has expired too. *)
Expire == /\ pending # << >>
          /\ pending' = << >>
          /\ expired' = expired \cup Range(pending)
          /\ inflight' = {m \in inflight : m.at > Head(pending).at}
          /\ UNCHANGED <<final, sends>>

NodeTypeOK == /\ final \in Seq(Message)
              /\ pending \in Seq(Message)
              /\ expired \subseteq Message
              /\ inflight \subseteq Message
              /\ sends \in Nat
=============================================================================
