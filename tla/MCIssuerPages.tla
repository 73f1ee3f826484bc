--------------------------- MODULE MCIssuerPages ----------------------------
(***************************************************************************)
(* The two applications for issuers.  They share nothing: which one is     *)
(* open is chosen at the start, and the other one stays as it is.          *)
(***************************************************************************)
EXTENDS IssuerTool, IssuerWizard

VARIABLE open

pagesVars == <<toolVars, wizardVars, open>>

(* The test tool once a contract's index was typed in and all of it read. *)
Chosen(a, c) ==
    /\ link = a /\ index = c /\ timers = Restart({}, a, c)
    /\ form \in Complete
    /\ keys = TRUE /\ manual = TRUE /\ schema = c /\ attributes = c
    /\ shown = [w \in {"contract", "account"} |-> IF w = "contract" THEN c ELSE a]
    /\ reads = {} /\ calls = {} /\ sent = {} /\ key = 0 /\ events = 0
    /\ value = [b \in Boxes |-> 0] /\ error = [b \in Boxes |-> 0]
    /\ last = [b \in Boxes |-> NoPress]

MCInit ==
    /\ WizardInit
    /\ \/ open = "wizard" /\ ToolInit
       \/ /\ open = "tool"
          /\ \E a \in Accounts : ToolInitWith(a) \/ \E c \in Contracts : Chosen(a, c)

MCNext == \/ open = "tool" /\ ToolNext /\ UNCHANGED <<wizardVars, open>>
          \/ open = "wizard" /\ WizardNext /\ UNCHANGED <<toolVars, open>>

(* No step of the application that is not open is fair and enabled. *)
MCSpec == MCInit /\ [][MCNext]_pagesVars /\ ToolFairness /\ WizardFairness

(* Type invariants of both; an interval of step 3 asks about the hash shown. *)
PagesTypeOK == ToolTypeOK /\ WizardTypeOK
=============================================================================
