----------------------------- MODULE VerifierPage -----------------------------
(***************************************************************************)
(* The page of the example verifier: after its first step (CredentialPages)*)
(* the person ticks what to verify, reads the privacy notice and has the   *)
(* wallet prove it; and a dialog removes a verification.  Boxes, steps and *)
(* the dialog can be changed while the wallet or the server is awaited.    *)
(***************************************************************************)
EXTENDS CredentialPages

CONSTANT MaxProofs  \* bound: proofs asked for, of either kind

ASSUME PageAssumption == MaxProofs \in Nat

Options == Platforms \cup {"name"}
Steps   == {"issue", "verify", "check"}
Ids     == 1..MaxProofs

VARIABLES
    step,        \* the open step, or "none"
    proofError,  \* "", "few", "connect", "rejected" or "failed"
    notice,      \* showPrivacyNotice
    dialog,      \* of the removal: [open, pending, removed, error]
    proofs,      \* prove and submit under way: [id, kind, of, at]
    asked,       \* how many there were
    confirmed,   \* history: what was ticked, or selected, at the press
    accepted,    \* history: what the server accepted, {} before
    opened       \* history: the proof that opened the last step, 0 for none

removalVars == <<dialog>>
verifyVars  == <<step, proofError, notice, opened>>
provingVars  == <<proofs, asked, confirmed, accepted>>
verifierPageVars == <<credentialVars, verifyVars, removalVars, provingVars>>

(* What Verify and RemoveVerification leave alone. *)
issuingVars == <<signInVars, requestVars, chainVars, pending, issued, toast>>

-----------------------------------------------------------------------------
(* The steps and the boxes.  The notice and the dialog lie over them. *)

PageMoves == Moves /\ ~notice /\ ~dialog.open

toggle(s) ==
    /\ PageMoves
    /\ step' = (IF step = s THEN "none" ELSE s) /\ opened' = 0
    /\ UNCHANGED <<issuingVars, reachVars, checked, proofError, notice, removalVars, provingVars>>

(* Continue, and the link back to the first step. *)
GoTo(s) ==
    /\ PageMoves /\ <<step, s>> \in {<<"issue", "verify">>, <<"verify", "issue">>}
    /\ step' = s /\ opened' = 0
    /\ UNCHANGED <<issuingVars, reachVars, checked, proofError, notice, removalVars, provingVars>>

Enough(s) == Cardinality(s) >= 2

(* checkedCount clears the error where enough boxes are ticked. *)
ClearsError(s) == IF Enough(s) THEN "" ELSE proofError

PlatformOption(o) ==
    /\ PageMoves /\ step = "verify"
    /\ checked' = IF o \in checked THEN checked \ {o} ELSE checked \cup {o}
    /\ proofError' = ClearsError(checked')
    /\ UNCHANGED <<issuingVars, reachVars, step, notice, opened, removalVars, provingVars>>

submitHandler ==
    /\ PageMoves /\ step = "verify"
    /\ IF Enough(checked) THEN notice' = TRUE /\ UNCHANGED proofError
                          ELSE proofError' = "few" /\ UNCHANGED notice
    /\ UNCHANGED <<issuingVars, reachVars, checked, step, opened, removalVars, provingVars>>

CloseNotice ==
    /\ notice /\ notice' = FALSE
    /\ UNCHANGED <<issuingVars, reachVars, checked, moves, step, proofError, opened,
                   removalVars, provingVars>>

-----------------------------------------------------------------------------
(* Proving, from one await to the next. *)

AskFor(kind, of) ==
    /\ asked < MaxProofs /\ asked' = asked + 1
    /\ proofs' = proofs \cup {[id |-> asked', kind |-> kind, of |-> of, at |-> "connect"]}
    /\ confirmed' = [confirmed EXCEPT ![asked'] = of]
    /\ UNCHANGED accepted

(* I understand: the notice is closed and prove runs, with the boxes as they
   are now. *)
prove ==
    /\ Moves /\ notice /\ notice' = FALSE
    /\ IF Enough(checked) THEN AskFor("add", checked) /\ UNCHANGED proofError
                          ELSE proofError' = "few" /\ UNCHANGED provingVars
    /\ UNCHANGED <<issuingVars, reachVars, checked, step, opened, removalVars>>

(* The dialog's submit. *)
submit(plat) ==
    /\ Moves /\ dialog.open /\ ~dialog.pending /\ ~dialog.removed
    /\ dialog' = [dialog EXCEPT !.pending = TRUE]
    /\ AskFor("remove", {plat})
    /\ UNCHANGED <<issuingVars, reachVars, checked, verifyVars>>

ProofAt(c, at) == proofs' = (proofs \ {c}) \cup {[c EXCEPT !.at = at]}
Ended(c) == proofs' = proofs \ {c}

(* Mutant: the boxes as they are when the wallet is there. *)
requestProofNow(c) == IF c.kind = "add" THEN checked ELSE c.of

(* What is revealed: what the builder was given when the button was pressed. *)
requestProof(c) == c.of

ProverReached(c) ==
    /\ c.at = "connect"
    /\ proofs' = (proofs \ {c}) \cup {[c EXCEPT !.at = "wallet", !.of = requestProof(c)]}
    /\ UNCHANGED <<issuingVars, reachVars, checked, moves, verifyVars, removalVars, asked,
                   confirmed, accepted>>

(* As WalletNotReached; and the dialog does not stop being pending. *)
ProverNotReached(c) ==
    /\ c.at = "connect" /\ Ended(c)
    /\ showModal' \in {showModal, TRUE}
    /\ IF c.kind = "add" THEN proofError' = "connect" /\ UNCHANGED dialog
                         ELSE dialog' = [dialog EXCEPT !.error = TRUE] /\ UNCHANGED proofError
    /\ UNCHANGED <<issuingVars, checked, moves, step, notice, opened, asked,
                   confirmed, accepted>>

(* The wallet's presentation is sent, with POST or PATCH.  External: the server
   stores, or removes, what is proved, or refuses. *)
Sent(c, answer) ==
    /\ c.at = "wallet" /\ ProofAt(c, answer)
    /\ accepted' = IF answer = "ok" THEN [accepted EXCEPT ![c.id] = c.of] ELSE accepted
    /\ UNCHANGED <<issuingVars, reachVars, checked, moves, verifyVars, removalVars, asked,
                   confirmed>>

Succeeds(c) ==
    IF c.kind = "add"
    THEN /\ proofError' = "" /\ step' = "check" /\ opened' = c.id
         /\ UNCHANGED dialog
    ELSE /\ dialog' = [dialog EXCEPT !.pending = FALSE, !.removed = TRUE]
         /\ UNCHANGED <<proofError, step, opened>>

Fails(c, error) ==
    /\ IF c.kind = "add" THEN proofError' = error /\ UNCHANGED dialog
       ELSE dialog' = [dialog EXCEPT !.pending = FALSE, !.error = TRUE] /\ UNCHANGED proofError
    /\ UNCHANGED <<step, opened>>

Show(c) == IF c.at = "ok" THEN Succeeds(c) ELSE Fails(c, "rejected")

Answered(c) ==
    /\ c.at \in {"ok", "rejected"} /\ Ended(c)
    /\ Show(c)
    /\ UNCHANGED <<issuingVars, reachVars, checked, moves, notice, asked, confirmed, accepted>>

(* The wallet refuses, or the answer does not come back, whatever it was. *)
Interrupted(c) ==
    /\ c.at # "connect" /\ Ended(c)
    /\ Fails(c, "failed")
    /\ UNCHANGED <<issuingVars, reachVars, checked, moves, notice, asked, confirmed, accepted>>

-----------------------------------------------------------------------------
(* The removal dialog. *)

OpenDialog ==
    /\ ~notice /\ ~dialog.open
    /\ dialog' = [dialog EXCEPT !.open = TRUE]
    /\ UNCHANGED <<issuingVars, reachVars, checked, moves, verifyVars, provingVars>>

(* Closing resets it; what is under way still answers. *)
reset ==
    /\ Moves /\ dialog.open
    /\ dialog' = [open |-> FALSE, pending |-> FALSE, removed |-> FALSE, error |-> FALSE]
    /\ UNCHANGED <<issuingVars, reachVars, checked, verifyVars, provingVars>>

SelectPlatform ==
    /\ dialog.open /\ dialog.error
    /\ dialog' = [dialog EXCEPT !.error = FALSE]
    /\ UNCHANGED <<issuingVars, reachVars, checked, moves, verifyVars, provingVars>>

-----------------------------------------------------------------------------
VerifierPageStart(reading) ==
    /\ step = "verify" /\ proofError = "" /\ notice = reading /\ opened = 0
    /\ dialog = [open |-> FALSE, pending |-> FALSE, removed |-> FALSE, error |-> FALSE]
    /\ proofs = {} /\ asked = 0
    /\ confirmed = [i \in Ids |-> {}] /\ accepted = [i \in Ids |-> {}]

VerifierPageInit == CredentialInit /\ VerifierPageStart(FALSE)

ProvingStep(c) == \/ ProverReached(c) \/ ProverNotReached(c)
                 \/ Sent(c, "ok") \/ Sent(c, "rejected") \/ Answered(c) \/ Interrupted(c)

(* Issuing a credential ticks its box, which may clear the error. *)
VerifierPageNext ==
    \/ /\ CredentialNext
       /\ proofError' = IF checked' = checked THEN proofError ELSE ClearsError(checked')
       /\ UNCHANGED <<step, notice, opened, removalVars, provingVars>>
    \/ \E s \in Steps : toggle(s) \/ GoTo(s)
    \/ \E o \in Options : PlatformOption(o)
    \/ submitHandler \/ CloseNotice \/ prove
    \/ OpenDialog \/ reset \/ SelectPlatform
    \/ \E plat \in Platforms : submit(plat)
    \/ \E c \in proofs : ProvingStep(c)

-----------------------------------------------------------------------------
(* Type invariant.  There is no complaint about too few boxes once there are
   enough, and a proof asked for is of enough. *)
VerifierPageTypeOK ==
    /\ CredentialTypeOK
    /\ step \in Steps \cup {"none"} /\ checked \subseteq Options
    /\ proofError = "few" => ~Enough(checked)
    /\ \A c \in proofs : /\ c.id \in 1..asked
                         /\ c.kind = "add" => Enough(c.of)
    /\ \A c, d \in proofs : c.id = d.id => c = d
    /\ opened \in 0..asked

(* What the page says is done is done: the last step was opened by a proof
   only if the server accepted exactly what was ticked when the person
   confirmed, at least two options, however the boxes were changed, by hand or
   by an issuance, while it was awaited; and a verification is called removed
   only if the server removed one for a platform that was selected. *)
SaysWhatIsDone ==
    /\ opened # 0 => Enough(accepted[opened]) /\ accepted[opened] = confirmed[opened]
    /\ dialog.removed => \E i \in 1..asked : \E plat \in Platforms :
                             confirmed[i] = {plat} /\ accepted[i] = {plat}
==============================================================================
