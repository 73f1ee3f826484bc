---------------------------- MODULE SlidingWindow ----------------------------
(***************************************************************************)
(* What the rate limiter of the example issuers promises, in the words of  *)
(* the command line of examples/some-issuer: it "remembers" a number of    *)
(* issued credentials (Size) and limits the number of times the same user  *)
(* identity occurs among them (Multiplicity).                              *)
(***************************************************************************)
EXTENDS Integers, Sequences, FiniteSets

CONSTANTS Users, Size, Multiplicity

VARIABLE window  \* the latest issuances, newest first

Times(u) == Cardinality({i \in 1..Len(window) : window[i] = u})

Remember(u) ==
    LET longer == <<u>> \o window
    IN  IF Len(longer) <= Size THEN longer ELSE SubSeq(longer, 1, Size)

Admit(u) == /\ Times(u) < Multiplicity
            /\ window' = Remember(u)

Init == window = << >>
Next == \E u \in Users : Admit(u)
Spec == Init /\ [][Next]_window
=============================================================================
