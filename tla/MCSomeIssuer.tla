---------------------------- MODULE MCSomeIssuer -----------------------------
EXTENDS SomeIssuer, TLC

(* Requests and users are interchangeable; safety runs only. *)
Symmetry == Permutations(Requests) \cup Permutations(Users)
=============================================================================
