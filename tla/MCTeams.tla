------------------------------- MODULE MCTeams -------------------------------
(* Teams on a small instance. *)
EXTENDS Teams, TLC

Interchangeable == Permutations(Calls) \cup Permutations(Users \ {Owner})
=============================================================================
