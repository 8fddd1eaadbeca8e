-------------------------- MODULE MCAccountSessions --------------------------
(* One account: the requests on its codes, its tokens and its state.         *)
EXTENDS AccountSessions, TLC

\* For runs without liveness properties.
Interchangeable == Permutations(Requests)
=============================================================================
