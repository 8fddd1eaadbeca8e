---------------------------- MODULE MCStaffAccess ----------------------------
(* The staff account on a small instance. *)
EXTENDS StaffAccess, TLC

Interchangeable == Permutations(Requests) \cup Permutations(Sessions)
=============================================================================
