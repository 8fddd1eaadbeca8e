----------------------------- MODULE MCCatalogue -----------------------------
(* The catalogue on a small instance. *)
EXTENDS Catalogue, TLC

Parts == {{"pictures", "remove", "payment"}, {"update", "remove"}, {"pictures", "products"}}

Interchangeable ==
  Permutations(Requests) \cup Permutations(Products) \cup Permutations(Fields)
    \cup Permutations(Values)
=============================================================================
