--------------------------- MODULE MCManualPayments ---------------------------
(***************************************************************************)
(* A small instance of ManualPayments.  There are as many payments and     *)
(* sales as request ids, so that no request waits for an identifier.       *)
(***************************************************************************)
EXTENDS ManualPayments

CONSTANT Leaving   \* the payments whose customer may be deleted

\* A deletion matters to checkout alone: it is left until there is one to come, and
\* the states in which it has happened for nothing are left out.
LeavesInTime ==
  \A p \in gone' \ gone : p \in Leaving /\ Unfinished(p)

MCSpec == Init /\ [][Next /\ LeavesInTime]_vars /\ Fairness
=============================================================================
