---------------------------- MODULE MCSalesLedger ----------------------------
(***************************************************************************)
(* Small instances of SalesLedger.  The baskets are those that take a      *)
(* different path through checkout: paid in full, with change, on credit,  *)
(* without the customer a debt needs, offline.                             *)
(***************************************************************************)
EXTENDS SalesLedger, TLC

CONSTANTS p1, c1, r1

CartOf(req, qty, paid, customer, offline) ==
  [req |-> req, lines |-> [p \in Products |-> qty], total |-> qty, paid |-> paid,
   customer |-> customer, offline |-> offline]

\* Every unit is sold at 1: totals are quantities.
AllCarts == {CartOf(r1, 2, 0, c1, FALSE), CartOf(r1, 3, 4, NoCustomer, TRUE),
             CartOf(NoReq, 1, 1, NoCustomer, FALSE)}

MixedCarts == {CartOf(r1, 2, 1, c1, FALSE), CartOf(NoReq, 2, 0, c1, TRUE),
               CartOf(NoReq, 1, 0, NoCustomer, FALSE)}

OnTwo == [p \in Products |-> 2]
AlertAtOne == [p \in Products |-> 1]
NoAlert == [p \in Products |-> -1]

RefundAndDelivery == {-1, 1}

\* For the runs that check invariants only.
Interchangeable == Permutations(Workers) \cup Permutations(Sales)
=============================================================================
