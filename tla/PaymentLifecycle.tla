-------------------------- MODULE PaymentLifecycle --------------------------
(***************************************************************************)
(* What PaymentsService promises of a manual payment: pending, submitted,  *)
(* verified or rejected, or cancelled; a decision is made on a declaration *)
(* that is waiting for it, once, and only a verified payment is sold.      *)
(* ManualPayments implements it.                                           *)
(***************************************************************************)

CONSTANT Payments     \* identifiers of manual_payments rows

VARIABLES
  life,       \* [Payments -> status of the payment, or "absent"]
  sold        \* the payments a sale has been recorded for

lifeVars == <<life, sold>>

Init ==
  /\ life = [p \in Payments |-> "absent"]
  /\ sold = {}

Move(p, from, to) ==
  /\ life[p] \in from
  /\ life' = [life EXCEPT ![p] = to]
  /\ UNCHANGED sold

Start(p) == Move(p, {"absent"}, "pending")

\* A rejected payment can be declared again with corrected details.
Declare(p) == Move(p, {"pending", "rejected"}, "submitted")

Verify(p) == Move(p, {"submitted"}, "verified")

Reject(p) == Move(p, {"submitted"}, "rejected")

Cancel(p) == Move(p, {"pending", "submitted"}, "cancelled")

Sell(p) ==
  /\ life[p] = "verified"
  /\ p \notin sold
  /\ sold' = sold \cup {p}
  /\ UNCHANGED life

Next ==
  \E p \in Payments :
    Start(p) \/ Declare(p) \/ Verify(p) \/ Reject(p) \/ Cancel(p) \/ Sell(p)

Spec == Init /\ [][Next]_lifeVars

=============================================================================
