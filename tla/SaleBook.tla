------------------------------ MODULE SaleBook ------------------------------
(***************************************************************************)
(* What SalesService promises the rest of the system about the sales of    *)
(* one business: a sale recorded under a client request id is the only one *)
(* that id will ever name, and a voided sale stays voided.  The POS, the   *)
(* offline queue of the phone and the manual payments rely on nothing      *)
(* else.  SalesLedger implements this book; ManualPayments uses it.        *)
(***************************************************************************)

CONSTANTS
  Sales,    \* identifiers of sale rows
  ReqIds    \* clientRequestId values

VARIABLES
  book,     \* [ReqIds -> SUBSET Sales]: the sales each request id names
  status    \* [Sales -> Status]

bookVars == <<book, status>>

SaleStatus == {"absent", "completed", "void"}

BookTypeOK ==
  /\ book \in [ReqIds -> SUBSET Sales]
  /\ status \in [Sales -> SaleStatus]

Init ==
  /\ book = [r \in ReqIds |-> {}]
  /\ status = [s \in Sales |-> "absent"]

\* A checkout that carries a request id no recorded sale has.
Record(r, s) ==
  /\ book[r] = {}
  /\ status[s] = "absent"
  /\ book' = [book EXCEPT ![r] = {s}]
  /\ status' = [status EXCEPT ![s] = "completed"]

\* A checkout sent without a request id.
RecordUnnamed(s) ==
  /\ status[s] = "absent"
  /\ status' = [status EXCEPT ![s] = "completed"]
  /\ UNCHANGED book

VoidRecorded(s) ==
  /\ status[s] = "completed"
  /\ status' = [status EXCEPT ![s] = "void"]
  /\ UNCHANGED book

Next ==
  \E s \in Sales :
    \/ \E r \in ReqIds : Record(r, s)
    \/ RecordUnnamed(s)
    \/ VoidRecorded(s)

Spec == Init /\ [][Next]_bookVars

=============================================================================
