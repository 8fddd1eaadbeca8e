------------------------------ MODULE Listings ------------------------------
(***************************************************************************)
(* Lists read page by page while their entries appear, move and leave.     *)
(* Inboxes, the directory of users and the audit log are continued from a  *)
(* cursor, the place of the last entry shown; a business's lists by the    *)
(* number of the page.  Every list is read from its greatest place to its  *)
(* smallest, a place standing for a date or for a name.                    *)
(***************************************************************************)
EXTENDS Integers, FiniteSets

CONSTANTS Users,      \* each has an inbox
          Ids,        \* identifiers of entries, compared when places are equal
          Scopes,     \* bound: the lists and entries of one behaviour
          PageSize,
          Ticks,      \* microseconds in a millisecond
          MaxTime,    \* bound: last microsecond
          None

\* What is recorded for good; what a filter on the status lets go; what is edited and deleted.
Settled == {"sales", "movements"}
Filtered == {"credits", "payments"}
Edited == {"products", "customers", "expenses"}
Numbered == Settled \cup Filtered \cup Edited
Lists == Users \cup Numbered \cup {"users", "audit"}

ASSUME NumberAssumption ==
  Ids \subseteq Nat /\ PageSize \in Nat \ {0} /\ Ticks \in Nat \ {0} /\ MaxTime \in Nat
ASSUME FiniteAssumption == IsFiniteSet(Ids)
ASSUME UserAssumption == Users \cap (Numbered \cup {"users", "audit"}) = {}
ASSUME NoneAssumption == None \notin Nat \cup Lists \cup [c : Nat, i : Nat]

VARIABLES
  scope,
  clock,     \* now()
  place,     \* created_at, sold_at, expense_date, name...; None: no such entry
  reader     \* someone reading a list

listing == <<scope, clock, place, reader>>

Times == 0 .. MaxTime
Closed == [list |-> None, state |-> "closed", page |-> 0, cursor |-> None, start |-> {},
           shown |-> {}, ends |-> {}, twice |-> FALSE, shifted |-> FALSE]

ListingTypeOK ==
  /\ scope \in Scopes /\ clock \in Times
  /\ place \in [Lists \X Ids -> Times \cup {None}]
  /\ reader \in [list : Lists \cup {None}, state : {"closed", "count", "more", "end"},
                 page : 0 .. Cardinality(Ids) + 1, cursor : [c : Times, i : Ids] \cup {None},
                 start : SUBSET Ids, shown : SUBSET Ids, ends : SUBSET Ids,
                 twice : BOOLEAN, shifted : BOOLEAN]

ListingInit ==
  /\ scope \in Scopes /\ clock = 0
  /\ place = [e \in Lists \X Ids |-> None]
  /\ reader = Closed

Present(l) == {i \in Ids : place[<<l, i>>] # None}

-----------------------------------------------------------------------------
(* Entries                                                                 *)

\* Time passes where someone pages through a list: nothing else tells it.
Tick ==
  /\ scope.paged # {} /\ clock < MaxTime
  /\ clock' = clock + 1
  /\ UNCHANGED <<scope, place, reader>>

\* now() is that of the transaction's beginning, a sale made offline is dated earlier.
Appear(l, i, t) ==
  /\ place[<<l, i>>] = None
  /\ place' = [place EXCEPT ![<<l, i>>] = t]
  /\ UNCHANGED <<scope, clock, reader>>

Shift(l) == reader' = IF reader.list = l THEN [reader EXCEPT !.shifted = TRUE] ELSE reader

\* A payment is decided, a credit paid, a row deleted, a product deactivated.
Leave(l, i) ==
  /\ place[<<l, i>>] # None
  /\ place' = [place EXCEPT ![<<l, i>>] = None]
  /\ Shift(l)
  /\ UNCHANGED <<scope, clock>>

\* update: the row is found in one transaction and written in another, which fails if the
\* row has left.
Edit(l, i, t) ==
  /\ place[<<l, i>>] # None
  /\ place' = [place EXCEPT ![<<l, i>>] = t]
  /\ Shift(l)
  /\ UNCHANGED <<scope, clock>>

-----------------------------------------------------------------------------
(* Pages                                                                   *)

\* More entries, newest first, than a page holds: the last one is where the next begins.
Rank(l, i) == [c |-> IF l = "audit" THEN 0 ELSE place[<<l, i>>], i |-> i]
Below(a, b) == a.c < b.c \/ (a.c = b.c /\ a.i < b.i)
Above(l, i, rest) == Cardinality({j \in rest : Below(Rank(l, i), Rank(l, j))})
Items(l, rest) == {i \in rest : Above(l, i, rest) < PageSize}

\* Mutant: the last of the rows read, which is not shown.
LastRead(l, rest) == CHOOSE i \in rest : Above(l, i, rest) = PageSize
LastShown(l, rest) == CHOOSE i \in rest : Above(l, i, rest) = PageSize - 1

\* A date is sent to the client and back in milliseconds.
Millisecond(t) == t - (t % Ticks)
CursorAt(l, i) == [Rank(l, i) EXCEPT !.c = Millisecond(@)]

\* Within the rows left, PageSize + 1 are read to know whether there are more.
ByCursor(r, cursor) ==
  LET l == r.list
      rest == {i \in Present(l) : cursor # None => Below(Rank(l, i), cursor)}
      items == Items(l, rest)
      shown == [r EXCEPT !.shown = @ \cup items, !.twice = @ \/ items \cap r.shown # {}]
  IN reader' = IF Cardinality(rest) > PageSize
               THEN [shown EXCEPT !.state = "more", !.ends = @ \cup {LastShown(l, rest)},
                                  !.cursor = CursorAt(l, LastShown(l, rest))]
               ELSE [shown EXCEPT !.state = "end", !.cursor = None]

\* Mutant: pages counted from zero.
SkipOne(k) == k * PageSize
Skipped(k) == (k - 1) * PageSize

NoneBelow(l, S, T) == \A i \in S, j \in T : place[<<l, i>>] >= place[<<l, j>>]
Lesser(a, b) == IF a < b THEN a ELSE b

\* Rows of equal places come in any order, and not the same for the next page.
ByNumber(r, k) ==
  LET l == r.list
      all == Present(l)
      skip == Lesser(Skipped(k), Cardinality(all))
  IN \E before \in SUBSET all : \E items \in SUBSET (all \ before) :
       /\ Cardinality(before) = skip
       /\ Cardinality(items) = Lesser(PageSize, Cardinality(all) - skip)
       /\ NoneBelow(l, before, all \ before)
       /\ NoneBelow(l, items, all \ (before \cup items))
       /\ reader' = [r EXCEPT !.shown = @ \cup items, !.page = k, !.state = "count"]

\* The total, by another statement of the same transaction.
Count ==
  /\ reader.state = "count"
  /\ reader' = [reader EXCEPT !.state =
                  IF reader.page * PageSize < Cardinality(Present(reader.list))
                  THEN "more" ELSE "end"]
  /\ UNCHANGED <<scope, clock, place>>

Opened(l) == [Closed EXCEPT !.list = l, !.start = Present(l)]

OpenNumbered(l) == ByNumber(Opened(l), 1) /\ UNCHANGED <<scope, clock, place>>
OpenContinued(l) == ByCursor(Opened(l), None) /\ UNCHANGED <<scope, clock, place>>

\* Load more: the page that follows.
NextPage ==
  /\ reader.state = "more"
  /\ IF reader.list \in Numbered THEN ByNumber(reader, reader.page + 1)
     ELSE ByCursor(reader, reader.cursor)
  /\ UNCHANGED <<scope, clock, place>>

-----------------------------------------------------------------------------
(* The lists                                                               *)

In(l) == l \in scope.paged
Dated(l) == \E i \in scope.ids : \E t \in 0 .. clock : Appear(l, i, t)
Named(l) == \E i \in scope.ids : \E t \in Times : Appear(l, i, t)
Leaves(l) == \E i \in scope.ids : Leave(l, i)
Edits(l) == \E i \in scope.ids : \E t \in Times : Edit(l, i, t)

SalesFindAll == In("sales") /\ (OpenNumbered("sales") \/ Dated("sales"))
FindMovements == In("movements") /\ (OpenNumbered("movements") \/ Dated("movements"))
ListBusinessWide == In("credits") /\ (OpenNumbered("credits") \/ Named("credits") \/ Leaves("credits"))
PaymentsList == In("payments") /\ (OpenNumbered("payments") \/ Dated("payments") \/ Leaves("payments"))
ProductsFindAll == In("products") /\ (OpenNumbered("products") \/ Named("products")
                                        \/ Leaves("products") \/ Edits("products"))
CustomersFindAll == In("customers") /\ OpenNumbered("customers")
CreateCustomer == In("customers") /\ Named("customers")
UpdateCustomer == In("customers") /\ Edits("customers")
RemoveCustomer == In("customers") /\ Leaves("customers")
ExpensesFindAll == In("expenses") /\ OpenNumbered("expenses")
CreateExpense == In("expenses") /\ Named("expenses")
UpdateExpense == In("expenses") /\ Edits("expenses")
RemoveExpense == In("expenses") /\ Leaves("expenses")

SearchUsers == In("users") /\ (OpenContinued("users") \/ Dated("users"))
SearchAudit == In("audit") /\ (OpenContinued("audit") \/ Dated("audit"))

ListingNext ==
  \/ Tick \/ Count \/ NextPage
  \/ SalesFindAll \/ FindMovements \/ ListBusinessWide \/ PaymentsList \/ ProductsFindAll
  \/ CustomersFindAll \/ CreateCustomer \/ UpdateCustomer \/ RemoveCustomer
  \/ ExpensesFindAll \/ CreateExpense \/ UpdateExpense \/ RemoveExpense
  \/ SearchUsers \/ SearchAudit

-----------------------------------------------------------------------------
\* Continuing from cursor to cursor shows once every entry that was there at the first
\* page, but those of the millisecond at which a page ended: the cursor loses their
\* microseconds (notifications list, admin search).
CursorsMissOnlyAMillisecond ==
  reader.list \in Lists \ Numbered =>
    /\ ~reader.twice
    /\ reader.state = "end" => \A i \in reader.start \ reader.shown :
         /\ reader.list # "audit"
         /\ \E j \in reader.ends :
              Millisecond(place[<<reader.list, i>>]) = Millisecond(place[<<reader.list, j>>])

\* Turning numbered pages to the last misses an entry that was there at the first only if
\* an entry left or moved in the meantime, or for another of the same date or name: rows
\* that appear in the meantime, on whatever page, hide none (findAll, list).
NumbersMissOnlyWhatShifts ==
  reader.list \in Numbered /\ reader.state = "end" /\ ~reader.shifted =>
    \A i \in reader.start \ reader.shown :
      \E j \in reader.shown : place[<<reader.list, j>>] = place[<<reader.list, i>>]
=============================================================================
