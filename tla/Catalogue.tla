------------------------------ MODULE Catalogue ------------------------------
(***************************************************************************)
(* What an owner sets up and illustrates: products with their photo, a     *)
(* payment method with its fields and logo, the payments made by it with   *)
(* their proof.  The pictures lie in an object store that no transaction   *)
(* covers: a picture is put before the row names it, and the one it        *)
(* replaces is deleted afterwards.  A handler is as many steps as it has   *)
(* transactions and calls to the store; under READ COMMITTED the count     *)
(* that a limit is checked with is a step of its own.  Reads of pictures   *)
(* change nothing.                                                         *)
(***************************************************************************)
EXTENDS Integers, FiniteSets

CONSTANTS Products, Payments, Method,
          Scopes,          \* bound: the operations that one behaviour mixes
          Fields, Values,  \* the fields of the method that an update may leave out
          Requests,
          ProductLimit,    \* products.max of the plan
          MaxKeys,         \* bound: pictures put in the store
          MaxFaults,       \* bound: deaths of a request, calls whose outcome it does not learn
          None

Items == Products \cup Payments \cup {Method}
Keys == 1 .. MaxKeys

ASSUME ItemAssumption ==
  /\ Method \notin Products \cup Payments
  /\ Products \cap Payments = {}
ASSUME ScopeAssumption == Scopes \subseteq SUBSET {"pictures", "update", "remove", "payment", "products"}
ASSUME BoundAssumption == ProductLimit \in Nat /\ MaxKeys \in Nat /\ MaxFaults \in Nat
ASSUME FiniteAssumption == IsFiniteSet(Products)
ASSUME NoneAssumption == None \notin Keys \cup Values \cup Items

VARIABLES
  scope,     \* the operations of this behaviour: independent ones need not be mixed
  row,       \* live: active product or method, payment open to its payer; off; gone: deleted
  picture,   \* image_key, logo_key, proof_key
  fields,    \* the other fields of the method
  linked,    \* payments whose payment_method_id is not NULL
  files,     \* keys in the object store
  drawn,     \* keys drawn so far
  req,       \* what each request has read and where it stands
  faults,
  excuses,   \* what may have left a file behind: faults, pictures changed under a request
  unknown,   \* pictures whose COMMIT failed after it took effect
  meant,     \* for each field, the value last sent
  overlapped \* updates of the method, places counted: some request wrote after another

vars == <<scope, row, picture, fields, linked, files, drawn, req, faults, excuses, unknown, meant, overlapped>>

NoFields == [f \in Fields |-> None]
Local == [pc : {"idle", "put", "name", "undo", "clear", "discard", "update", "count", "delete",
                "start", "room", "write"},
          item : Items \cup {None}, old : Keys \cup {None}, new : Keys \cup {None},
          read : [Fields -> Values \cup {None}], sent : [Fields -> Values \cup {None}],
          seen : SUBSET Products]
Idle == [pc |-> "idle", item |-> None, old |-> None, new |-> None, read |-> NoFields,
         sent |-> NoFields, seen |-> {}]

TypeOK ==
  /\ scope \in Scopes
  /\ row \in [Items -> {"none", "live", "off", "gone"}]
  /\ picture \in [Items -> Keys \cup {None}]
  /\ fields \in [Fields -> Values \cup {None}] /\ meant \in [Fields -> Values \cup {None}]
  /\ linked \subseteq Payments
  /\ files \subseteq 1 .. drawn /\ drawn \in 0 .. MaxKeys
  /\ req \in [Requests -> Local]
  /\ faults \in 0 .. MaxFaults
  /\ excuses \in Nat
  /\ unknown \subseteq Keys
  /\ overlapped \subseteq {"fields", "history", "places"}

Init ==
  /\ scope \in Scopes
  /\ row = [i \in Items |-> "none"]
  /\ picture = [i \in Items |-> None]
  /\ fields = NoFields /\ meant = NoFields
  /\ linked = {}
  /\ files = {} /\ drawn = 0
  /\ req = [r \in Requests |-> Idle]
  /\ faults = 0 /\ excuses = 0 /\ unknown = {}
  /\ overlapped = {}

Goto(r, to) == req' = [req EXCEPT ![r] = to]
Done(r) == Goto(r, Idle)
DoneThen(r, keep) == Goto(r, [Idle EXCEPT !.pc = "discard", !.old = keep])

-----------------------------------------------------------------------------
(* Pictures                                                                *)

Exists(i) == row[i] \in {"live", "off"}
\* assertProofEditable; logos and photos may always be changed.
Editable(i) == Exists(i) /\ (i \in Payments => row[i] = "live")

\* Mutants: the new file is deleted, or none.
ReplacedByNew(r) == req[r].new
ReplacedNothing(r) == None
\* The file a request deletes in the end is the one it read.
Replaced(r) == req[r].old

\* setLogo, setProof, ProductImages.set: the row is read first.
BeginSet(r, i) ==
  /\ req[r].pc = "idle" /\ Editable(i)
  /\ Goto(r, [Idle EXCEPT !.pc = "put", !.item = i, !.old = picture[i]])
  /\ UNCHANGED <<row, picture, fields, linked, files, drawn, faults, excuses, unknown, meant, overlapped>>

Put(r) ==
  /\ req[r].pc = "put" /\ drawn < MaxKeys
  /\ drawn' = drawn + 1
  /\ files' = files \cup {drawn + 1}
  /\ Goto(r, [req[r] EXCEPT !.pc = "name", !.new = drawn + 1])
  /\ UNCHANGED <<row, picture, fields, linked, faults, excuses, unknown, meant, overlapped>>

\* Another request changed the picture since this one read it: that file is nobody's now.
Displaced(r) == picture[req[r].item] \notin {req[r].old, None}

\* The row names the new picture, or is gone: the request throws and takes the file back.
Name(r) ==
  /\ req[r].pc = "name"
  /\ LET i == req[r].item IN
     IF Exists(i)
     THEN /\ picture' = [picture EXCEPT ![i] = req[r].new]
          /\ excuses' = IF Displaced(r) THEN excuses + 1 ELSE excuses
          /\ DoneThen(r, Replaced(r))
     ELSE /\ Goto(r, [req[r] EXCEPT !.pc = "undo"])
          /\ UNCHANGED <<picture, excuses>>
  /\ UNCHANGED <<row, fields, linked, files, drawn, faults, unknown, meant, overlapped>>

\* The update fails, or its COMMIT takes effect and the connection breaks before the
\* answer: the request throws in both cases.
NameFails(r) ==
  /\ req[r].pc = "name" /\ faults < MaxFaults
  /\ \/ UNCHANGED <<picture, excuses, unknown>>
     \/ /\ Exists(req[r].item)
        /\ picture' = [picture EXCEPT ![req[r].item] = req[r].new]
        /\ unknown' = unknown \cup {req[r].new}
        /\ excuses' = IF picture[req[r].item] # None THEN excuses + 1 ELSE excuses
  /\ faults' = faults + 1
  /\ Goto(r, [req[r] EXCEPT !.pc = "undo"])
  /\ UNCHANGED <<row, fields, linked, files, drawn, meant, overlapped>>

Undo(r) ==
  /\ req[r].pc = "undo"
  /\ files' = files \ {req[r].new}
  /\ Done(r)
  /\ UNCHANGED <<row, picture, fields, linked, drawn, faults, excuses, unknown, meant, overlapped>>

\* removeLogo, removeProof, ProductImages.remove
BeginClear(r, i) ==
  /\ req[r].pc = "idle" /\ Editable(i) /\ picture[i] # None
  /\ Goto(r, [Idle EXCEPT !.pc = "clear", !.item = i, !.old = picture[i]])
  /\ UNCHANGED <<row, picture, fields, linked, files, drawn, faults, excuses, unknown, meant, overlapped>>

Clear(r) ==
  /\ req[r].pc = "clear"
  /\ IF Exists(req[r].item)
     THEN /\ picture' = [picture EXCEPT ![req[r].item] = None]
          /\ excuses' = IF Displaced(r) THEN excuses + 1 ELSE excuses
          /\ DoneThen(r, Replaced(r))
     ELSE Done(r) /\ UNCHANGED <<picture, excuses>>
  /\ UNCHANGED <<row, fields, linked, files, drawn, faults, unknown, meant, overlapped>>

\* discard: a failure is logged, the request goes on.
Discard(r) ==
  /\ req[r].pc = "discard"
  /\ files' = files \ {req[r].old}
  /\ Done(r)
  /\ UNCHANGED <<row, picture, fields, linked, drawn, faults, excuses, unknown, meant, overlapped>>

\* The instance dies, or the store fails for good, with a file on hand.
Die(r) ==
  /\ req[r].pc \in {"name", "undo", "discard"} /\ faults < MaxFaults
  /\ faults' = faults + 1
  /\ excuses' = excuses + 1
  /\ Done(r)
  /\ UNCHANGED <<row, picture, fields, linked, files, drawn, unknown, meant, overlapped>>

-----------------------------------------------------------------------------
(* The payment method                                                      *)

CreateMethod ==
  /\ row[Method] = "none"
  /\ row' = [row EXCEPT ![Method] = "live"]
  /\ \E typed \in [Fields -> Values \cup {None}] : fields' = typed /\ meant' = typed
  /\ UNCHANGED <<picture, linked, files, drawn, req, faults, excuses, unknown, overlapped>>

\* update reads every field; the ones not sent are written as they were read.
BeginUpdate(r) ==
  /\ req[r].pc = "idle" /\ Exists(Method)
  /\ \E sent \in [Fields -> Values \cup {None}] :
       Goto(r, [Idle EXCEPT !.pc = "update", !.read = fields, !.sent = sent])
  /\ UNCHANGED <<row, picture, fields, linked, files, drawn, faults, excuses, unknown, meant, overlapped>>

\* A mutant: what is not sent is emptied.
MergedWithNothing(r) == req[r].sent
Merged(r) == [f \in Fields |-> IF req[r].sent[f] = None THEN req[r].read[f] ELSE req[r].sent[f]]

UpdateMethod(r) ==
  /\ req[r].pc = "update"
  /\ IF Exists(Method)
     THEN /\ fields' = Merged(r)
          /\ meant' = [f \in Fields |-> IF req[r].sent[f] = None THEN meant[f] ELSE req[r].sent[f]]
          /\ \E status \in {"live", "off"} : row' = [row EXCEPT ![Method] = status]
          /\ overlapped' = IF req[r].read # fields THEN overlapped \cup {"fields"} ELSE overlapped
     ELSE UNCHANGED <<fields, meant, row, overlapped>>
  /\ Done(r)
  /\ UNCHANGED <<picture, linked, files, drawn, faults, excuses, unknown>>

\* remove: the row, then the payments that use it, then the DELETE.
BeginRemove(r) ==
  /\ req[r].pc = "idle" /\ Exists(Method)
  /\ Goto(r, [Idle EXCEPT !.pc = "count", !.item = Method, !.old = picture[Method]])
  /\ UNCHANGED <<row, picture, fields, linked, files, drawn, faults, excuses, unknown, meant, overlapped>>

\* The count of the payments that use the method.
Unused == linked = {}

CountUses(r) ==
  /\ req[r].pc = "count"
  /\ IF Unused THEN Goto(r, [req[r] EXCEPT !.pc = "delete"]) ELSE Done(r)
  /\ UNCHANGED <<row, picture, fields, linked, files, drawn, faults, excuses, unknown, meant, overlapped>>

\* ON DELETE SET NULL (payment_method_id)
DeleteMethod(r) ==
  /\ req[r].pc = "delete"
  /\ IF Exists(Method)
     THEN /\ row' = [row EXCEPT ![Method] = "gone"]
          /\ picture' = [picture EXCEPT ![Method] = None]
          /\ linked' = {}
          /\ excuses' = IF Displaced(r) THEN excuses + 1 ELSE excuses
          /\ DoneThen(r, Replaced(r))
     ELSE Done(r) /\ UNCHANGED <<row, picture, linked, excuses>>
  /\ UNCHANGED <<fields, files, drawn, faults, unknown, meant, overlapped>>

\* start: the method is offered when it is read; the row names it while it exists.
BeginPayment(r) ==
  /\ req[r].pc = "idle" /\ row[Method] = "live"
  /\ \E p \in Payments :
       /\ row[p] = "none"
       /\ Goto(r, [Idle EXCEPT !.pc = "start", !.item = p])
  /\ UNCHANGED <<row, picture, fields, linked, files, drawn, faults, excuses, unknown, meant, overlapped>>

\* A DELETE that has already counted is under way: it will take the link away.
Deleting == \E r \in Requests : req[r].pc = "delete"

StartPayment(r) ==
  /\ req[r].pc = "start"
  /\ IF Exists(Method) /\ row[req[r].item] = "none"
     THEN /\ row' = [row EXCEPT ![req[r].item] = "live"]
          /\ linked' = linked \cup {req[r].item}
          /\ overlapped' = IF Deleting THEN overlapped \cup {"history"} ELSE overlapped
     ELSE UNCHANGED <<row, linked, overlapped>>
  /\ Done(r)
  /\ UNCHANGED <<picture, fields, files, drawn, faults, excuses, unknown, meant>>

\* The payment is verified or cancelled (ManualPayments).
Decide(p) ==
  /\ row[p] = "live"
  /\ row' = [row EXCEPT ![p] = "off"]
  /\ UNCHANGED <<picture, fields, linked, files, drawn, req, faults, excuses, unknown, meant, overlapped>>

-----------------------------------------------------------------------------
(* Products and the places of the plan                                     *)

Active == {p \in Products : row[p] = "live"}
\* The places that are left.
Room == Cardinality(Active) < ProductLimit

\* create and update: the limit is read, then a transaction counts and writes.  An
\* update that read the product active counts nothing.
BeginProduct(r) ==
  /\ req[r].pc = "idle"
  /\ \E p \in Products :
       /\ row[p] \in {"none", "off", "live"}
       /\ Goto(r, [Idle EXCEPT !.pc = IF row[p] = "live" THEN "write" ELSE "room", !.item = p,
                              !.seen = Active])
  /\ UNCHANGED <<row, picture, fields, linked, files, drawn, faults, excuses, unknown, meant, overlapped>>

AssertProductRoom(r) ==
  /\ req[r].pc = "room"
  /\ IF Room THEN Goto(r, [req[r] EXCEPT !.pc = "write", !.seen = Active]) ELSE Done(r)
  /\ UNCHANGED <<row, picture, fields, linked, files, drawn, faults, excuses, unknown, meant, overlapped>>

WriteProduct(r) ==
  /\ req[r].pc = "write"
  /\ row' = [row EXCEPT ![req[r].item] = "live"]
  /\ overlapped' = IF Active # req[r].seen THEN overlapped \cup {"places"} ELSE overlapped
  /\ Done(r)
  /\ UNCHANGED <<picture, fields, linked, files, drawn, faults, excuses, unknown, meant>>

\* deactivate, or an update that sends isActive false.
Deactivate(p) ==
  /\ row[p] = "live"
  /\ row' = [row EXCEPT ![p] = "off"]
  /\ UNCHANGED <<picture, fields, linked, files, drawn, req, faults, excuses, unknown, meant, overlapped>>

-----------------------------------------------------------------------------

Illustrate(r) ==
  \/ \E i \in Items : BeginSet(r, i) \/ BeginClear(r, i)
  \/ Put(r) \/ Name(r) \/ NameFails(r) \/ Undo(r) \/ Clear(r)
Update(r) == BeginUpdate(r) \/ UpdateMethod(r)
Remove(r) == BeginRemove(r) \/ CountUses(r) \/ DeleteMethod(r)
Pay(r) == BeginPayment(r) \/ StartPayment(r)
Stock(r) == BeginProduct(r) \/ AssertProductRoom(r) \/ WriteProduct(r)

Serve(r) ==
  \/ "pictures" \in scope /\ Illustrate(r)
  \/ "update" \in scope /\ Update(r)
  \/ "remove" \in scope /\ Remove(r)
  \/ "payment" \in scope /\ Pay(r)
  \/ "products" \in scope /\ Stock(r)
  \/ Discard(r) \/ Die(r)

Next ==
  /\ \/ \E r \in Requests : Serve(r)
     \/ CreateMethod
     \/ \E p \in Payments : Decide(p)
     \/ \E p \in Products : Deactivate(p)
  /\ UNCHANGED scope

Spec == Init /\ [][Next]_vars

-----------------------------------------------------------------------------

\* A picture that a row names is in the store, however uploads, removals and
\* deletions of the row overlap: a file is deleted only once no row will name
\* it again.  The exception is a COMMIT whose answer is lost, which the request
\* takes for a failure.
NamedFilesExist == \A i \in Items : picture[i] \in files \cup unknown \cup {None}

InHand == UNION {{req[r].old, req[r].new} : r \in Requests}
Leftovers == {k \in files : k \notin InHand /\ \A i \in Items : picture[i] # k}

\* "A leftover file is harmless", and rare: each one is due to a fault, or to a
\* picture that another request changed between the read and the write.
LeftoversExplained == Cardinality(Leftovers) <= excuses

\* What a request reads and then acts on - the fields an update leaves alone, the
\* payments that use a method, the active products - decides rightly unless another
\* request wrote in between: fields sent last are there, a method that was ever used
\* stays with the payments that point at it, the plan's limit is kept (update, remove,
\* assertCanAddProduct).
ReadsHeldUntilWritten ==
  /\ Exists(Method) /\ "fields" \notin overlapped => fields = meant
  /\ "history" \notin overlapped =>
       \A p \in Payments : row[p] # "none" => p \in linked /\ Exists(Method)
  /\ "places" \notin overlapped => Cardinality(Active) <= ProductLimit
=============================================================================
