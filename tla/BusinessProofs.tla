--------------------------- MODULE BusinessProofs ---------------------------
(***************************************************************************)
(* Theorems about what the owner of a business sets up: Catalogue, for any *)
(* number of products, payments, pictures, faults and requests, and Teams, *)
(* for any number of people, calls and connections.  The two share nothing *)
(* but this module.                                                        *)
(*                                                                         *)
(* Catalogue: the pictures that rows name are there, a picture is left     *)
(* over for a reason, and what is read holds until it is written unless    *)
(* another request wrote.  A key is drawn once; what is at stake is who    *)
(* may still delete it, and who has yet to.                                *)
(*                                                                         *)
(* Teams: only acceptances that wait for connections block each other, for *)
(* whoever waits for a row holds none, and the team stays within the limit *)
(* unless a place was counted that another call took.                      *)
(***************************************************************************)
EXTENDS Catalogue, Teams, FiniteSetTheorems, TLAPS

OnHand == {"put", "clear", "name", "undo", "count", "delete"}

\* A request is a record of these fields, whatever is in them.
Shaped(q) ==
  q \in [pc : {q.pc}, item : {q.item}, old : {q.old}, new : {q.new},
         read : {q.read}, sent : {q.sent}, seen : {q.seen}]

Typed ==
  /\ drawn \in Nat /\ drawn <= MaxKeys
  /\ picture \in [Items -> 1 .. drawn \cup {None}]
  /\ req = [r \in Requests |-> req[r]]
  /\ \A r \in Requests : Shaped(req[r])

\* A picture is of one item.
OneItemEach == \A i, j \in Items : picture[i] = picture[j] /\ picture[i] # None => i = j

\* The picture that a request replaces is of its item until the row is written, and no
\* row's afterwards.
OldHeld(q) ==
  /\ q.pc \in OnHand => q.item \in Items
  /\ q.pc \in {"count", "delete"} => q.item = Method
  /\ q.old # None =>
       /\ q.old \in 1 .. drawn
       /\ \A i \in Items : picture[i] = q.old =>
            IF q.pc = "discard" THEN q.old \in unknown ELSE i = q.item

\* The picture that a request brings is no row's, but for a COMMIT not learnt of.
NewHeld(q) ==
  q.pc \in {"name", "undo"} =>
    /\ q.new \in 1 .. drawn
    /\ q.pc = "name" => q.new \in files
    /\ \A i \in Items : picture[i] = q.new => q.pc = "undo" /\ q.new \in unknown

\* It is no other request's either.
Apart ==
  \A r, s \in Requests : req[r].pc = "name" =>
    /\ req[s].old # req[r].new
    /\ req[s].pc \in {"name", "undo"} /\ s # r => req[s].new # req[r].new

IInv ==
  /\ Typed /\ OneItemEach /\ Apart /\ NamedFilesExist
  /\ \A r \in Requests : OldHeld(req[r]) /\ NewHeld(req[r])

pictures == <<picture, files, unknown, drawn>>

-----------------------------------------------------------------------------
LEMMA KeysAreNumbers == None \notin 1 .. MaxKeys
BY NoneAssumption DEF Keys

LEMMA AfterGoto ==
  ASSUME Typed, NEW r \in Requests, NEW to, Goto(r, to)
  PROVE  /\ req' = [s \in Requests |-> req'[s]]
         /\ \A s \in Requests : req'[s] = IF s = r THEN to ELSE req[s]
BY DEF Typed, Goto

\* A request that goes on without touching row or store.
LEMMA RequestGoesOn ==
  ASSUME IInv, NEW r \in Requests, NEW to, Goto(r, to), UNCHANGED pictures,
         Shaped(to), OldHeld(to), NewHeld(to), to.pc # "name",
         \A s \in Requests : req[s].pc = "name" /\ s # r => to.old # req[s].new,
         to.pc = "undo" => req[r].pc \in {"name", "undo"} /\ to.new = req[r].new
  PROVE  IInv'
<1>1. /\ req' = [s \in Requests |-> req'[s]]
      /\ \A s \in Requests : req'[s] = IF s = r THEN to ELSE req[s]
  BY AfterGoto DEF IInv
<1>2. Typed'
  BY <1>1 DEF IInv, Typed, Shaped, pictures
<1>3. OneItemEach' /\ NamedFilesExist'
  BY DEF IInv, OneItemEach, NamedFilesExist, pictures
<1>4. Apart'
  BY <1>1 DEF IInv, Apart
<1>5. \A s \in Requests : (OldHeld(req[s]) /\ NewHeld(req[s]))'
  BY <1>1 DEF IInv, OnHand, OldHeld, NewHeld, pictures
<1>6. QED
  BY <1>2, <1>3, <1>4, <1>5 DEF IInv

\* A request that starts, or ends, with no picture on hand.
LEMMA EmptyHanded ==
  ASSUME IInv, NEW r \in Requests, NEW to, Goto(r, to), UNCHANGED pictures,
         Shaped(to), to.old = None, to.pc \notin OnHand
  PROVE  IInv'
<1>1. OldHeld(to) /\ NewHeld(to)
  BY DEF OnHand, OldHeld, NewHeld
<1>2. \A s \in Requests : req[s].pc = "name" => req[s].new \in 1 .. MaxKeys
  <2>1. \A s \in Requests : req[s].pc = "name" => req[s].new \in 1 .. drawn
    BY DEF IInv, NewHeld
  <2>2. QED
    BY <2>1, BoundAssumption DEF IInv, Typed
<1>3. QED
  BY <1>1, <1>2, KeysAreNumbers, RequestGoesOn DEF OnHand

LEMMA IdleShape == Shaped(Idle) /\ Idle.old = None /\ Idle.pc = "idle"
BY DEF Shaped, Idle

LEMMA DoneKeeps ==
  ASSUME IInv, NEW r \in Requests, Done(r), UNCHANGED pictures
  PROVE  IInv'
BY IdleShape, EmptyHanded DEF Done, OnHand

LEMMA NothingMoves ==
  ASSUME IInv, UNCHANGED <<pictures, req>>
  PROVE  IInv'
BY DEF IInv, Typed, OneItemEach, Apart, NamedFilesExist, OnHand, OldHeld, NewHeld, pictures

-----------------------------------------------------------------------------
(* A picture is set                                                        *)

\* What a request reads, to replace it later.
LEMMA ReadingKeeps ==
  ASSUME IInv, NEW r \in Requests, NEW i \in Items,
         NEW pc \in {"put", "clear", "count"}, pc = "count" => i = Method,
         Goto(r, [Idle EXCEPT !.pc = pc, !.item = i, !.old = picture[i]]), UNCHANGED pictures
  PROVE  IInv'
<1> DEFINE to == [Idle EXCEPT !.pc = pc, !.item = i, !.old = picture[i]]
<1>1. Shaped(to) /\ to.pc = pc /\ to.item = i /\ to.old = picture[i]
  BY DEF Shaped, Idle
<1>2. Goto(r, to)
  OBVIOUS
<1> HIDE DEF to
<1>3. OldHeld(to) /\ NewHeld(to)
  BY <1>1 DEF OnHand, OldHeld, NewHeld, IInv, Typed, OneItemEach
<1>4. \A s \in Requests : req[s].pc = "name" => to.old # req[s].new
  BY <1>1 DEF IInv, NewHeld
<1>5. QED
  BY <1>1, <1>2, <1>3, <1>4, RequestGoesOn

LEMMA PutKeeps ==
  ASSUME IInv, NEW r \in Requests, Put(r)
  PROVE  IInv'
<1> DEFINE to == [req[r] EXCEPT !.pc = "name", !.new = drawn + 1]
<1>1. /\ req[r].pc = "put" /\ drawn < MaxKeys /\ drawn' = drawn + 1
      /\ files' = files \cup {drawn + 1}
      /\ Goto(r, to) /\ UNCHANGED <<picture, unknown>>
  BY DEF Put
<1>2. Shaped(to) /\ to.pc = "name" /\ to.item = req[r].item /\ to.old = req[r].old /\ to.new = drawn + 1
  <2>1. Shaped(req[r])
    BY DEF IInv, Typed
  <2>2. QED
    BY <2>1 DEF Shaped
<1> HIDE DEF to
<1>3. /\ req' = [s \in Requests |-> req'[s]]
      /\ \A s \in Requests : req'[s] = IF s = r THEN to ELSE req[s]
  BY <1>1, AfterGoto DEF IInv
<1>4. drawn \in Nat /\ drawn + 1 \in 1 .. MaxKeys /\ drawn + 1 # None
  BY <1>1, BoundAssumption, KeysAreNumbers DEF IInv, Typed
<1>5. Typed'
  BY <1>1, <1>2, <1>3, <1>4 DEF IInv, Typed, Shaped
<1>6. OneItemEach' /\ NamedFilesExist'
  BY <1>1 DEF IInv, OneItemEach, NamedFilesExist
<1>7. \A i \in Items : picture[i] # drawn + 1
  BY <1>4 DEF IInv, Typed
<1>8. \A s \in Requests : req[s].old # drawn + 1 /\
                          (req[s].pc \in {"name", "undo"} => req[s].new # drawn + 1)
  BY <1>4 DEF IInv, OnHand, OldHeld, NewHeld
<1>9. Apart'
  BY <1>2, <1>3, <1>8 DEF IInv, Apart
<1>10. ASSUME NEW s \in Requests
       PROVE  (OldHeld(req[s]) /\ NewHeld(req[s]))'
  <2>1. OldHeld(req[s]) /\ NewHeld(req[s])
    BY DEF IInv
  <2>2. CASE s # r
    BY <1>1, <1>3, <1>4, <2>1, <2>2 DEF OnHand, OldHeld, NewHeld
  <2>3. CASE s = r
    <3>1. OldHeld(req[s])'
      BY <1>1, <1>2, <1>3, <1>4, <2>1, <2>3 DEF OnHand, OldHeld
    <3>2. NewHeld(req[s])'
      BY <1>1, <1>2, <1>3, <1>4, <1>7, <2>3 DEF NewHeld
    <3>3. QED
      BY <3>1, <3>2
  <2>4. QED
    BY <2>2, <2>3
<1>11. QED
  BY <1>5, <1>6, <1>9, <1>10 DEF IInv

\* The file that nothing names is taken away: the new one of a request that failed, or
\* the old one of a request that succeeded.
LEMMA DeleteKeeps ==
  ASSUME IInv, NEW r \in Requests, NEW k, Done(r), files' = files \ {k},
         UNCHANGED <<picture, unknown, drawn>>,
         \A i \in Items : picture[i] = k => k \in unknown \cup {None},
         \A s \in Requests : req[s].pc = "name" => req[s].new # k
  PROVE  IInv'
<1>1. /\ req' = [s \in Requests |-> req'[s]]
      /\ \A s \in Requests : req'[s] = IF s = r THEN Idle ELSE req[s]
  BY AfterGoto DEF IInv, Done
<1>2. Typed'
  BY <1>1, IdleShape DEF IInv, Typed, Shaped
<1>3. OneItemEach' /\ NamedFilesExist'
  BY DEF IInv, OneItemEach, NamedFilesExist
<1>4. \A s \in Requests : req[s].pc = "name" => req[s].new # None
  BY KeysAreNumbers, BoundAssumption DEF IInv, Typed, NewHeld
<1>5. Apart'
  BY <1>1, <1>4, IdleShape DEF IInv, Apart
<1>6. \A s \in Requests : (OldHeld(req[s]) /\ NewHeld(req[s]))'
  BY <1>1, IdleShape DEF IInv, OnHand, OldHeld, NewHeld
<1>7. QED
  BY <1>2, <1>3, <1>5, <1>6 DEF IInv

LEMMA UndoKeeps ==
  ASSUME IInv, NEW r \in Requests, Undo(r)
  PROVE  IInv'
<1>1. \A i \in Items : picture[i] = req[r].new => req[r].new \in unknown
  BY DEF Undo, IInv, NewHeld
<1>2. \A s \in Requests : req[s].pc = "name" => req[s].new # req[r].new
  BY DEF Undo, IInv, Apart
<1>3. QED
  BY <1>1, <1>2, DeleteKeeps DEF Undo

LEMMA DiscardKeeps ==
  ASSUME IInv, NEW r \in Requests, Discard(r)
  PROVE  IInv'
<1>1. \A i \in Items : picture[i] = req[r].old => req[r].old \in unknown \cup {None}
  BY DEF Discard, IInv, OnHand, OldHeld
<1>2. \A s \in Requests : req[s].pc = "name" => req[s].new # req[r].old
  BY DEF IInv, Apart
<1>3. QED
  BY <1>1, <1>2, DeleteKeeps DEF Discard

-----------------------------------------------------------------------------
(* The row is written                                                      *)

\* The row names k, the picture the request brings or none, and the old file is to go.
LEMMA WriteKeeps ==
  ASSUME IInv, NEW r \in Requests, req[r].pc \in {"name", "clear", "delete"},
         NEW i \in Items, i = req[r].item,
         NEW k, k = None \/ (req[r].pc = "name" /\ k = req[r].new),
         picture' = [picture EXCEPT ![i] = k], DoneThen(r, req[r].old),
         UNCHANGED <<files, unknown, drawn>>
  PROVE  IInv'
<1> DEFINE to == [Idle EXCEPT !.pc = "discard", !.old = req[r].old]
<1>1. Shaped(to) /\ to.pc = "discard" /\ to.old = req[r].old
  BY DEF Shaped, Idle
<1>2. Goto(r, to)
  BY DEF DoneThen
<1> HIDE DEF to
<1>3. /\ req' = [s \in Requests |-> req'[s]]
      /\ \A s \in Requests : req'[s] = IF s = r THEN to ELSE req[s]
  BY <1>2, AfterGoto DEF IInv
<1>4. /\ k = None \/ (k \in 1 .. drawn /\ k \in files /\ \A j \in Items : picture[j] # k)
      /\ \A s \in Requests : k # None => req[s].old # k
      /\ \A s \in Requests : k # None /\ s # r /\ req[s].pc \in {"name", "undo"} => req[s].new # k
  BY DEF IInv, NewHeld, Apart
<1>5. /\ picture' \in [Items -> 1 .. drawn \cup {None}]
      /\ \A j \in Items : picture'[j] = IF j = i THEN k ELSE picture[j]
  BY <1>4 DEF IInv, Typed
<1>6. Typed'
  BY <1>1, <1>3, <1>5 DEF IInv, Typed, Shaped
<1>7. OneItemEach' /\ NamedFilesExist'
  BY <1>4, <1>5 DEF IInv, OneItemEach, NamedFilesExist
<1>8. Apart'
  BY <1>1, <1>3 DEF IInv, Apart
<1>9. ASSUME NEW s \in Requests
      PROVE  OldHeld(req[s])'
  <2>1. OldHeld(req[s])
    BY DEF IInv
  <2>2. CASE s # r
    BY <1>3, <1>4, <1>5, <2>1, <2>2 DEF OnHand, OldHeld
  <2>3. CASE s = r
    <3>1. req'[s].old = req[r].old /\ req'[s].pc = "discard"
      BY <1>1, <1>3, <2>3
    <3>2. \A j \in Items : picture'[j] = req[r].old /\ req[r].old # None => FALSE
      BY <1>4, <1>5, <2>1, <2>3 DEF OnHand, OldHeld
    <3>3. QED
      BY <2>1, <2>3, <3>1, <3>2 DEF OnHand, OldHeld
  <2>4. QED
    BY <2>2, <2>3
<1>10. ASSUME NEW s \in Requests
       PROVE  NewHeld(req[s])'
  <2>1. NewHeld(req[s])
    BY DEF IInv
  <2>2. CASE s # r
    <3>1. req[s].pc \in {"name", "undo"} => req[s].new # None
      BY <2>1, BoundAssumption, KeysAreNumbers DEF NewHeld, IInv, Typed
    <3>2. QED
      BY <1>3, <1>4, <1>5, <2>1, <2>2, <3>1 DEF NewHeld
  <2>3. CASE s = r
    BY <1>1, <1>3, <2>3 DEF NewHeld
  <2>4. QED
    BY <2>2, <2>3
<1>11. QED
  BY <1>6, <1>7, <1>8, <1>9, <1>10 DEF IInv

\* The request throws, and will take its file back.
LEMMA ThrowKeeps ==
  ASSUME IInv, NEW r \in Requests, req[r].pc = "name",
         Goto(r, [req[r] EXCEPT !.pc = "undo"]), UNCHANGED pictures
  PROVE  IInv'
<1> DEFINE to == [req[r] EXCEPT !.pc = "undo"]
<1>1. Shaped(to) /\ to.pc = "undo" /\ to.item = req[r].item /\ to.old = req[r].old /\ to.new = req[r].new
  <2>1. Shaped(req[r])
    BY DEF IInv, Typed
  <2>2. QED
    BY <2>1 DEF Shaped
<1>2. Goto(r, to)
  OBVIOUS
<1> HIDE DEF to
<1>3. OldHeld(to) /\ NewHeld(to)
  BY <1>1 DEF IInv, OnHand, OldHeld, NewHeld
<1>4. \A s \in Requests : req[s].pc = "name" => to.old # req[s].new
  BY <1>1 DEF IInv, Apart
<1>5. QED
  BY <1>1, <1>2, <1>3, <1>4, RequestGoesOn

\* It throws though the row names its file.
LEMMA UnknownKeeps ==
  ASSUME IInv, NEW r \in Requests, req[r].pc = "name", NEW i \in Items, i = req[r].item,
         Goto(r, [req[r] EXCEPT !.pc = "undo"]),
         picture' = [picture EXCEPT ![i] = req[r].new],
         unknown' = unknown \cup {req[r].new},
         UNCHANGED <<files, drawn>>
  PROVE  IInv'
<1> DEFINE to == [req[r] EXCEPT !.pc = "undo"]
<1> DEFINE k == req[r].new
<1>1. Shaped(to) /\ to.pc = "undo" /\ to.item = i /\ to.old = req[r].old /\ to.new = k
  <2>1. Shaped(req[r])
    BY DEF IInv, Typed
  <2>2. QED
    BY <2>1 DEF Shaped
<1>2. Goto(r, to)
  OBVIOUS
<1> HIDE DEF to
<1>3. /\ req' = [s \in Requests |-> req'[s]]
      /\ \A s \in Requests : req'[s] = IF s = r THEN to ELSE req[s]
  BY <1>2, AfterGoto DEF IInv
<1>4. /\ k \in 1 .. drawn /\ k \in files /\ \A j \in Items : picture[j] # k
      /\ \A s \in Requests : req[s].old # k
      /\ \A s \in Requests : s # r /\ req[s].pc \in {"name", "undo"} => req[s].new # k
  BY DEF IInv, NewHeld, Apart
<1>5. /\ picture' \in [Items -> 1 .. drawn \cup {None}]
      /\ \A j \in Items : picture'[j] = IF j = i THEN k ELSE picture[j]
      /\ unknown' = unknown \cup {k}
  BY <1>4 DEF IInv, Typed
<1> HIDE DEF k
<1>6. Typed'
  BY <1>1, <1>3, <1>5 DEF IInv, Typed, Shaped
<1>7. OneItemEach' /\ NamedFilesExist'
  BY <1>4, <1>5 DEF IInv, OneItemEach, NamedFilesExist
<1>8. Apart'
  BY <1>1, <1>3, <1>4 DEF IInv, Apart
<1>9. \A s \in Requests : OldHeld(req[s])'
  BY <1>1, <1>3, <1>4, <1>5 DEF IInv, OnHand, OldHeld
<1>10. \A s \in Requests : NewHeld(req[s])'
  BY <1>1, <1>3, <1>4, <1>5 DEF IInv, NewHeld
<1>11. QED
  BY <1>6, <1>7, <1>8, <1>9, <1>10 DEF IInv

-----------------------------------------------------------------------------
(* Every step                                                              *)

LEMMA PicturesKept ==
  ASSUME IInv, NEW r \in Requests, Illustrate(r) \/ Discard(r) \/ Die(r)
  PROVE  IInv'
<1>1. req[r].pc \in {"name", "clear"} => req[r].item \in Items
  BY DEF IInv, OldHeld, OnHand
<1>2. ASSUME NEW i \in Items, BeginSet(r, i) \/ BeginClear(r, i)
      PROVE  IInv'
  BY <1>2, ReadingKeeps DEF BeginSet, BeginClear, pictures
<1>3. CASE Name(r)
  <2>1. CASE picture' = [picture EXCEPT ![req[r].item] = req[r].new] /\ DoneThen(r, Replaced(r))
    BY <1>1, <1>3, <2>1, WriteKeeps DEF Name, Replaced
  <2>2. CASE Goto(r, [req[r] EXCEPT !.pc = "undo"]) /\ UNCHANGED picture
    BY <1>3, <2>2, ThrowKeeps DEF Name, pictures
  <2>3. QED
    BY <1>3, <2>1, <2>2 DEF Name
<1>4. CASE NameFails(r)
  <2>1. CASE UNCHANGED <<picture, unknown>>
    BY <1>4, <2>1, ThrowKeeps DEF NameFails, pictures
  <2>2. CASE /\ picture' = [picture EXCEPT ![req[r].item] = req[r].new]
             /\ unknown' = unknown \cup {req[r].new}
    BY <1>1, <1>4, <2>2, UnknownKeeps DEF NameFails
  <2>3. QED
    BY <1>4, <2>1, <2>2 DEF NameFails
<1>5. CASE Clear(r)
  <2>1. CASE picture' = [picture EXCEPT ![req[r].item] = None] /\ DoneThen(r, Replaced(r))
    BY <1>1, <1>5, <2>1, WriteKeeps DEF Clear, Replaced
  <2>2. CASE Done(r) /\ UNCHANGED picture
    BY <1>5, <2>2, DoneKeeps DEF Clear, pictures
  <2>3. QED
    BY <1>5, <2>1, <2>2 DEF Clear
<1>6. CASE Die(r)
  BY <1>6, DoneKeeps DEF Die, pictures
<1>7. QED
  BY <1>2, <1>3, <1>4, <1>5, <1>6, PutKeeps, UndoKeeps, DiscardKeeps DEF Illustrate

LEMMA RemovalKept ==
  ASSUME IInv, NEW r \in Requests, Remove(r)
  PROVE  IInv'
<1>1. Method \in Items
  BY DEF Items
<1>2. CASE BeginRemove(r)
  BY <1>1, <1>2, ReadingKeeps DEF BeginRemove, pictures
<1>3. CASE CountUses(r)
  <2>1. CASE Done(r)
    BY <1>3, <2>1, DoneKeeps DEF CountUses, pictures
  <2>2. CASE Goto(r, [req[r] EXCEPT !.pc = "delete"])
    <3> DEFINE to == [req[r] EXCEPT !.pc = "delete"]
    <3>1. Shaped(to) /\ to.pc = "delete" /\ to.item = req[r].item /\ to.old = req[r].old
      <4>1. Shaped(req[r])
        BY DEF IInv, Typed
      <4>2. QED
        BY <4>1 DEF Shaped
    <3>2. Goto(r, to)
      BY <2>2
    <3> HIDE DEF to
    <3>3. OldHeld(to) /\ NewHeld(to)
      BY <1>3, <3>1 DEF CountUses, IInv, OldHeld, NewHeld, OnHand
    <3>4. \A s \in Requests : req[s].pc = "name" => to.old # req[s].new
      BY <3>1 DEF IInv, Apart
    <3>5. QED
      BY <1>3, <3>1, <3>2, <3>3, <3>4, RequestGoesOn DEF CountUses, pictures
  <2>3. QED
    BY <1>3, <2>1, <2>2 DEF CountUses
<1>4. CASE DeleteMethod(r)
  <2>1. CASE Done(r) /\ UNCHANGED picture
    BY <1>4, <2>1, DoneKeeps DEF DeleteMethod, pictures
  <2>2. CASE picture' = [picture EXCEPT ![Method] = None] /\ DoneThen(r, Replaced(r))
    <3>1. req[r].item = Method
      BY <1>4 DEF DeleteMethod, IInv, OldHeld
    <3>2. QED
      BY <1>1, <1>4, <2>2, <3>1, WriteKeeps DEF DeleteMethod, Replaced
  <2>3. QED
    BY <1>4, <2>1, <2>2 DEF DeleteMethod
<1>5. QED
  BY <1>2, <1>3, <1>4 DEF Remove

LEMMA OthersKeep ==
  ASSUME IInv, NEW r \in Requests, Update(r) \/ Pay(r) \/ Stock(r)
  PROVE  IInv'
<1>1. CASE BeginUpdate(r)
  <2>1. PICK sent : Goto(r, [Idle EXCEPT !.pc = "update", !.read = fields, !.sent = sent])
    BY <1>1 DEF BeginUpdate
  <2> DEFINE to == [Idle EXCEPT !.pc = "update", !.read = fields, !.sent = sent]
  <2>2. Shaped(to) /\ to.pc = "update" /\ to.old = None
    BY DEF Shaped, Idle
  <2>3. Goto(r, to)
    BY <2>1
  <2> HIDE DEF to
  <2>4. QED
    BY <1>1, <2>2, <2>3, EmptyHanded DEF BeginUpdate, pictures, OnHand
<1>2. CASE BeginPayment(r)
  <2>1. PICK p : Goto(r, [Idle EXCEPT !.pc = "start", !.item = p])
    BY <1>2 DEF BeginPayment
  <2> DEFINE to == [Idle EXCEPT !.pc = "start", !.item = p]
  <2>2. Shaped(to) /\ to.pc = "start" /\ to.old = None
    BY DEF Shaped, Idle
  <2>3. Goto(r, to)
    BY <2>1
  <2> HIDE DEF to
  <2>4. QED
    BY <1>2, <2>2, <2>3, EmptyHanded DEF BeginPayment, pictures, OnHand
<1>3. CASE BeginProduct(r)
  <2>1. PICK p \in Products :
          Goto(r, [Idle EXCEPT !.pc = IF row[p] = "live" THEN "write" ELSE "room", !.item = p,
                               !.seen = Active])
    BY <1>3 DEF BeginProduct
  <2> DEFINE to == [Idle EXCEPT !.pc = IF row[p] = "live" THEN "write" ELSE "room", !.item = p,
                                !.seen = Active]
  <2>2. Shaped(to) /\ to.pc \in {"write", "room"} /\ to.old = None
    BY DEF Shaped, Idle
  <2>3. Goto(r, to)
    BY <2>1
  <2> HIDE DEF to
  <2>4. QED
    BY <1>3, <2>2, <2>3, EmptyHanded DEF BeginProduct, pictures, OnHand
<1>4. CASE AssertProductRoom(r)
  <2>1. CASE Done(r)
    BY <1>4, <2>1, DoneKeeps DEF AssertProductRoom, pictures
  <2>2. CASE Goto(r, [req[r] EXCEPT !.pc = "write", !.seen = Active])
    <3> DEFINE to == [req[r] EXCEPT !.pc = "write", !.seen = Active]
    <3>1. Shaped(to) /\ to.pc = "write" /\ to.item = req[r].item /\ to.old = req[r].old
      <4>1. Shaped(req[r])
        BY DEF IInv, Typed
      <4>2. QED
        BY <4>1 DEF Shaped
    <3>2. Goto(r, to)
      BY <2>2
    <3> HIDE DEF to
    <3>3. OldHeld(to) /\ NewHeld(to)
      BY <1>4, <3>1 DEF AssertProductRoom, IInv, OldHeld, NewHeld, OnHand
    <3>4. \A s \in Requests : req[s].pc = "name" => to.old # req[s].new
      BY <3>1 DEF IInv, Apart
    <3>5. QED
      BY <1>4, <3>1, <3>2, <3>3, <3>4, RequestGoesOn DEF AssertProductRoom, pictures
  <2>3. QED
    BY <1>4, <2>1, <2>2 DEF AssertProductRoom
<1>5. CASE UpdateMethod(r) \/ StartPayment(r) \/ WriteProduct(r)
  BY <1>5, DoneKeeps DEF UpdateMethod, StartPayment, WriteProduct, pictures
<1>6. QED
  BY <1>1, <1>2, <1>3, <1>4, <1>5 DEF Update, Pay, Stock

LEMMA Initially == Init => IInv
BY IdleShape, BoundAssumption, KeysAreNumbers
DEF Init, IInv, Typed, OneItemEach, OldHeld, NewHeld, Apart, NamedFilesExist, OnHand

LEMMA Inductive == IInv /\ [Next]_vars => IInv'
<1> SUFFICES ASSUME IInv, [Next]_vars PROVE IInv'
  OBVIOUS
<1>1. ASSUME NEW r \in Requests, Serve(r)
      PROVE  IInv'
  BY <1>1, PicturesKept, RemovalKept, OthersKeep DEF Serve
<1>2. CASE CreateMethod \/ (\E p \in Payments : Decide(p)) \/ (\E p \in Products : Deactivate(p))
           \/ UNCHANGED vars
  BY <1>2, NothingMoves DEF CreateMethod, Decide, Deactivate, vars, pictures
<1>3. QED
  BY <1>1, <1>2 DEF Next

\* A picture that a row names is in the store, for any number of requests that set,
\* replace and remove pictures and delete rows at the same time, but for a COMMIT whose
\* answer was lost.
THEOREM PicturesExist == Spec => []NamedFilesExist
<1>1. IInv => NamedFilesExist
  BY DEF IInv
<1>2. QED
  BY <1>1, Initially, Inductive, PTL DEF Spec

LEMMA PicturesHeld == Spec => []IInv
BY Initially, Inductive, PTL DEF Spec

-----------------------------------------------------------------------------
(* Leftovers                                                               *)

\* The pictures a request will delete, or name in a row.
Owned ==
  {req[r].new : r \in {s \in Requests : req[s].pc \in {"name", "undo"}}} \cup
  {req[r].old : r \in {s \in Requests : req[s].pc = "discard"}}

\* Nobody's pictures: those of requests that only remember them are already lost.
Lost == {k \in files : k \notin Owned /\ \A i \in Items : picture[i] # k}

LInv ==
  /\ files \subseteq 1 .. drawn /\ excuses \in Nat
  /\ Cardinality(Lost) <= excuses

\* What a request owns, given the request.
OwnedBy(q, k) == \/ q.pc \in {"name", "undo"} /\ k = q.new
                 \/ q.pc = "discard" /\ k = q.old

LEMMA OwnedIsOwned == \A k : k \in Owned <=> \E r \in Requests : OwnedBy(req[r], k)
BY DEF Owned, OwnedBy

LEMMA FilesAreFinite ==
  ASSUME drawn \in Nat, files \subseteq 1 .. drawn
  PROVE  IsFiniteSet(Lost) /\ Cardinality(Lost) \in Nat
<1>1. IsFiniteSet(1 .. drawn)
  BY FS_Interval
<1>2. Lost \in SUBSET (1 .. drawn)
  BY DEF Lost
<1>3. QED
  BY <1>1, <1>2, FS_Subset, FS_CardinalityType

\* A step loses nothing, or one picture for one excuse.
LEMMA OneEach ==
  ASSUME IInv, LInv, IInv', files' \subseteq (1 .. drawn)', NEW x,
         \/ excuses' = excuses /\ Lost' \subseteq Lost
         \/ excuses' = excuses + 1 /\ Lost' \subseteq Lost \cup {x}
  PROVE  LInv'
<1>1. IsFiniteSet(Lost) /\ Cardinality(Lost) \in Nat
  BY FilesAreFinite DEF IInv, Typed, LInv
<1>2. /\ IsFiniteSet(Lost \cup {x})
      /\ Cardinality(Lost \cup {x}) <= Cardinality(Lost) + 1
      /\ Cardinality(Lost \cup {x}) \in Nat
  BY <1>1, FS_AddElement
<1>3. CASE excuses' = excuses /\ Lost' \subseteq Lost
  <2>1. Cardinality(Lost') <= Cardinality(Lost) /\ IsFiniteSet(Lost')
    BY <1>1, <1>3, FS_Subset
  <2>2. Cardinality(Lost') \in Nat
    BY <2>1, FS_CardinalityType
  <2>3. QED
    BY <1>1, <1>3, <2>1, <2>2 DEF LInv
<1>4. CASE excuses' = excuses + 1 /\ Lost' \subseteq Lost \cup {x}
  <2>1. Cardinality(Lost') <= Cardinality(Lost \cup {x}) /\ IsFiniteSet(Lost')
    BY <1>2, <1>4, FS_Subset
  <2>2. Cardinality(Lost') \in Nat
    BY <2>1, FS_CardinalityType
  <2>3. QED
    BY <1>1, <1>2, <1>4, <2>1, <2>2 DEF LInv
<1>5. QED
  BY <1>3, <1>4

\* A request goes on, and owns what it owned or what a row named.
LEMMA NothingLost ==
  ASSUME IInv, LInv, IInv', NEW r \in Requests, NEW to, Goto(r, to),
         UNCHANGED <<picture, files, drawn, excuses>>,
         \A k \in files : OwnedBy(req[r], k) => OwnedBy(to, k)
  PROVE  LInv'
<1>1. \A s \in Requests : req'[s] = IF s = r THEN to ELSE req[s]
  BY AfterGoto DEF IInv
<1>2. \A k \in files : (\E s \in Requests : OwnedBy(req[s], k)) => \E s \in Requests : OwnedBy(req'[s], k)
  BY <1>1
<1>3. Lost' \subseteq Lost
  BY <1>2, OwnedIsOwned DEF Lost, Owned, OwnedBy
<1>4. QED
  BY <1>3, OneEach DEF LInv

\* The row stops naming its picture: what it named goes to the request, or is excused.
LEMMA RowWritten ==
  ASSUME IInv, LInv, IInv', NEW r \in Requests, NEW to, Goto(r, to), NEW i \in Items, NEW n,
         picture' = [picture EXCEPT ![i] = n],
         UNCHANGED <<files, drawn>>,
         \A k \in files : OwnedBy(req[r], k) => OwnedBy(to, k) \/ k = n,
         \/ excuses' = excuses + 1
         \/ excuses' = excuses /\ (picture[i] \in files => OwnedBy(to, picture[i]))
  PROVE  LInv'
<1>1. \A s \in Requests : req'[s] = IF s = r THEN to ELSE req[s]
  BY AfterGoto DEF IInv
<1>2. \A j \in Items : picture'[j] = IF j = i THEN n ELSE picture[j]
  BY DEF IInv, Typed
<1>3. \A k \in files : k # n /\ (\E s \in Requests : OwnedBy(req[s], k)) =>
                       \E s \in Requests : OwnedBy(req'[s], k)
  BY <1>1
<1>4. OwnedBy(to, picture[i]) => \E s \in Requests : OwnedBy(req'[s], picture[i])
  BY <1>1
<1>5. \A k : k \in Owned' <=> \E s \in Requests : OwnedBy(req'[s], k)
  BY DEF Owned, OwnedBy
<1>6. \A k \in Lost' : k \in files /\ k \notin Owned' /\ \A j \in Items : picture'[j] # k
  BY DEF Lost
<1>7. \A k \in Lost' : k \in Lost \/ k = picture[i]
  <2> SUFFICES ASSUME NEW k \in Lost', k # picture[i] PROVE k \in Lost
    OBVIOUS
  <2>1. k \in files /\ k # n /\ \A j \in Items : picture[j] # k
    BY <1>2, <1>6
  <2>2. k \notin Owned
    BY <1>3, <1>5, <1>6, <2>1, OwnedIsOwned
  <2>3. QED
    BY <2>1, <2>2 DEF Lost
<1>8. CASE excuses' = excuses + 1
  BY <1>7, <1>8, OneEach DEF LInv
<1>9. CASE excuses' = excuses /\ (picture[i] \in files => OwnedBy(to, picture[i]))
  <2>1. picture[i] \notin Lost'
    BY <1>4, <1>5, <1>6, <1>9
  <2>2. QED
    BY <1>7, <1>9, <2>1, OneEach DEF LInv
<1>10. QED
  BY <1>8, <1>9

\* A request ends; the file it owned is deleted, or left behind with an excuse.
LEMMA RequestEnds ==
  ASSUME IInv, LInv, IInv', NEW r \in Requests, Done(r), NEW x, UNCHANGED <<picture, drawn>>,
         \A k : OwnedBy(req[r], k) => k = x,
         \/ files' = files \ {x} /\ excuses' = excuses
         \/ files' = files /\ excuses' = excuses + 1
  PROVE  LInv'
<1>1. \A s \in Requests : req'[s] = IF s = r THEN Idle ELSE req[s]
  BY AfterGoto DEF IInv, Done
<1>2. \A k : k # x /\ (\E s \in Requests : OwnedBy(req[s], k)) =>
             \E s \in Requests : OwnedBy(req'[s], k)
  BY <1>1
<1>3. \A k : k \in Owned' <=> \E s \in Requests : OwnedBy(req'[s], k)
  BY DEF Owned, OwnedBy
<1>4. \A k \in Lost' : k \in files' /\ k \notin Owned' /\ \A i \in Items : picture[i] # k
  BY DEF Lost
<1>5. \A k \in Lost' : k # x => k \in Lost
  BY <1>2, <1>3, <1>4, OwnedIsOwned DEF Lost
<1>6. CASE files' = files \ {x} /\ excuses' = excuses
  BY <1>4, <1>5, <1>6, OneEach DEF LInv
<1>7. CASE files' = files /\ excuses' = excuses + 1
  BY <1>5, <1>7, OneEach DEF LInv
<1>8. QED
  BY <1>6, <1>7

LEMMA PutLoses ==
  ASSUME IInv, LInv, IInv', NEW r \in Requests, Put(r)
  PROVE  LInv'
<1> DEFINE to == [req[r] EXCEPT !.pc = "name", !.new = drawn + 1]
<1>1. /\ req[r].pc = "put" /\ drawn' = drawn + 1 /\ files' = files \cup {drawn + 1}
      /\ Goto(r, to) /\ UNCHANGED <<picture, excuses>>
  BY DEF Put
<1>2. to.pc = "name" /\ to.new = drawn + 1
  BY DEF IInv, Typed, Shaped
<1> HIDE DEF to
<1>3. \A s \in Requests : req'[s] = IF s = r THEN to ELSE req[s]
  BY <1>1, AfterGoto DEF IInv
<1>4. \A k : k \in Owned' <=> \E s \in Requests : OwnedBy(req'[s], k)
  BY DEF Owned, OwnedBy
<1>5. \A k : \/ \E s \in Requests : OwnedBy(req[s], k)
             \/ k = drawn + 1
             => \E s \in Requests : OwnedBy(req'[s], k)
  <2>1. \A k : ~OwnedBy(req[r], k)
    BY <1>1 DEF OwnedBy
  <2>2. OwnedBy(req'[r], drawn + 1)
    BY <1>2, <1>3 DEF OwnedBy
  <2>3. QED
    BY <1>3, <2>1, <2>2
<1>6. \A k \in Lost' : k \in files \cup {drawn + 1} /\ k \notin Owned' /\ \A i \in Items : picture[i] # k
  BY <1>1 DEF Lost
<1>7. Lost' \subseteq Lost
  BY <1>4, <1>5, <1>6, OwnedIsOwned DEF Lost
<1>8. files' \subseteq 1 .. drawn'
  BY <1>1 DEF IInv, Typed, LInv
<1>9. QED
  BY <1>1, <1>7, <1>8, OneEach

\* A request that reads, decides or gives up owns nothing before or after.
LEMMA OwnsNothing ==
  ASSUME IInv, LInv, IInv', NEW r \in Requests, NEW to, Goto(r, to),
         req[r].pc \notin {"name", "undo", "discard"},
         UNCHANGED <<picture, files, drawn, excuses>>
  PROVE  LInv'
BY NothingLost DEF OwnedBy

LEMMA DiscardShape ==
  ASSUME NEW k
  PROVE  \A x : OwnedBy([Idle EXCEPT !.pc = "discard", !.old = k], x) <=> x = k
BY DEF OwnedBy, Idle

\* A request that replaces the picture of its item, or takes it away.
LEMMA ReplacedLoses ==
  ASSUME IInv, LInv, IInv', NEW r \in Requests, NEW i \in Items, i = req[r].item, NEW n,
         req[r].pc \in {"name", "clear", "delete"},
         req[r].pc = "name" => n = req[r].new,
         picture' = [picture EXCEPT ![i] = n],
         excuses' = IF Displaced(r) THEN excuses + 1 ELSE excuses,
         DoneThen(r, req[r].old), UNCHANGED <<files, drawn>>
  PROVE  LInv'
<1> DEFINE to == [Idle EXCEPT !.pc = "discard", !.old = req[r].old]
<1>1. Goto(r, to)
  BY DEF DoneThen
<1>2. \A x : OwnedBy(to, x) <=> x = req[r].old
  BY DiscardShape
<1> HIDE DEF to
<1>3. \A k \in files : OwnedBy(req[r], k) => k = n
  BY DEF OwnedBy
<1>4. None \notin files
  BY KeysAreNumbers, BoundAssumption DEF IInv, Typed, LInv
<1>5. \/ excuses' = excuses + 1
      \/ excuses' = excuses /\ (picture[i] \in files => OwnedBy(to, picture[i]))
  BY <1>2, <1>4 DEF Displaced
<1>6. QED
  BY <1>1, <1>3, <1>5, RowWritten

LEMMA ThrowOwns ==
  ASSUME IInv, NEW r \in Requests, req[r].pc = "name"
  PROVE  \A k : OwnedBy([req[r] EXCEPT !.pc = "undo"], k) <=> k = req[r].new
BY DEF OwnedBy, IInv, Typed, Shaped

LEMMA ThrowLoses ==
  ASSUME IInv, LInv, IInv', NEW r \in Requests, req[r].pc = "name",
         Goto(r, [req[r] EXCEPT !.pc = "undo"]), UNCHANGED <<picture, files, drawn, excuses>>
  PROVE  LInv'
<1>1. \A k \in files : OwnedBy(req[r], k) => OwnedBy([req[r] EXCEPT !.pc = "undo"], k)
  BY ThrowOwns DEF OwnedBy
<1>2. QED
  BY <1>1, NothingLost

\* NameFails after the COMMIT took effect: the request throws, and what the row named is
\* excused.
Throws(r) == Goto(r, [req[r] EXCEPT !.pc = "undo"])
Blamed(i) == excuses' = IF picture[i] # None THEN excuses + 1 ELSE excuses

LEMMA UnknownLoses ==
  ASSUME IInv, LInv, IInv', NEW r \in Requests, req[r].pc = "name",
         Throws(r), UNCHANGED <<files, drawn>>,
         NEW i \in Items, i = req[r].item, NEW n, n = req[r].new,
         picture' = [picture EXCEPT ![i] = n],
         Blamed(i)
  PROVE  LInv'
<1> DEFINE to == [req[r] EXCEPT !.pc = "undo"]
<1>1. \A k : OwnedBy(to, k) <=> k = n
  BY ThrowOwns
<1>2. Goto(r, to)
  BY DEF Throws
<1> HIDE DEF to
<1>3. \A k \in files : OwnedBy(req[r], k) => k = n
  BY <1>1 DEF OwnedBy
<1>4. None \notin files
  BY KeysAreNumbers, BoundAssumption DEF IInv, Typed, LInv
<1>5. \/ excuses' = excuses + 1
      \/ excuses' = excuses /\ (picture[i] \in files => OwnedBy(to, picture[i]))
  BY <1>4 DEF Blamed
<1>6. QED
  BY <1>2, <1>3, <1>5, RowWritten

LEMMA PicturesLose ==
  ASSUME IInv, LInv, IInv', NEW r \in Requests, Illustrate(r) \/ Discard(r) \/ Die(r)
  PROVE  LInv'
<1>1. req[r].pc \in {"name", "clear"} => req[r].item \in Items
  BY DEF IInv, OldHeld, OnHand
<1>2. ASSUME NEW i \in Items, BeginSet(r, i) \/ BeginClear(r, i)
      PROVE  LInv'
  BY <1>2, OwnsNothing DEF BeginSet, BeginClear
<1>3. CASE Name(r)
  <2>1. CASE Exists(req[r].item)
    BY <1>1, <1>3, <2>1, ReplacedLoses DEF Name, Replaced
  <2>2. CASE ~Exists(req[r].item)
    BY <1>3, <2>2, ThrowLoses DEF Name
  <2>3. QED
    BY <2>1, <2>2
<1>4. CASE NameFails(r)
  <2>1. CASE UNCHANGED <<picture, excuses>>
    BY <1>4, <2>1, ThrowLoses DEF NameFails
  <2>2. CASE /\ picture' = [picture EXCEPT ![req[r].item] = req[r].new]
             /\ excuses' = IF picture[req[r].item] # None THEN excuses + 1 ELSE excuses
    BY <1>1, <1>4, <2>2, UnknownLoses DEF NameFails, Throws, Blamed
  <2>3. QED
    BY <1>4, <2>1, <2>2 DEF NameFails
<1>5. CASE Clear(r)
  <2>1. CASE Exists(req[r].item)
    BY <1>1, <1>5, <2>1, ReplacedLoses DEF Clear, Replaced
  <2>2. CASE ~Exists(req[r].item)
    BY <1>5, <2>2, OwnsNothing DEF Clear, Done
  <2>3. QED
    BY <2>1, <2>2
<1>6. CASE Undo(r)
  <2>1. \A k : OwnedBy(req[r], k) => k = req[r].new
    BY <1>6 DEF Undo, OwnedBy
  <2>2. QED
    BY <1>6, <2>1, RequestEnds DEF Undo
<1>7. CASE Discard(r)
  <2>1. \A k : OwnedBy(req[r], k) => k = req[r].old
    BY <1>7 DEF Discard, OwnedBy
  <2>2. QED
    BY <1>7, <2>1, RequestEnds DEF Discard
<1>8. CASE Die(r)
  <2>1. PICK x : \A k : OwnedBy(req[r], k) => k = x
    BY <1>8 DEF Die, OwnedBy
  <2>2. QED
    BY <1>8, <2>1, RequestEnds DEF Die
<1>9. QED
  BY <1>2, <1>3, <1>4, <1>5, <1>6, <1>7, <1>8, PutLoses DEF Illustrate

LEMMA OthersLose ==
  ASSUME IInv, LInv, IInv', NEW r \in Requests, Update(r) \/ Remove(r) \/ Pay(r) \/ Stock(r)
  PROVE  LInv'
<1>1. CASE BeginUpdate(r) \/ BeginPayment(r) \/ BeginProduct(r) \/ BeginRemove(r)
  BY <1>1, OwnsNothing DEF BeginUpdate, BeginPayment, BeginProduct, BeginRemove
<1>2. CASE CountUses(r) \/ AssertProductRoom(r) \/ UpdateMethod(r) \/ StartPayment(r) \/ WriteProduct(r)
  BY <1>2, OwnsNothing DEF CountUses, AssertProductRoom, UpdateMethod, StartPayment, WriteProduct, Done
<1>3. CASE DeleteMethod(r)
  <2>1. req[r].item = Method /\ Method \in Items
    BY <1>3 DEF DeleteMethod, IInv, OldHeld, Items
  <2>2. CASE Exists(Method)
    BY <1>3, <2>1, <2>2, ReplacedLoses DEF DeleteMethod, Replaced
  <2>3. CASE ~Exists(Method)
    BY <1>3, <2>3, OwnsNothing DEF DeleteMethod, Done
  <2>4. QED
    BY <2>2, <2>3
<1>4. QED
  BY <1>1, <1>2, <1>3 DEF Update, Remove, Pay, Stock

LEMMA LostCounted == IInv /\ IInv' /\ LInv /\ [Next]_vars => LInv'
<1> SUFFICES ASSUME IInv, IInv', LInv, [Next]_vars PROVE LInv'
  OBVIOUS
<1>1. ASSUME NEW r \in Requests, Serve(r)
      PROVE  LInv'
  BY <1>1, PicturesLose, OthersLose DEF Serve
<1>2. CASE CreateMethod \/ (\E p \in Payments : Decide(p)) \/ (\E p \in Products : Deactivate(p))
           \/ UNCHANGED vars
  <2>1. UNCHANGED <<req, picture, files, drawn, excuses>>
    BY <1>2 DEF CreateMethod, Decide, Deactivate, vars
  <2>2. Lost' = Lost
    BY <2>1 DEF Lost, Owned
  <2>3. QED
    BY <2>1, <2>2 DEF LInv
<1>3. QED
  BY <1>1, <1>2 DEF Next

\* A file that no row names and no request has on hand is there for a fault, or for a
\* picture that another request changed between the read and the write: one each, for any
\* number of requests, pictures and faults.
THEOREM LeftoversAreExplained == Spec => []LeftoversExplained
<1>1. Init => LInv
  <2> SUFFICES ASSUME Init PROVE LInv
    OBVIOUS
  <2>1. Lost = {}
    BY DEF Init, Lost
  <2>2. QED
    BY <2>1, FS_EmptySet DEF Init, LInv
<1>2. IInv /\ LInv => LeftoversExplained
  <2> SUFFICES ASSUME IInv, LInv PROVE LeftoversExplained
    OBVIOUS
  <2>1. IsFiniteSet(Lost) /\ Cardinality(Lost) \in Nat
    BY FilesAreFinite DEF IInv, Typed, LInv
  <2>2. Leftovers \subseteq Lost
    BY DEF Leftovers, Lost, InHand, Owned
  <2>3. Cardinality(Leftovers) <= Cardinality(Lost) /\ IsFiniteSet(Leftovers)
    BY <2>1, <2>2, FS_Subset
  <2>4. Cardinality(Leftovers) \in Nat
    BY <2>3, FS_CardinalityType
  <2>5. QED
    BY <2>1, <2>3, <2>4 DEF LInv, LeftoversExplained
<1>3. QED
  BY <1>1, <1>2, LostCounted, PicturesHeld, PTL DEF Spec

-----------------------------------------------------------------------------
(* What is read before it is written                                       *)

reads == <<row, fields, meant, linked, overlapped>>

\* What a request knows of the row it is about to write.
KnownTo(q) ==
  /\ q.pc = "start" => q.item \in Payments
  /\ q.pc \in {"room", "write"} => q.item \in Products
  /\ q.pc = "write" => /\ q.seen \subseteq Products
                       /\ q.item \in q.seen \/ Cardinality(q.seen) < ProductLimit

\* A DELETE that has counted found that no payment was ever started.
CountHeld == "history" \notin overlapped /\ Deleting => \A p \in Payments : row[p] = "none"

HInv ==
  /\ row = [i \in Items |-> row[i]]
  /\ CountHeld /\ ReadsHeldUntilWritten
  /\ \A r \in Requests : KnownTo(req[r])

\* A request that reads, or changes only pictures.
LEMMA RowsStand ==
  ASSUME IInv, HInv, NEW r \in Requests, NEW to, Goto(r, to), UNCHANGED reads,
         KnownTo(to), to.pc = "delete" => linked = {}
  PROVE  HInv'
<1>1. \A s \in Requests : req'[s] = IF s = r THEN to ELSE req[s]
  BY AfterGoto DEF IInv
<1>2. \A s \in Requests : KnownTo(req'[s])
  BY <1>1 DEF HInv
<1>3. CountHeld'
  <2> SUFFICES ASSUME "history" \notin overlapped, Deleting' PROVE \A p \in Payments : row[p] = "none"
    BY DEF CountHeld, reads
  <2>1. Deleting \/ linked = {}
    BY <1>1 DEF Deleting
  <2>2. QED
    BY <2>1 DEF HInv, CountHeld, ReadsHeldUntilWritten
<1>4. ReadsHeldUntilWritten'
  BY DEF HInv, ReadsHeldUntilWritten, Exists, Active, reads
<1>5. QED
  BY <1>2, <1>3, <1>4 DEF HInv, KnownTo, reads

LEMMA KnowsNothing ==
  ASSUME NEW q, q.pc \notin {"start", "room", "write"}
  PROVE  KnownTo(q)
BY DEF KnownTo

LEMMA RowsStandAside ==
  ASSUME IInv, HInv, NEW r \in Requests, NEW to, Goto(r, to), UNCHANGED reads,
         to.pc \notin {"start", "room", "write", "delete"}
  PROVE  HInv'
BY KnowsNothing, RowsStand

\* What a request becomes.
LEMMA NextPlace ==
  ASSUME IInv, NEW r \in Requests, NEW pc
  PROVE  /\ [req[r] EXCEPT !.pc = pc].pc = pc
         /\ [req[r] EXCEPT !.pc = pc].item = req[r].item
BY DEF IInv, Typed, Shaped

LEMMA PicturesReadNothing ==
  ASSUME IInv, HInv, NEW r \in Requests, Illustrate(r) \/ Discard(r) \/ Die(r) \/ BeginUpdate(r)
  PROVE  HInv'
<1>1. ASSUME NEW i \in Items, BeginSet(r, i) \/ BeginClear(r, i)
      PROVE  HInv'
  <2>1. ASSUME NEW pc \in {"put", "clear"},
               Goto(r, [Idle EXCEPT !.pc = pc, !.item = i, !.old = picture[i]])
        PROVE  HInv'
    <3>1. [Idle EXCEPT !.pc = pc, !.item = i, !.old = picture[i]].pc = pc
      BY DEF Idle
    <3>2. UNCHANGED reads
      BY <1>1 DEF BeginSet, BeginClear, reads
    <3>3. QED
      BY <2>1, <3>1, <3>2, RowsStandAside
  <2>2. QED
    BY <1>1, <2>1 DEF BeginSet, BeginClear
<1>2. ASSUME NEW k, DoneThen(r, k), UNCHANGED reads
      PROVE  HInv'
  <2>1. [Idle EXCEPT !.pc = "discard", !.old = k].pc = "discard"
    BY DEF Idle
  <2>2. QED
    BY <1>2, <2>1, RowsStandAside DEF DoneThen
<1>3. ASSUME Done(r), UNCHANGED reads
      PROVE  HInv'
  BY <1>3, IdleShape, RowsStandAside DEF Done
<1>4. ASSUME Goto(r, [req[r] EXCEPT !.pc = "undo"]), UNCHANGED reads
      PROVE  HInv'
  <2>1. [req[r] EXCEPT !.pc = "undo"].pc = "undo"
    BY NextPlace
  <2>2. QED
    BY <1>4, <2>1, RowsStandAside
<1>5. CASE Put(r)
  <2>1. [req[r] EXCEPT !.pc = "name", !.new = drawn + 1].pc = "name"
    BY DEF IInv, Typed, Shaped
  <2>2. Goto(r, [req[r] EXCEPT !.pc = "name", !.new = drawn + 1]) /\ UNCHANGED reads
    BY <1>5 DEF Put, reads
  <2>3. QED
    BY <2>1, <2>2, RowsStandAside
<1>6. CASE Name(r)
  <2>1. \/ DoneThen(r, Replaced(r))
        \/ Goto(r, [req[r] EXCEPT !.pc = "undo"])
    BY <1>6 DEF Name
  <2>2. UNCHANGED reads
    BY <1>6 DEF Name, reads
  <2>3. QED
    BY <1>2, <1>4, <2>1, <2>2
<1>7. CASE NameFails(r)
  BY <1>4, <1>7 DEF NameFails, reads
<1>8. CASE Clear(r)
  <2>1. DoneThen(r, Replaced(r)) \/ Done(r)
    BY <1>8 DEF Clear
  <2>2. UNCHANGED reads
    BY <1>8 DEF Clear, reads
  <2>3. QED
    BY <1>2, <1>3, <2>1, <2>2
<1>9. CASE Undo(r) \/ Discard(r) \/ Die(r)
  BY <1>3, <1>9 DEF Undo, Discard, Die, reads
<1>10. CASE BeginUpdate(r)
  <2>1. PICK sent : Goto(r, [Idle EXCEPT !.pc = "update", !.read = fields, !.sent = sent])
    BY <1>10 DEF BeginUpdate
  <2>2. [Idle EXCEPT !.pc = "update", !.read = fields, !.sent = sent].pc = "update"
    BY DEF Idle
  <2>3. UNCHANGED reads
    BY <1>10 DEF BeginUpdate, reads
  <2>4. QED
    BY <2>1, <2>2, <2>3, RowsStandAside
<1>11. QED
  BY <1>1, <1>5, <1>6, <1>7, <1>8, <1>9, <1>10 DEF Illustrate

\* A step that writes rows, after which nobody else's knowledge has changed.
LEMMA KnownStill ==
  ASSUME IInv, HInv, NEW r \in Requests, Done(r)
  PROVE  /\ \A s \in Requests : req'[s] = IF s = r THEN Idle ELSE req[s]
         /\ \A s \in Requests : KnownTo(req[s])'
         /\ Deleting' => Deleting
<1>1. \A s \in Requests : req'[s] = IF s = r THEN Idle ELSE req[s]
  BY AfterGoto DEF IInv, Done
<1>2. \A s \in Requests : KnownTo(req'[s])
  BY <1>1, IdleShape, KnowsNothing DEF HInv
<1>3. \A s \in Requests : KnownTo(req[s])'
  BY <1>2 DEF KnownTo
<1>4. Deleting' => Deleting
  BY <1>1, IdleShape DEF Deleting
<1>5. QED
  BY <1>1, <1>3, <1>4

LEMMA MethodIsNoOther ==
  /\ Method \in Items /\ Method \notin Payments /\ Method \notin Products
  /\ \A p \in Payments : p \in Items /\ p # Method /\ p \notin Products
  /\ \A p \in Products : p \in Items /\ p # Method /\ p \notin Payments
BY ItemAssumption DEF Items

LEMMA FewerPlaces ==
  ASSUME NEW S \in SUBSET Products, NEW T \in SUBSET S
  PROVE  /\ Cardinality(T) <= Cardinality(S)
         /\ Cardinality(S) \in Nat /\ Cardinality(T) \in Nat /\ IsFiniteSet(S)
<1>1. IsFiniteSet(S)
  BY FiniteAssumption, FS_Subset
<1>2. IsFiniteSet(T) /\ Cardinality(T) <= Cardinality(S)
  BY <1>1, FS_Subset
<1>3. QED
  BY <1>1, <1>2, FS_CardinalityType

\* The parts of ReadsHeldUntilWritten.
FieldsHeld == Exists(Method) /\ "fields" \notin overlapped => fields = meant
HistoryHeld ==
  "history" \notin overlapped => \A p \in Payments : row[p] # "none" => p \in linked /\ Exists(Method)
PlacesHeld == "places" \notin overlapped => Cardinality(Active) <= ProductLimit

LEMMA ReadsHeldParts == ReadsHeldUntilWritten <=> FieldsHeld /\ HistoryHeld /\ PlacesHeld
BY DEF ReadsHeldUntilWritten, FieldsHeld, HistoryHeld, PlacesHeld

LEMMA Together ==
  ASSUME (row = [i \in Items |-> row[i]])', FieldsHeld', HistoryHeld', PlacesHeld', CountHeld',
         \A s \in Requests : KnownTo(req[s])'
  PROVE  HInv'
<1>1. ReadsHeldUntilWritten'
  BY DEF ReadsHeldUntilWritten, FieldsHeld, HistoryHeld, PlacesHeld
<1>2. QED
  BY <1>1 DEF HInv

LEMMA UpdateHolds ==
  ASSUME IInv, HInv, NEW r \in Requests, UpdateMethod(r)
  PROVE  HInv'
<1>1. /\ \A s \in Requests : KnownTo(req[s])'
      /\ Deleting' => Deleting
  BY KnownStill DEF UpdateMethod
<1>2. FieldsHeld /\ HistoryHeld /\ PlacesHeld
  BY ReadsHeldParts DEF HInv
<1>3. PICK status \in {"live", "off"} :
        IF Exists(Method) THEN row' = [row EXCEPT ![Method] = status] ELSE UNCHANGED row
  BY DEF UpdateMethod
<1>4. /\ row' = [i \in Items |-> row'[i]]
      /\ Exists(Method)' <=> Exists(Method)
      /\ \A i \in Items \ {Method} : row'[i] = row[i]
  BY <1>3, MethodIsNoOther DEF HInv, Exists
<1>5. FieldsHeld'
  <2> SUFFICES ASSUME Exists(Method), "fields" \notin overlapped' PROVE fields' = meant'
    BY <1>4 DEF FieldsHeld
  <2>1. req[r].read = fields /\ "fields" \notin overlapped
    BY DEF UpdateMethod
  <2>2. fields = meant
    BY <1>2, <2>1 DEF FieldsHeld
  <2>3. fields' = Merged(r)
        /\ meant' = [f \in Fields |-> IF req[r].sent[f] = None THEN meant[f] ELSE req[r].sent[f]]
    BY DEF UpdateMethod
  <2>4. QED
    BY <2>1, <2>2, <2>3 DEF Merged
<1>6. HistoryHeld'
  <2>1. linked' = linked /\ ("history" \notin overlapped' => "history" \notin overlapped)
    BY DEF UpdateMethod
  <2>2. QED
    BY <1>2, <1>4, <2>1, MethodIsNoOther DEF HistoryHeld
<1>7. PlacesHeld'
  <2>1. Active' = Active
    BY <1>4, MethodIsNoOther DEF Active
  <2>2. "places" \notin overlapped' => "places" \notin overlapped
    BY DEF UpdateMethod
  <2>3. QED
    BY <1>2, <2>1, <2>2 DEF PlacesHeld
<1>8. CountHeld'
  <2>1. "history" \notin overlapped' => "history" \notin overlapped
    BY DEF UpdateMethod
  <2>2. QED
    BY <1>1, <1>4, <2>1, MethodIsNoOther DEF HInv, CountHeld
<1>9. QED
  BY <1>1, <1>4, <1>5, <1>6, <1>7, <1>8, Together

LEMMA DeleteHolds ==
  ASSUME IInv, HInv, NEW r \in Requests, DeleteMethod(r), Exists(Method)
  PROVE  HInv'
<1>1. /\ row' = [row EXCEPT ![Method] = "gone"]
      /\ linked' = {} /\ UNCHANGED <<fields, meant, overlapped>>
      /\ req[r].pc = "delete" /\ DoneThen(r, req[r].old)
  BY DEF DeleteMethod, Replaced
<1> DEFINE to == [Idle EXCEPT !.pc = "discard", !.old = req[r].old]
<1>2. Goto(r, to) /\ to.pc = "discard"
  BY <1>1 DEF DoneThen, Idle
<1> HIDE DEF to
<1>3. \A s \in Requests : req'[s] = IF s = r THEN to ELSE req[s]
  BY <1>2, AfterGoto DEF IInv
<1>4. \A s \in Requests : KnownTo(req[s])'
  <2>1. \A s \in Requests : KnownTo(req'[s])
    BY <1>2, <1>3, KnowsNothing DEF HInv
  <2>2. QED
    BY <2>1 DEF KnownTo
<1>5. FieldsHeld /\ HistoryHeld /\ PlacesHeld
  BY ReadsHeldParts DEF HInv
<1>6. /\ row' = [i \in Items |-> row'[i]]
      /\ ~Exists(Method)'
      /\ \A i \in Items \ {Method} : row'[i] = row[i]
  BY <1>1, MethodIsNoOther DEF HInv, Exists
<1>7. "history" \notin overlapped => \A p \in Payments : row[p] = "none"
  BY <1>1 DEF HInv, CountHeld, Deleting
<1>8. FieldsHeld'
  BY <1>6 DEF FieldsHeld
<1>9. HistoryHeld' /\ CountHeld'
  BY <1>1, <1>6, <1>7, MethodIsNoOther DEF HistoryHeld, CountHeld
<1>10. PlacesHeld'
  <2>1. Active' = Active
    BY <1>6, MethodIsNoOther DEF Active
  <2>2. QED
    BY <1>1, <1>5, <2>1 DEF PlacesHeld
<1>11. QED
  BY <1>4, <1>6, <1>8, <1>9, <1>10, Together

LEMMA PaymentHolds ==
  ASSUME IInv, HInv, NEW r \in Requests, StartPayment(r)
  PROVE  HInv'
<1> DEFINE p == req[r].item
<1>1. req[r].pc = "start" /\ p \in Payments /\ Done(r) /\ UNCHANGED <<fields, meant>>
  BY DEF StartPayment, HInv, KnownTo
<1>2. /\ \A s \in Requests : req'[s] = IF s = r THEN Idle ELSE req[s]
      /\ \A s \in Requests : KnownTo(req[s])'
      /\ Deleting' => Deleting
  BY <1>1, KnownStill
<1>3. FieldsHeld /\ HistoryHeld /\ PlacesHeld
  BY ReadsHeldParts DEF HInv
<1>4. CASE Exists(Method) /\ row[p] = "none"
  <2>1. /\ row' = [row EXCEPT ![p] = "live"] /\ linked' = linked \cup {p}
        /\ overlapped' = IF Deleting THEN overlapped \cup {"history"} ELSE overlapped
    BY <1>4 DEF StartPayment
  <2> HIDE DEF p
  <2>2. /\ row' = [i \in Items |-> row'[i]]
        /\ row'[p] = "live"
        /\ \A i \in Items \ {p} : row'[i] = row[i]
        /\ Exists(Method)' <=> Exists(Method)
    BY <1>1, <2>1, MethodIsNoOther DEF HInv, Exists
  <2>3. FieldsHeld'
    BY <1>1, <1>3, <2>1, <2>2 DEF FieldsHeld
  <2>4. HistoryHeld'
    BY <1>3, <1>4, <2>1, <2>2, MethodIsNoOther DEF HistoryHeld
  <2>5. CountHeld'
    BY <1>2, <2>1 DEF CountHeld
  <2>6. PlacesHeld'
    <3>1. Active' = Active
      BY <1>1, <2>2, MethodIsNoOther DEF Active
    <3>2. QED
      BY <1>3, <2>1, <3>1 DEF PlacesHeld
  <2>7. QED
    BY <1>2, <2>2, <2>3, <2>4, <2>5, <2>6, Together
<1>5. CASE ~(Exists(Method) /\ row[p] = "none")
  <2>1. UNCHANGED reads
    BY <1>1, <1>5 DEF StartPayment, reads
  <2>2. QED
    BY <1>1, <2>1, IdleShape, RowsStandAside DEF Done
<1>6. QED
  BY <1>4, <1>5

LEMMA ProductHolds ==
  ASSUME IInv, HInv, NEW r \in Requests, WriteProduct(r)
  PROVE  HInv'
<1> DEFINE p == req[r].item
<1>1. /\ req[r].pc = "write" /\ Done(r) /\ UNCHANGED <<fields, meant, linked>>
      /\ row' = [row EXCEPT ![p] = "live"]
      /\ overlapped' = IF Active # req[r].seen THEN overlapped \cup {"places"} ELSE overlapped
  BY DEF WriteProduct
<1>2. p \in Products /\ (p \in req[r].seen \/ Cardinality(req[r].seen) < ProductLimit)
  BY <1>1 DEF HInv, KnownTo
<1> HIDE DEF p
<1>3. /\ \A s \in Requests : KnownTo(req[s])'
      /\ Deleting' => Deleting
  BY <1>1, KnownStill
<1>4. FieldsHeld /\ HistoryHeld /\ PlacesHeld
  BY ReadsHeldParts DEF HInv
<1>5. /\ row' = [i \in Items |-> row'[i]]
      /\ row'[p] = "live"
      /\ \A i \in Items \ {p} : row'[i] = row[i]
      /\ Exists(Method)' <=> Exists(Method)
  BY <1>1, <1>2, MethodIsNoOther DEF HInv, Exists
<1>6. FieldsHeld' /\ HistoryHeld' /\ CountHeld'
  BY <1>1, <1>2, <1>3, <1>4, <1>5, MethodIsNoOther
  DEF HInv, FieldsHeld, HistoryHeld, CountHeld
<1>7. PlacesHeld'
  <2> SUFFICES ASSUME "places" \notin overlapped' PROVE Cardinality(Active') <= ProductLimit
    BY DEF PlacesHeld
  <2>1. Active = req[r].seen /\ Cardinality(Active) <= ProductLimit
    BY <1>1, <1>4 DEF PlacesHeld
  <2>2. Active' = Active \cup {p}
    BY <1>2, <1>5, MethodIsNoOther DEF Active
  <2>3. IsFiniteSet(Active) /\ Cardinality(Active) \in Nat
    BY FewerPlaces DEF Active
  <2>4. Cardinality(Active') = IF p \in Active THEN Cardinality(Active) ELSE Cardinality(Active) + 1
    BY <2>2, <2>3, FS_AddElement
  <2>5. QED
    BY <1>2, <2>1, <2>3, <2>4, BoundAssumption
<1>8. QED
  BY <1>3, <1>5, <1>6, <1>7, Together

\* A row that nobody reads to write it leaves the live ones, or enters as the first method.
LEMMA RowsMove ==
  ASSUME IInv, HInv, \/ CreateMethod
                     \/ \E p \in Payments : Decide(p)
                     \/ \E p \in Products : Deactivate(p)
  PROVE  HInv'
<1>1. req' = req /\ UNCHANGED <<linked, overlapped>>
  BY DEF CreateMethod, Decide, Deactivate
<1>2. /\ \A s \in Requests : KnownTo(req[s])'
      /\ Deleting' <=> Deleting
  BY <1>1 DEF HInv, KnownTo, Deleting
<1>3. FieldsHeld /\ HistoryHeld /\ PlacesHeld
  BY ReadsHeldParts DEF HInv
<1>4. CASE CreateMethod
  <2>1. row[Method] = "none" /\ row' = [row EXCEPT ![Method] = "live"] /\ fields' = meant'
    BY <1>4 DEF CreateMethod
  <2>2. /\ row' = [i \in Items |-> row'[i]] /\ row'[Method] = "live"
        /\ \A i \in Items \ {Method} : row'[i] = row[i]
    BY <2>1, MethodIsNoOther DEF HInv
  <2>3. FieldsHeld' /\ HistoryHeld' /\ CountHeld'
    BY <1>1, <1>2, <1>3, <2>1, <2>2, MethodIsNoOther
    DEF HInv, FieldsHeld, HistoryHeld, CountHeld, Exists
  <2>4. Active' = Active
    BY <2>2, MethodIsNoOther DEF Active
  <2>5. PlacesHeld'
    BY <1>1, <1>3, <2>4 DEF PlacesHeld
  <2>6. QED
    BY <1>2, <2>2, <2>3, <2>5, Together
<1>5. ASSUME NEW p \in Payments \cup Products, row[p] = "live", row' = [row EXCEPT ![p] = "off"],
             UNCHANGED <<fields, meant>>
      PROVE  HInv'
  <2>1. /\ row' = [i \in Items |-> row'[i]] /\ row'[p] = "off"
        /\ \A i \in Items \ {p} : row'[i] = row[i]
        /\ Exists(Method)' <=> Exists(Method)
    BY <1>5, MethodIsNoOther DEF HInv, Exists
  <2>2. FieldsHeld' /\ HistoryHeld' /\ CountHeld'
    BY <1>1, <1>2, <1>3, <1>5, <2>1, MethodIsNoOther
    DEF HInv, FieldsHeld, HistoryHeld, CountHeld
  <2>3. PlacesHeld'
    <3>1. Active' \subseteq Active /\ Active \subseteq Products
      BY <2>1, MethodIsNoOther DEF Active
    <3>2. /\ Cardinality(Active') <= Cardinality(Active)
          /\ Cardinality(Active) \in Nat /\ Cardinality(Active') \in Nat
      BY <3>1, FewerPlaces
    <3>3. QED
      BY <1>1, <1>3, <3>2, BoundAssumption DEF PlacesHeld
  <2>4. QED
    BY <1>2, <2>1, <2>2, <2>3, Together
<1>6. QED
  BY <1>4, <1>5 DEF Decide, Deactivate

LEMMA CountingHolds ==
  ASSUME IInv, HInv, NEW r \in Requests,
         BeginRemove(r) \/ CountUses(r) \/ (DeleteMethod(r) /\ ~Exists(Method)) \/ BeginPayment(r)
  PROVE  HInv'
<1>1. ASSUME Done(r), UNCHANGED reads
      PROVE  HInv'
  BY <1>1, IdleShape, RowsStandAside DEF Done
<1>2. CASE BeginRemove(r)
  <2>1. [Idle EXCEPT !.pc = "count", !.item = Method, !.old = picture[Method]].pc = "count"
    BY DEF Idle
  <2>2. /\ Goto(r, [Idle EXCEPT !.pc = "count", !.item = Method, !.old = picture[Method]])
        /\ UNCHANGED reads
    BY <1>2 DEF BeginRemove, reads
  <2>3. QED
    BY <2>1, <2>2, RowsStandAside
<1>3. CASE CountUses(r)
  <2>1. UNCHANGED reads
    BY <1>3 DEF CountUses, reads
  <2>2. CASE Unused
    <3>1. [req[r] EXCEPT !.pc = "delete"].pc = "delete"
      BY NextPlace
    <3>2. Goto(r, [req[r] EXCEPT !.pc = "delete"]) /\ linked = {}
      BY <1>3, <2>2 DEF CountUses, Unused
    <3>3. KnownTo([req[r] EXCEPT !.pc = "delete"])
      BY <3>1, KnowsNothing
    <3>4. QED
      BY <2>1, <3>2, <3>3, RowsStand
  <2>3. CASE ~Unused
    BY <1>1, <1>3, <2>1, <2>3 DEF CountUses
  <2>4. QED
    BY <2>2, <2>3
<1>4. CASE DeleteMethod(r) /\ ~Exists(Method)
  BY <1>1, <1>4 DEF DeleteMethod, reads
<1>5. CASE BeginPayment(r)
  <2>1. PICK p \in Payments : Goto(r, [Idle EXCEPT !.pc = "start", !.item = p])
    BY <1>5 DEF BeginPayment
  <2> DEFINE to == [Idle EXCEPT !.pc = "start", !.item = p]
  <2>2. Goto(r, to) /\ to.pc = "start" /\ to.item = p
    BY <2>1 DEF Idle
  <2> HIDE DEF to
  <2>3. KnownTo(to)
    BY <2>2 DEF KnownTo
  <2>4. UNCHANGED reads
    BY <1>5 DEF BeginPayment, reads
  <2>5. QED
    BY <2>2, <2>3, <2>4, RowsStand
<1>6. QED
  BY <1>2, <1>3, <1>4, <1>5

LEMMA PlacesCounted ==
  ASSUME IInv, HInv, NEW r \in Requests, BeginProduct(r) \/ AssertProductRoom(r)
  PROVE  HInv'
<1>1. CASE BeginProduct(r)
  <2>1. PICK p \in Products :
          Goto(r, [Idle EXCEPT !.pc = IF row[p] = "live" THEN "write" ELSE "room", !.item = p,
                               !.seen = Active])
    BY <1>1 DEF BeginProduct
  <2> DEFINE to == [Idle EXCEPT !.pc = IF row[p] = "live" THEN "write" ELSE "room", !.item = p,
                                !.seen = Active]
  <2>2. /\ Goto(r, to) /\ to.item = p /\ to.seen = Active
        /\ to.pc = IF row[p] = "live" THEN "write" ELSE "room"
    BY <2>1 DEF Idle
  <2> HIDE DEF to
  <2>3. KnownTo(to)
    BY <2>2 DEF KnownTo, Active
  <2>4. UNCHANGED reads
    BY <1>1 DEF BeginProduct, reads
  <2>5. QED
    BY <2>2, <2>3, <2>4, RowsStand
<1>2. CASE AssertProductRoom(r)
  <2>1. UNCHANGED reads
    BY <1>2 DEF AssertProductRoom, reads
  <2>2. CASE Room
    <3> DEFINE to == [req[r] EXCEPT !.pc = "write", !.seen = Active]
    <3>1. Goto(r, to)
      BY <1>2, <2>2 DEF AssertProductRoom
    <3>2. to.pc = "write" /\ to.item = req[r].item /\ to.seen = Active
      BY DEF IInv, Typed, Shaped
    <3> HIDE DEF to
    <3>3. req[r].item \in Products
      BY <1>2 DEF AssertProductRoom, HInv, KnownTo
    <3>4. KnownTo(to)
      BY <2>2, <3>2, <3>3 DEF KnownTo, Active, Room
    <3>5. QED
      BY <2>1, <3>1, <3>2, <3>4, RowsStand
  <2>3. CASE ~Room
    BY <1>2, <2>1, <2>3, IdleShape, RowsStandAside DEF AssertProductRoom, Done
  <2>4. QED
    BY <2>2, <2>3
<1>3. QED
  BY <1>1, <1>2

LEMMA ReadsHold == IInv /\ HInv /\ [Next]_vars => HInv'
<1> SUFFICES ASSUME IInv, HInv, [Next]_vars PROVE HInv'
  OBVIOUS
<1>1. ASSUME NEW r \in Requests, Serve(r)
      PROVE  HInv'
  BY <1>1, PicturesReadNothing, UpdateHolds, DeleteHolds, PaymentHolds, ProductHolds,
     CountingHolds, PlacesCounted
  DEF Serve, Update, Remove, Pay, Stock
<1>2. CASE UNCHANGED vars
  BY <1>2 DEF vars, HInv, CountHeld, Deleting, ReadsHeldUntilWritten, Exists, Active, KnownTo
<1>3. QED
  BY <1>1, <1>2, RowsMove DEF Next

\* Whatever an update, a removal, a payment or a new product has read still holds when it
\* writes, or another request wrote in between: fields sent last are there, a method in use
\* stays with the payments that point at it, the plan's limit is kept - for any number of
\* requests, fields, payments and products.
THEOREM ReadsAreHeld == Spec => []ReadsHeldUntilWritten
<1>1. Init => HInv
  <2> SUFFICES ASSUME Init PROVE HInv
    OBVIOUS
  <2>1. Active = {}
    BY MethodIsNoOther DEF Init, Active
  <2>2. PlacesHeld
    BY <2>1, FS_EmptySet, BoundAssumption DEF PlacesHeld
  <2>3. FieldsHeld /\ HistoryHeld
    BY MethodIsNoOther DEF Init, FieldsHeld, HistoryHeld, Exists
  <2>4. CountHeld /\ \A r \in Requests : KnownTo(req[r])
    BY MethodIsNoOther, IdleShape, KnowsNothing DEF Init, CountHeld
  <2>5. QED
    BY <2>2, <2>3, <2>4, ReadsHeldParts DEF HInv, Init
<1>2. HInv => ReadsHeldUntilWritten
  BY DEF HInv
<1>3. QED
  BY <1>1, <1>2, ReadsHold, PicturesHeld, PTL DEF Spec

-----------------------------------------------------------------------------
(* Types                                                                   *)

\* What a request works on, from the step it is at.
Handles(q) ==
  /\ q.pc \in {"put", "name", "clear"} => q.item \in Items
  /\ q.pc = "name" => q.new \in Keys
  /\ q.pc = "start" => q.item \in Payments
  /\ q.pc \in {"room", "write"} => q.item \in Products

RowsTyped ==
  /\ scope \in Scopes
  /\ row \in [Items -> {"none", "live", "off", "gone"}]
  /\ picture \in [Items -> Keys \cup {None}]
  /\ fields \in [Fields -> Values \cup {None}] /\ meant \in [Fields -> Values \cup {None}]
  /\ linked \subseteq Payments
  /\ files \subseteq 1 .. drawn /\ drawn \in 0 .. MaxKeys
  /\ faults \in 0 .. MaxFaults /\ excuses \in Nat
  /\ unknown \subseteq Keys
  /\ overlapped \subseteq {"fields", "history", "places"}

RequestsTyped == req \in [Requests -> Local] /\ \A r \in Requests : Handles(req[r])

LEMMA IdleHandles ==
  /\ Idle \in Local /\ Handles(Idle)
  /\ \A keep \in Keys \cup {None} :
       /\ [Idle EXCEPT !.pc = "discard", !.old = keep] \in Local
       /\ Handles([Idle EXCEPT !.pc = "discard", !.old = keep])
<1>1. NoFields \in [Fields -> Values \cup {None}]
  BY DEF NoFields
<1>2. Idle \in Local /\ Handles(Idle)
  BY <1>1 DEF Idle, Local, Handles
<1>3. ASSUME NEW keep \in Keys \cup {None}
      PROVE  /\ [Idle EXCEPT !.pc = "discard", !.old = keep] \in Local
             /\ Handles([Idle EXCEPT !.pc = "discard", !.old = keep])
  <2>1. [Idle EXCEPT !.pc = "discard", !.old = keep] \in Local
    BY <1>2 DEF Local
  <2>2. [Idle EXCEPT !.pc = "discard", !.old = keep].pc = "discard"
    BY <1>2 DEF Local
  <2>3. QED
    BY <2>1, <2>2 DEF Handles
<1>4. QED
  BY <1>2, <1>3

\* What the steps that read put on a request.
LEMMA CarriesItem ==
  ASSUME NEW pc \in {"put", "clear", "count"}, NEW i \in Items, NEW keep \in Keys \cup {None}
  PROVE  /\ [Idle EXCEPT !.pc = pc, !.item = i, !.old = keep] \in Local
         /\ Handles([Idle EXCEPT !.pc = pc, !.item = i, !.old = keep])
BY IdleHandles DEF Local, Handles

LEMMA CarriesFields ==
  ASSUME NEW read \in [Fields -> Values \cup {None}], NEW sent \in [Fields -> Values \cup {None}]
  PROVE  /\ [Idle EXCEPT !.pc = "update", !.read = read, !.sent = sent] \in Local
         /\ Handles([Idle EXCEPT !.pc = "update", !.read = read, !.sent = sent])
BY IdleHandles DEF Local, Handles

LEMMA CarriesPayment ==
  ASSUME NEW p \in Payments
  PROVE  /\ [Idle EXCEPT !.pc = "start", !.item = p] \in Local
         /\ Handles([Idle EXCEPT !.pc = "start", !.item = p])
BY IdleHandles DEF Local, Handles, Items

LEMMA CarriesProduct ==
  ASSUME NEW p \in Products, NEW pc \in {"write", "room"}, NEW seen \in SUBSET Products
  PROVE  /\ [Idle EXCEPT !.pc = pc, !.item = p, !.seen = seen] \in Local
         /\ Handles([Idle EXCEPT !.pc = pc, !.item = p, !.seen = seen])
BY IdleHandles DEF Local, Handles, Items

LEMMA KeepsItem ==
  ASSUME NEW q \in Local, NEW seen \in SUBSET Products
  PROVE  /\ [q EXCEPT !.pc = "delete"] \in Local /\ Handles([q EXCEPT !.pc = "delete"])
         /\ q.item \in Products => /\ [q EXCEPT !.pc = "write", !.seen = seen] \in Local
                                   /\ Handles([q EXCEPT !.pc = "write", !.seen = seen])
BY DEF Local, Handles

\* A request goes on, the others stay.
LEMMA RequestsGoOn ==
  ASSUME RequestsTyped, NEW r \in Requests, NEW to \in Local, Handles(to), Goto(r, to)
  PROVE  RequestsTyped'
BY DEF RequestsTyped, Goto

LEMMA RequestsEnd ==
  ASSUME RequestsTyped, NEW r \in Requests,
         Done(r) \/ \E keep \in Keys \cup {None} : DoneThen(r, keep)
  PROVE  RequestsTyped'
BY IdleHandles, RequestsGoOn DEF Done, DoneThen

RowsSame ==
  UNCHANGED <<scope, row, picture, fields, linked, files, drawn, faults, excuses, unknown,
              meant, overlapped>>

LEMMA RowsSameTyped ==
  ASSUME RowsTyped, RowsSame  PROVE RowsTyped'
BY DEF RowsTyped, RowsSame

\* The steps that only read.
LEMMA ReadersTyped ==
  ASSUME RowsTyped, RequestsTyped, NEW r \in Requests, UNCHANGED scope,
         \/ \E i \in Items : BeginSet(r, i) \/ BeginClear(r, i)
         \/ BeginUpdate(r) \/ BeginRemove(r) \/ CountUses(r)
         \/ BeginPayment(r) \/ BeginProduct(r) \/ AssertProductRoom(r)
  PROVE  RowsTyped' /\ RequestsTyped'
<1>1. RowsTyped'
  BY RowsSameTyped DEF RowsSame, BeginSet, BeginClear, BeginUpdate, BeginRemove, CountUses,
     BeginPayment, BeginProduct, AssertProductRoom
<1>2. /\ Idle \in Local /\ Idle.pc = "idle"
      /\ req[r] \in Local /\ Handles(req[r])
      /\ \A i \in Items : picture[i] \in Keys \cup {None}
      /\ fields \in [Fields -> Values \cup {None}]
      /\ Active \in SUBSET Products
      /\ {Method} \cup Payments \cup Products \subseteq Items
  BY IdleHandles DEF Idle, RowsTyped, RequestsTyped, Active, Items
<1>3. ASSUME NEW i \in Items, NEW pc \in {"put", "clear"},
             Goto(r, [Idle EXCEPT !.pc = pc, !.item = i, !.old = picture[i]])
      PROVE  RequestsTyped'
  <2> DEFINE to == [Idle EXCEPT !.pc = pc, !.item = i, !.old = picture[i]]
  <2>1. to \in Local /\ Handles(to)
    BY <1>2, CarriesItem
  <2>2. Goto(r, to)
    BY <1>3
  <2> HIDE DEF to
  <2>3. QED
    BY <1>1, RequestsGoOn, <2>1, <2>2
<1>4. ASSUME NEW i \in Items, BeginSet(r, i) \/ BeginClear(r, i)
      PROVE  RequestsTyped'
  BY <1>3, <1>4 DEF BeginSet, BeginClear
<1>5. CASE BeginUpdate(r)
  <2>1. PICK sent \in [Fields -> Values \cup {None}] :
          Goto(r, [Idle EXCEPT !.pc = "update", !.read = fields, !.sent = sent])
    BY <1>5 DEF BeginUpdate
  <2> DEFINE to == [Idle EXCEPT !.pc = "update", !.read = fields, !.sent = sent]
  <2>2. to \in Local /\ Handles(to)
    BY <1>2, CarriesFields
  <2>3. Goto(r, to)
    BY <2>1
  <2> HIDE DEF to
  <2>4. QED
    BY <1>1, RequestsGoOn, <2>2, <2>3
<1>6. CASE BeginRemove(r)
  <2> DEFINE to == [Idle EXCEPT !.pc = "count", !.item = Method, !.old = picture[Method]]
  <2>1. to \in Local /\ Handles(to)
    BY <1>2, CarriesItem
  <2>2. Goto(r, to)
    BY <1>6 DEF BeginRemove
  <2> HIDE DEF to
  <2>3. QED
    BY <1>1, RequestsGoOn, <2>1, <2>2
<1>7. CASE CountUses(r)
  <2> DEFINE to == [req[r] EXCEPT !.pc = "delete"]
  <2>1. to \in Local /\ Handles(to)
    BY <1>2, KeepsItem
  <2>2. Goto(r, to) \/ Done(r)
    BY <1>7 DEF CountUses
  <2> HIDE DEF to
  <2>3. QED
    BY <1>1, RequestsGoOn, <2>1, <2>2, RequestsEnd
<1>8. CASE BeginPayment(r)
  <2>1. PICK p \in Payments : Goto(r, [Idle EXCEPT !.pc = "start", !.item = p])
    BY <1>8 DEF BeginPayment
  <2> DEFINE to == [Idle EXCEPT !.pc = "start", !.item = p]
  <2>2. to \in Local /\ Handles(to)
    BY <1>2, CarriesPayment
  <2>3. Goto(r, to)
    BY <2>1
  <2> HIDE DEF to
  <2>4. QED
    BY <1>1, RequestsGoOn, <2>2, <2>3
<1>9. CASE BeginProduct(r)
  <2>1. PICK p \in Products, pc \in {"write", "room"} :
          Goto(r, [Idle EXCEPT !.pc = pc, !.item = p, !.seen = Active])
    <3>1. PICK p \in Products :
            Goto(r, [Idle EXCEPT !.pc = IF row[p] = "live" THEN "write" ELSE "room", !.item = p,
                                 !.seen = Active])
      BY <1>9 DEF BeginProduct
    <3>2. CASE row[p] = "live"
      BY <3>1, <3>2
    <3>3. CASE row[p] # "live"
      BY <3>1, <3>3
    <3>4. QED
      BY <3>2, <3>3
  <2> DEFINE to == [Idle EXCEPT !.pc = pc, !.item = p, !.seen = Active]
  <2>2. to \in Local /\ Handles(to)
    BY <1>2, CarriesProduct
  <2>3. Goto(r, to)
    BY <2>1
  <2> HIDE DEF to
  <2>4. QED
    BY <1>1, RequestsGoOn, <2>2, <2>3
<1>10. CASE AssertProductRoom(r)
  <2> DEFINE to == [req[r] EXCEPT !.pc = "write", !.seen = Active]
  <2>1. to \in Local /\ Handles(to)
    BY <1>2, <1>10, KeepsItem DEF AssertProductRoom, Handles
  <2>2. Goto(r, to) \/ Done(r)
    BY <1>10 DEF AssertProductRoom
  <2> HIDE DEF to
  <2>3. QED
    BY <1>1, RequestsGoOn, <2>1, <2>2, RequestsEnd
<1>11. QED
  BY <1>1, <1>4, <1>5, <1>6, <1>7, <1>8, <1>9, <1>10

\* The steps that write rows or pictures.
LEMMA PictureWritersTyped ==
  ASSUME RowsTyped, RequestsTyped, NEW r \in Requests, UNCHANGED scope,
         \/ Put(r) \/ Name(r) \/ NameFails(r) \/ Undo(r) \/ Clear(r) \/ Discard(r) \/ Die(r)
  PROVE  RowsTyped' /\ RequestsTyped'
<1>1. /\ req[r] \in Local /\ Handles(req[r]) /\ BoundAssumption
      /\ req[r].old \in Keys \cup {None}
      /\ req[r].pc \in {"put", "name", "clear"} => req[r].item \in Items
      /\ req[r].pc = "name" => req[r].new \in Keys
  BY BoundAssumption DEF RequestsTyped, Local, Handles
<1>2. [req[r] EXCEPT !.pc = "undo"] \in Local /\ Handles([req[r] EXCEPT !.pc = "undo"])
  BY <1>1 DEF Local, Handles
<1>3. CASE Put(r)
  <2> DEFINE to == [req[r] EXCEPT !.pc = "name", !.new = drawn + 1]
  <2>1. /\ drawn' = drawn + 1 /\ drawn + 1 \in Keys /\ files' = files \cup {drawn + 1}
        /\ drawn \in 0 .. MaxKeys /\ files \subseteq 1 .. drawn
    BY <1>1, <1>3 DEF Put, RowsTyped, Keys, BoundAssumption
  <2>2. to \in Local /\ Handles(to)
    BY <1>1, <1>3, <2>1 DEF Put, Local, Handles
  <2>3. Goto(r, to)
    BY <1>3 DEF Put
  <2> HIDE DEF to
  <2>4. RequestsTyped'
    BY <2>2, <2>3, RequestsGoOn
  <2>5. files' \subseteq 1 .. drawn' /\ drawn' \in 0 .. MaxKeys
    BY <1>1, <2>1 DEF Keys, BoundAssumption
  <2>6. QED
    BY <1>3, <2>4, <2>5 DEF Put, RowsTyped
<1>4. CASE Name(r)
  <2>1. req[r].item \in Items /\ req[r].new \in Keys /\ excuses \in Nat
    BY <1>1, <1>4 DEF Name, RowsTyped
  <2>2. excuses' \in Nat /\ picture' \in [Items -> Keys \cup {None}]
    BY <1>4, <2>1 DEF Name, RowsTyped
  <2>3. RequestsTyped'
    BY <1>1, <1>2, <1>4, RequestsGoOn, RequestsEnd DEF Name, Replaced
  <2>4. QED
    BY <1>4, <2>2, <2>3 DEF Name, RowsTyped
<1>5. CASE NameFails(r)
  <2>1. /\ req[r].item \in Items /\ req[r].new \in Keys /\ excuses \in Nat
        /\ faults \in 0 .. MaxFaults /\ faults < MaxFaults
    BY <1>1, <1>5 DEF NameFails, RowsTyped
  <2>2. excuses' \in Nat /\ picture' \in [Items -> Keys \cup {None}] /\ unknown' \subseteq Keys
    BY <1>5, <2>1 DEF NameFails, RowsTyped
  <2>3. faults' \in 0 .. MaxFaults
    BY <1>1, <1>5, <2>1 DEF NameFails, BoundAssumption
  <2>4. RequestsTyped'
    BY <1>2, <1>5, RequestsGoOn DEF NameFails
  <2>5. QED
    BY <1>5, <2>2, <2>3, <2>4 DEF NameFails, RowsTyped
<1>6. CASE Undo(r) \/ Discard(r)
  <2>1. RequestsTyped'
    BY <1>6, RequestsEnd DEF Undo, Discard
  <2>2. files' \subseteq files
    BY <1>6 DEF Undo, Discard
  <2>3. QED
    BY <1>6, <2>1, <2>2 DEF Undo, Discard, RowsTyped
<1>7. CASE Clear(r)
  <2>1. req[r].item \in Items /\ excuses \in Nat
    BY <1>1, <1>7 DEF Clear, RowsTyped
  <2>2. excuses' \in Nat /\ picture' \in [Items -> Keys \cup {None}]
    BY <1>7, <2>1 DEF Clear, RowsTyped
  <2>3. RequestsTyped'
    BY <1>1, <1>7, RequestsEnd DEF Clear, Replaced
  <2>4. QED
    BY <1>7, <2>2, <2>3 DEF Clear, RowsTyped
<1>8. CASE Die(r)
  <2>1. faults' \in 0 .. MaxFaults /\ excuses' \in Nat
    BY <1>1, <1>8 DEF Die, RowsTyped, BoundAssumption
  <2>2. RequestsTyped'
    BY <1>8, RequestsEnd DEF Die
  <2>3. QED
    BY <1>8, <2>1, <2>2 DEF Die, RowsTyped
<1>9. QED
  BY <1>3, <1>4, <1>5, <1>6, <1>7, <1>8

LEMMA RowWritersTyped ==
  ASSUME RowsTyped, RequestsTyped, NEW r \in Requests, UNCHANGED scope,
         UpdateMethod(r) \/ DeleteMethod(r) \/ StartPayment(r) \/ WriteProduct(r)
  PROVE  RowsTyped' /\ RequestsTyped'
<1>1. /\ req[r] \in Local /\ Handles(req[r]) /\ Method \in Items
      /\ req[r].old \in Keys \cup {None}
      /\ req[r].pc = "start" => req[r].item \in Payments
      /\ req[r].pc = "write" => req[r].item \in Products
      /\ Payments \subseteq Items /\ Products \subseteq Items
  BY DEF RequestsTyped, Local, Handles, Items
<1>2. CASE UpdateMethod(r)
  <2>1. /\ req[r].sent \in [Fields -> Values \cup {None}] /\ req[r].read \in [Fields -> Values \cup {None}]
        /\ fields \in [Fields -> Values \cup {None}] /\ meant \in [Fields -> Values \cup {None}]
    BY <1>1 DEF Local, RowsTyped
  <2>2. fields' \in [Fields -> Values \cup {None}] /\ meant' \in [Fields -> Values \cup {None}]
    BY <1>2, <2>1 DEF UpdateMethod, Merged
  <2>3. row' \in [Items -> {"none", "live", "off", "gone"}]
    BY <1>1, <1>2 DEF UpdateMethod, RowsTyped
  <2>4. overlapped' \subseteq {"fields", "history", "places"}
    BY <1>2 DEF UpdateMethod, RowsTyped
  <2>5. RequestsTyped'
    BY <1>2, RequestsEnd DEF UpdateMethod
  <2>6. QED
    BY <1>2, <2>2, <2>3, <2>4, <2>5 DEF UpdateMethod, RowsTyped
<1>3. CASE DeleteMethod(r)
  <2>1. row' \in [Items -> {"none", "live", "off", "gone"}] /\ picture' \in [Items -> Keys \cup {None}]
    BY <1>1, <1>3 DEF DeleteMethod, RowsTyped
  <2>2. linked' \subseteq Payments /\ excuses' \in Nat
    BY <1>3 DEF DeleteMethod, RowsTyped
  <2>3. RequestsTyped'
    BY <1>1, <1>3, RequestsEnd DEF DeleteMethod, Replaced
  <2>4. QED
    BY <1>3, <2>1, <2>2, <2>3 DEF DeleteMethod, RowsTyped
<1>4. CASE StartPayment(r)
  <2>1. req[r].item \in Payments
    BY <1>1, <1>4 DEF StartPayment
  <2>2. row' \in [Items -> {"none", "live", "off", "gone"}] /\ linked' \subseteq Payments
    BY <1>1, <1>4, <2>1 DEF StartPayment, RowsTyped
  <2>3. overlapped' \subseteq {"fields", "history", "places"}
    BY <1>4 DEF StartPayment, RowsTyped
  <2>4. RequestsTyped'
    BY <1>4, RequestsEnd DEF StartPayment
  <2>5. QED
    BY <1>4, <2>2, <2>3, <2>4 DEF StartPayment, RowsTyped
<1>5. CASE WriteProduct(r)
  <2>1. row' \in [Items -> {"none", "live", "off", "gone"}]
    BY <1>1, <1>5 DEF WriteProduct, RowsTyped
  <2>2. overlapped' \subseteq {"fields", "history", "places"}
    BY <1>5 DEF WriteProduct, RowsTyped
  <2>3. RequestsTyped'
    BY <1>5, RequestsEnd DEF WriteProduct
  <2>4. QED
    BY <1>5, <2>1, <2>2, <2>3 DEF WriteProduct, RowsTyped
<1>6. QED
  BY <1>2, <1>3, <1>4, <1>5

\* Rows, pictures and requests keep their types, for any products, payments, fields and
\* requests: what is put, named, started or written is of the kind that its handler is for.
THEOREM CatalogueTypeCorrect == Spec => []TypeOK
<1>1. Init => RowsTyped /\ RequestsTyped
  <2> SUFFICES ASSUME Init PROVE RowsTyped /\ RequestsTyped
    OBVIOUS
  <2>1. NoFields \in [Fields -> Values \cup {None}] /\ 0 \in 0 .. MaxKeys /\ 0 \in 0 .. MaxFaults
    BY BoundAssumption DEF NoFields
  <2>2. RowsTyped
    BY <2>1 DEF Init, RowsTyped
  <2>3. QED
    BY <2>2, IdleHandles DEF Init, RequestsTyped
<1>2. RowsTyped /\ RequestsTyped /\ [Next]_vars => (RowsTyped /\ RequestsTyped)'
  <2> SUFFICES ASSUME RowsTyped, RequestsTyped, [Next]_vars
               PROVE  RowsTyped' /\ RequestsTyped'
    OBVIOUS
  <2>1. ASSUME NEW r \in Requests, Serve(r), UNCHANGED scope
        PROVE  RowsTyped' /\ RequestsTyped'
    BY <2>1, ReadersTyped, PictureWritersTyped, RowWritersTyped
       DEF Serve, Illustrate, Update, Remove, Pay, Stock
  <2>2. CASE CreateMethod /\ UNCHANGED scope
    <3>1. Method \in Items
      BY DEF Items
    <3>2. QED
      BY <2>2, <3>1 DEF CreateMethod, RowsTyped, RequestsTyped
  <2>3. ASSUME NEW p \in Payments \cup Products, Decide(p) \/ Deactivate(p), UNCHANGED scope
        PROVE  RowsTyped' /\ RequestsTyped'
    <3>1. p \in Items
      BY DEF Items
    <3>2. QED
      BY <2>3, <3>1 DEF Decide, Deactivate, RowsTyped, RequestsTyped
  <2>4. CASE UNCHANGED vars
    <3>1. RowsSame /\ req' = req
      BY <2>4 DEF vars, RowsSame
    <3>2. QED
      BY <3>1, RowsSameTyped DEF RequestsTyped
  <2>5. QED
    BY <2>1, <2>2, <2>3, <2>4 DEF Next
<1>3. RowsTyped /\ RequestsTyped => TypeOK
  BY DEF RowsTyped, RequestsTyped, TypeOK
<1>4. QED
  BY <1>1, <1>2, <1>3, PTL DEF Spec

-----------------------------------------------------------------------------
(***************************************************************************)
(* The team                                                                *)
(***************************************************************************)

Accepting == {"acceptLimit", "acceptSeats", "acceptWrite"}

\* What a call carries at each of its steps.
Carries(q) ==
  /\ q.pc \notin {"idle", "handler"} => q.user \in Users
  /\ q.pc \in {"handler", "lock", "write", "count", "insert"} \cup Accepting => q.role \in Managers
  /\ q.pc \in {"count", "insert"} \cup Accepting => q.as \in Assignable

Fits(q) == q \in Call /\ Carries(q)
CallsTyped == call \in [Calls -> Call] /\ \A r \in Calls : Carries(call[r])

TeamsTyped == TeamsTypeOK /\ CallsTyped

\* A row that is locked is in one call's hands, and is there.
RowsLocked ==
  /\ \A r \in Calls : call[r].pc = "write" => call[r].user \in Team
  /\ \A r, s \in Calls :
       /\ call[r].user = call[s].user
       /\ \/ call[r].pc = "write" /\ call[s].pc = "write"
          \/ call[r].pc \in Accepting /\ call[s].pc \in Accepting
       => r = s

\* Nothing happens before the owner is there, and nobody touches the owner's row.
OwnerStays ==
  /\ members[Owner] = Absent =>
       /\ \A u \in Users : members[u] = Absent
       /\ \A r \in Calls : call[r].pc = "idle"
  /\ members[Owner] # Absent => members[Owner].role = "OWNER"
  /\ members[Owner] = Absent => \A u \in Users : pending[u] = NoInvitation
  /\ pending[Owner] = NoInvitation
  /\ \A r \in Calls : call[r].user = Owner => call[r].pc \in {"lock", "count"}

\* The place that was counted is still free, or was overtaken.
CountsHold ==
  \A r \in Calls : ~call[r].raced =>
    /\ call[r].pc \in {"acceptLimit", "acceptSeats"} => call[r].user \in Invited
    /\ call[r].pc = "insert" /\ call[r].lim # Unlimited =>
         Cardinality(Team) + Cardinality(Invited \ {call[r].user}) + 1 <= call[r].lim
    /\ call[r].pc = "acceptWrite" /\ call[r].lim # Unlimited =>
         Cardinality(Team \ {call[r].user}) + Cardinality(Invited \ {call[r].user}) + 1 <= call[r].lim

PoolHolds == Cardinality(Held) <= PoolMax

TeamsInv == TeamsTyped /\ RowsLocked /\ OwnerStays /\ CountsHold /\ PoolHolds

-----------------------------------------------------------------------------
\* One call moves.
LEMMA OneCallMoves ==
  ASSUME TeamsTyped, NEW r \in Calls, NEW q, Fits(q), call' = [call EXCEPT ![r] = q]
  PROVE  CallsTyped'
BY DEF TeamsTyped, CallsTyped, Fits

LEMMA NewCall ==
  ASSUME NEW u \in Users
  PROVE  /\ Fits(NoCall)
         /\ \A role \in Managers : Fits([NoCall EXCEPT !.pc = "handler", !.actor = u, !.role = role])
         /\ Fits([NoCall EXCEPT !.pc = "answer", !.user = u])
         /\ Fits([NoCall EXCEPT !.pc = "revoke", !.user = u])
BY DEF Fits, NoCall, Call, Carries, Accepting, Managers, Assignable, Holding

\* A request goes on from its call.
LEMMA HandlerGoesOn ==
  ASSUME NEW p, Fits(p), p.pc = "handler", NEW u \in Users, NEW as \in Assignable,
         NEW lim \in Nat \cup {Unlimited}
  PROVE  /\ Fits([p EXCEPT !.pc = "lock", !.actor = Null, !.user = u])
         /\ Fits([p EXCEPT !.pc = "count", !.actor = Null, !.user = u, !.as = as, !.lim = lim])
BY DEF Fits, Call, Carries, Accepting, Holding

LEMMA AnswerGoesOn ==
  ASSUME NEW p, Fits(p), p.pc = "answer", NEW as \in Assignable, NEW role \in Managers
  PROVE  Fits([p EXCEPT !.pc = "acceptLimit", !.as = as, !.role = role])
BY DEF Fits, Call, Carries, Accepting, Holding

LEMMA LimitRead ==
  ASSUME NEW p, Fits(p), p.pc = "acceptLimit", NEW lim \in Nat \cup {Unlimited}
  PROVE  /\ Fits([p EXCEPT !.pc = "acceptSeats", !.lim = lim])
         /\ Fits([p EXCEPT !.pc = "acceptWrite", !.lim = lim])
BY DEF Fits, Call, Carries, Accepting, Holding

LEMMA StepGoesOn ==
  ASSUME NEW p, Fits(p)
  PROVE  /\ p.pc = "lock" => Fits([p EXCEPT !.pc = "write"])
         /\ p.pc = "count" => Fits([p EXCEPT !.pc = "insert"])
         /\ p.pc = "acceptSeats" => Fits([p EXCEPT !.pc = "acceptWrite"])
         /\ \A raced \in BOOLEAN : Fits([p EXCEPT !.raced = raced])
BY DEF Fits, Call, Carries, Accepting, Holding

\* Every call stays as it is, ends, or is overtaken.
LEMMA CallsEnd ==
  ASSUME TeamsTyped, call' = [s \in Calls |-> call'[s]],
         \A s \in Calls : \/ call'[s] = NoCall \/ call'[s] = call[s]
                          \/ \E raced \in BOOLEAN : call'[s] = [call[s] EXCEPT !.raced = raced]
  PROVE  CallsTyped'
<1>1. ASSUME NEW s \in Calls  PROVE Fits(call'[s])
  <2>1. Fits(call[s]) /\ Fits(NoCall)
    BY OwnerAssumption, NewCall DEF TeamsTyped, TeamsTypeOK, CallsTyped, Fits
  <2>2. \A raced \in BOOLEAN : Fits([call[s] EXCEPT !.raced = raced])
    BY <2>1, StepGoesOn
  <2>3. QED
    BY <2>1, <2>2
<1>2. QED
  BY <1>1 DEF CallsTyped, Fits

LEMMA TeamsTypedNext ==
  ASSUME TeamsTyped, RowsLocked, TeamsNext
  PROVE  TeamsTyped'
<1> USE DEF TeamsTyped, TeamsTypeOK, CallsTyped
<1>n. Fits(NoCall) /\ \A s \in Calls : Fits(call[s])
  BY OwnerAssumption, NewCall DEF CallsTyped, Fits
<1>e. \A r \in Calls : End(r) => CallsTyped'
  BY <1>n, OneCallMoves DEF End
<1>l. Limit \in Nat \cup {Unlimited}
  BY LimitAssumption DEF Limit
<1>1. ASSUME NEW r \in Calls, Create(r)  PROVE TeamsTyped'
  BY <1>1, OwnerAssumption DEF Create, Member, Absent, CallsTyped
<1>2. ASSUME NEW r \in Calls, Guard(r)  PROVE TeamsTyped'
  <2>1. PICK u \in Users : members[u].role \in Managers /\
          call' = [call EXCEPT ![r] = [NoCall EXCEPT !.pc = "handler", !.actor = u, !.role = members[u].role]]
    BY <1>2 DEF Guard
  <2>2. CallsTyped'
    BY <2>1, NewCall, OneCallMoves
  <2>3. QED
    BY <1>2, <2>2 DEF Guard
<1>3. ASSUME NEW r \in Calls, BeginAnswer(r)  PROVE TeamsTyped'
  <2>1. PICK u \in Users : call' = [call EXCEPT ![r] = [NoCall EXCEPT !.pc = "answer", !.user = u]]
    BY <1>3 DEF BeginAnswer, Invited
  <2>2. CallsTyped'
    BY <2>1, NewCall, OneCallMoves
  <2>3. QED
    BY <1>3, <2>2 DEF BeginAnswer
<1>4. ASSUME NEW r \in Calls, BeginManage(r)  PROVE TeamsTyped'
  <2>1. PICK u \in Users :
          call' = [call EXCEPT ![r] = [call[r] EXCEPT !.pc = "lock", !.actor = Null, !.user = u]]
    BY <1>4 DEF BeginManage
  <2>2. CallsTyped'
    <3>1. Fits([call[r] EXCEPT !.pc = "lock", !.actor = Null, !.user = u])
      BY <1>4, <1>n, <1>l, HandlerGoesOn DEF BeginManage, Assignable
    <3>2. QED
      BY <2>1, <3>1, OneCallMoves
  <2>3. QED
    BY <1>4, <2>2 DEF BeginManage
<1>5. ASSUME NEW r \in Calls, TargetFor(r)  PROVE TeamsTyped'
  <2>1. Fits([call[r] EXCEPT !.pc = "write"])
    BY <1>5, <1>n, StepGoesOn DEF TargetFor
  <2>2. MoveOn(r, "write") => CallsTyped'
    BY <2>1, OneCallMoves DEF MoveOn
  <2>3. QED
    BY <1>5, <1>e, <2>2 DEF TargetFor
<1>6. ASSUME NEW r \in Calls, NEW line \in Member \cup {Absent}, Write(r, line)  PROVE TeamsTyped'
  BY <1>6, <1>e DEF Write
<1>7. ASSUME NEW r \in Calls, ChangeMemberRole(r) \/ SetPermissionOverrides(r) \/ SetMemberStatus(r)
                              \/ RemoveMember(r)
      PROVE  TeamsTyped'
  <2>1. call[r].pc = "write" /\ Target(r) \in Member
    BY <1>7 DEF ChangeMemberRole, SetPermissionOverrides, SetMemberStatus, RemoveMember, Write,
                RowsLocked, Team, Target
  <2>2. \A role \in Assignable : [Target(r) EXCEPT !.role = role] \in Member
    BY <2>1 DEF Member
  <2>3. \A status \in {"ACTIVE", "SUSPENDED"} : [Target(r) EXCEPT !.status = status] \in Member
    BY <2>1 DEF Member
  <2>4. \E line \in Member \cup {Absent} : Write(r, line)
    BY <1>7, <2>1, <2>2, <2>3 DEF ChangeMemberRole, SetPermissionOverrides, SetMemberStatus, RemoveMember
  <2>5. QED
    BY <1>6, <2>4
<1>8. ASSUME NEW r \in Calls, Invite(r)  PROVE TeamsTyped'
  <2>1. PICK u \in Users, as \in Assignable :
          call' = [call EXCEPT ![r] = [@ EXCEPT !.pc = "count", !.actor = Null, !.user = u,
                                                !.as = as, !.lim = Limit]]
    BY <1>8 DEF Invite
  <2>2. Fits([call[r] EXCEPT !.pc = "count", !.actor = Null, !.user = u, !.as = as, !.lim = Limit])
    BY <1>8, <1>n, <1>l, HandlerGoesOn DEF Invite
  <2>3. CallsTyped'
    BY <2>1, <2>2, OneCallMoves
  <2>4. QED
    BY <1>8, <2>3 DEF Invite
<1>9. ASSUME NEW r \in Calls, CountSeats(r)  PROVE TeamsTyped'
  <2>1. Fits([call[r] EXCEPT !.pc = "insert"])
    BY <1>9, <1>n, StepGoesOn DEF CountSeats
  <2>2. MoveOn(r, "insert") => CallsTyped'
    BY <2>1, OneCallMoves DEF MoveOn
  <2>3. QED
    BY <1>9, <1>e, <2>2 DEF CountSeats
<1>10. ASSUME NEW r \in Calls, InsertInvitation(r)  PROVE TeamsTyped'
  <2>1. CallsTyped'
    <3>1. \A s \in Calls : call'[s] = NoCall \/ \E raced \in BOOLEAN : call'[s] = [call[s] EXCEPT !.raced = raced]
      BY <1>10, <1>n DEF InsertInvitation, SettleAndOvertake, Fits, Call
    <3>2. call' = [s \in Calls |-> call'[s]]
      BY <1>10 DEF InsertInvitation, SettleAndOvertake
    <3>3. QED
      BY <3>1, <3>2, CallsEnd
  <2>2. pending' \in [Users -> Invitation \cup {NoInvitation}]
    <3>1. call[r].as \in Assignable /\ call[r].role \in Managers
      BY <1>10 DEF InsertInvitation, CallsTyped, Carries
    <3>2. QED
      BY <1>10, <3>1 DEF InsertInvitation, Invitation
  <2>3. QED
    BY <1>10, <2>1, <2>2 DEF InsertInvitation
<1>11. ASSUME NEW r \in Calls, BeginRevoke(r)  PROVE TeamsTyped'
  <2>1. PICK u \in Users : call' = [call EXCEPT ![r] = [NoCall EXCEPT !.pc = "revoke", !.user = u]]
    BY <1>11 DEF BeginRevoke, Invited
  <2>2. CallsTyped'
    BY <2>1, NewCall, OneCallMoves
  <2>3. QED
    BY <1>11, <2>2 DEF BeginRevoke
<1>12. ASSUME NEW r \in Calls, RevokeInvitation(r)  PROVE TeamsTyped'
  <2>1. CallsTyped'
    BY <1>12, CallsEnd DEF RevokeInvitation, Settle
  <2>2. QED
    BY <1>12, <2>1 DEF RevokeInvitation
<1>13. ASSUME NEW r \in Calls, DeclineInvitation(r)  PROVE TeamsTyped'
  <2>1. CallsTyped'
    BY <1>13, CallsEnd DEF DeclineInvitation, Settle
  <2>2. QED
    BY <1>13, <2>1 DEF DeclineInvitation
<1>14. ASSUME NEW r \in Calls, AcceptInvitation(r)  PROVE TeamsTyped'
  <2>1. pending[call[r].user] \in Invitation
    BY <1>14 DEF AcceptInvitation, Pending, Invited
  <2>2. pending[call[r].user].role \in Assignable /\ pending[call[r].user].by \in Managers
    BY <2>1 DEF Invitation
  <2>3. QED
    <3>1. call' = [call EXCEPT ![r] = [call[r] EXCEPT !.pc = "acceptLimit",
                     !.as = pending[call[r].user].role, !.role = pending[call[r].user].by]]
      BY <1>14 DEF AcceptInvitation
    <3>2. CallsTyped'
      BY <1>14, <1>n, <2>2, <3>1, AnswerGoesOn, OneCallMoves DEF AcceptInvitation, Pending
    <3>3. QED
      BY <1>14, <3>2 DEF AcceptInvitation
<1>15. ASSUME NEW r \in Calls, AcceptReadLimit(r)  PROVE TeamsTyped'
  <2>1. PICK pc \in {"acceptSeats", "acceptWrite"} :
          call' = [call EXCEPT ![r] = [call[r] EXCEPT !.pc = pc, !.lim = Limit]]
    BY <1>15 DEF AcceptReadLimit
  <2>2. CallsTyped'
    BY <1>15, <1>n, <1>l, <2>1, LimitRead, OneCallMoves DEF AcceptReadLimit
  <2>3. QED
    BY <1>15, <2>2 DEF AcceptReadLimit
<1>16. ASSUME NEW r \in Calls, AcceptCountSeats(r)  PROVE TeamsTyped'
  <2>1. Fits([call[r] EXCEPT !.pc = "acceptWrite"])
    BY <1>16, <1>n, StepGoesOn DEF AcceptCountSeats
  <2>2. MoveOn(r, "acceptWrite") => CallsTyped'
    BY <2>1, OneCallMoves DEF MoveOn
  <2>3. QED
    BY <1>16, <1>e, <2>2 DEF AcceptCountSeats
<1>17. ASSUME NEW r \in Calls, AcceptWrite(r)  PROVE TeamsTyped'
  <2>1. CallsTyped'
    <3>1. \A s \in Calls : call'[s] = NoCall \/ \E raced \in BOOLEAN : call'[s] = [call[s] EXCEPT !.raced = raced]
      BY <1>17, <1>n DEF AcceptWrite, SettleAndOvertake, Fits, Call
    <3>2. call' = [s \in Calls |-> call'[s]]
      BY <1>17 DEF AcceptWrite, SettleAndOvertake
    <3>3. QED
      BY <3>1, <3>2, CallsEnd
  <2>2. members' \in [Users -> Member \cup {Absent}]
    <3>1. call[r].as \in Assignable
      BY <1>17 DEF AcceptWrite, CallsTyped, Carries, Accepting
    <3>2. QED
      BY <1>17, <3>1 DEF AcceptWrite, Member
  <2>3. QED
    BY <1>17, <2>1, <2>2 DEF AcceptWrite
<1>18. ASSUME NEW r \in Calls, RollBack(r)  PROVE TeamsTyped'
  BY <1>18, <1>e DEF RollBack
<1>19. ASSUME Expire  PROVE TeamsTyped'
  <2>1. \A s \in Calls : \/ call'[s] = NoCall \/ call'[s] = call[s]
                            \/ \E raced \in BOOLEAN : call'[s] = [call[s] EXCEPT !.raced = raced]
    BY <1>19, <1>n DEF Expire, Fits, Call
  <2>2. call' = [s \in Calls |-> call'[s]]
    BY <1>19 DEF Expire
  <2>3. CallsTyped'
    BY <2>1, <2>2, CallsEnd
  <2>4. QED
    BY <1>19, <2>3 DEF Expire
<1>20. ASSUME SetOverride \/ RemoveOverride  PROVE TeamsTyped'
  BY <1>20 DEF SetOverride, RemoveOverride, CallsTyped
<1>21. ASSUME ProcessEnds  PROVE TeamsTyped'
  BY <1>21, CallsEnd DEF ProcessEnds
<1>22. QED
  BY <1>1, <1>2, <1>3, <1>4, <1>5, <1>7, <1>8, <1>9, <1>10, <1>11, <1>12, <1>13, <1>14, <1>15, <1>16,
     <1>17, <1>18, <1>19, <1>20, <1>21
     DEF TeamsNext, Manage, Propose, Reply


\* A call that goes to none of the steps where a row is locked, or stays at its step for
\* the same user, or ends, locks no row.
LocksNothing ==
  \A s \in Calls :
    \/ call'[s].pc \notin {"write"} \cup Accepting
    \/ /\ call'[s].user = call[s].user
       /\ call'[s].pc = call[s].pc \/ {call[s].pc, call'[s].pc} \subseteq Accepting

LEMMA NothingLocked ==
  ASSUME RowsLocked, LocksNothing, \A u \in Team : u \in Team' \/ ~\E s \in Calls : call'[s].pc = "write" /\ call'[s].user = u
  PROVE  RowsLocked'
BY DEF RowsLocked, LocksNothing, Accepting

LEMMA HandlerSteps ==
  ASSUME TeamsTyped, NEW r \in Calls, BeginManage(r) \/ Invite(r)
  PROVE  /\ call'[r].pc \in {"lock", "count"}
         /\ \A s \in Calls \ {r} : call'[s] = call[s]
<1> USE DEF TeamsTyped, TeamsTypeOK
<1>1. CASE BeginManage(r)
  <2>1. PICK u \in Users :
          call' = [call EXCEPT ![r] = [@ EXCEPT !.pc = "lock", !.actor = Null, !.user = u]]
    BY <1>1 DEF BeginManage
  <2>2. QED
    BY <2>1 DEF Call
<1>2. CASE Invite(r)
  <2>1. PICK u \in Users, as \in Assignable :
          call' = [call EXCEPT ![r] = [@ EXCEPT !.pc = "count", !.actor = Null, !.user = u,
                                                !.as = as, !.lim = Limit]]
    BY <1>2 DEF Invite
  <2>2. QED
    BY <2>1 DEF Call
<1>3. QED
  BY <1>1, <1>2

LEMMA AcceptanceSteps ==
  ASSUME TeamsTyped, NEW r \in Calls, ~End(r),
         AcceptInvitation(r) \/ AcceptReadLimit(r) \/ AcceptCountSeats(r)
  PROVE  /\ call'[r].user = call[r].user
         /\ \A s \in Calls \ {r} : call'[s] = call[s]
<1> USE DEF TeamsTyped, TeamsTypeOK
<1>1. CASE AcceptInvitation(r)
  BY <1>1 DEF AcceptInvitation, Call
<1>2. CASE AcceptReadLimit(r)
  BY <1>2 DEF AcceptReadLimit, Call
<1>3. CASE AcceptCountSeats(r)
  <2>1. MoveOn(r, "acceptWrite")
    BY <1>3 DEF AcceptCountSeats
  <2>2. QED
    BY <2>1 DEF MoveOn, Call
<1>4. QED
  BY <1>1, <1>2, <1>3

LEMMA ExpireSteps ==
  ASSUME TeamsTyped, Expire
  PROVE  \A s \in Calls : call'[s] = NoCall \/ (call'[s].pc = call[s].pc /\ call'[s].user = call[s].user)
<1> USE DEF TeamsTyped, TeamsTypeOK
<1> TAKE s \in Calls
<1>2. call[s] \in Call
  OBVIOUS
<1>3. \/ call'[s] \in {call[s], NoCall}
      \/ \E raced \in BOOLEAN : call'[s] = [call[s] EXCEPT !.raced = raced]
  BY <1>2 DEF Expire, Call
<1>4. QED
  BY <1>2, <1>3 DEF Call

\* An invitation is settled: calls end, or stay where they are.
LEMMA SettleSteps ==
  ASSUME TeamsTyped, NEW r \in Calls, NEW u,
         Settle(r, u) \/ SettleAndOvertake(r, u)
  PROVE  \A s \in Calls :
           \/ call'[s] = NoCall
           \/ ~Settled(r, u, s) /\ call'[s].pc = call[s].pc /\ call'[s].user = call[s].user
<1> USE DEF TeamsTyped, TeamsTypeOK
<1>1. CASE Settle(r, u)
  BY <1>1 DEF Settle
<1>2. CASE SettleAndOvertake(r, u)
  BY <1>2 DEF SettleAndOvertake, Call
<1>3. QED
  BY <1>1, <1>2

LEMMA RowsLockedNext ==
  ASSUME TeamsTyped, RowsLocked, TeamsNext
  PROVE  RowsLocked'
<1> USE DEF TeamsTyped, TeamsTypeOK, CallsTyped
<1>e. \A r \in Calls : End(r) => LocksNothing
  BY DEF End, NoCall, LocksNothing, Accepting
<1>t. members' = members => Team' = Team
  BY DEF Team
<1>1. ASSUME NEW r \in Calls, Create(r)  PROVE RowsLocked'
  <2>1. Team \subseteq Team'
    BY <1>1, OwnerAssumption DEF Create, Team, Absent
  <2>2. QED
    BY <1>1, <2>1, NothingLocked DEF Create, LocksNothing
<1>2. ASSUME NEW r \in Calls, Guard(r) \/ BeginAnswer(r) \/ BeginRevoke(r)  PROVE RowsLocked'
  <2>1. /\ call'[r].pc \in {"handler", "answer", "revoke"}
        /\ \A s \in Calls \ {r} : call'[s] = call[s]
    <3>1. CASE Guard(r)
      BY <3>1 DEF Guard, NoCall
    <3>2. CASE BeginAnswer(r)
      BY <3>2 DEF BeginAnswer, NoCall
    <3>3. CASE BeginRevoke(r)
      BY <3>3 DEF BeginRevoke, NoCall
    <3>4. QED
      BY <1>2, <3>1, <3>2, <3>3
  <2>2. LocksNothing
    BY <2>1 DEF LocksNothing, Accepting
  <2>3. QED
    BY <1>2, <1>t, <2>2, NothingLocked DEF Guard, BeginAnswer, BeginRevoke
<1>3. ASSUME NEW r \in Calls, BeginManage(r) \/ Invite(r)  PROVE RowsLocked'
  <2>b. /\ call'[r].pc \in {"lock", "count"}
        /\ \A s \in Calls \ {r} : call'[s] = call[s]
    BY <1>3, HandlerSteps
  <2>1. LocksNothing
    <3>1. call'[r].pc \in {"lock", "count"}
      BY <2>b
    <3>2. \A s \in Calls \ {r} : call'[s] = call[s]
      BY <2>b
    <3>3. QED
      BY <3>1, <3>2 DEF LocksNothing, Accepting
  <2>2. QED
    BY <1>3, <1>t, <2>1, NothingLocked DEF BeginManage, Invite
<1>4. ASSUME NEW r \in Calls, TargetFor(r)  PROVE RowsLocked'
  <2>1. CASE End(r)
    BY <1>4, <1>e, <1>t, <2>1, NothingLocked DEF TargetFor
  <2>2. CASE MoveOn(r, "write") /\ call[r].user \in Team
    <3>1. call'[r].pc = "write" /\ call'[r].user = call[r].user
      BY <2>2 DEF MoveOn
    <3>2. \A s \in Calls \ {r} : call'[s] = call[s]
      BY <2>2 DEF MoveOn
    <3>3. \A s \in Calls \ {r} : ~(call[s].pc = "write" /\ call[s].user = call[r].user)
      BY <1>4 DEF TargetFor, MemberLocked
    <3>4. QED
      BY <1>4, <1>t, <2>2, <3>1, <3>2, <3>3 DEF TargetFor, RowsLocked, Accepting
  <2>3. QED
    BY <1>4, <2>1, <2>2 DEF TargetFor, MayManage
<1>5. ASSUME NEW r \in Calls, ChangeMemberRole(r) \/ SetPermissionOverrides(r) \/ SetMemberStatus(r)
                              \/ RemoveMember(r)
      PROVE  RowsLocked'
  <2>1. PICK line : Write(r, line)
    BY <1>5 DEF ChangeMemberRole, SetPermissionOverrides, SetMemberStatus, RemoveMember
  <2>2. ASSUME NEW u \in Team, NEW s \in Calls, call'[s].pc = "write", call'[s].user = u  PROVE u \in Team'
    <3>1. s # r /\ call[s].pc = "write" /\ call[s].user = u
      BY <2>1, <2>2 DEF Write, End, NoCall
    <3>2. u # call[r].user
      BY <2>1, <3>1 DEF Write, RowsLocked
    <3>3. QED
      BY <2>1, <2>2, <3>2 DEF Write, Team
  <2>3. QED
    BY <1>e, <2>1, <2>2, NothingLocked DEF Write
<1>6. ASSUME NEW r \in Calls, CountSeats(r) \/ AcceptReadLimit(r) \/ AcceptCountSeats(r) \/ RollBack(r)
      PROVE  RowsLocked'
  <2>1. LocksNothing
    <3>1. CASE End(r)
      BY <1>e, <3>1
    <3>2. CASE CountSeats(r) /\ ~End(r)
      <4>1. MoveOn(r, "insert")
        BY <3>2 DEF CountSeats
      <4>2. QED
        BY <4>1 DEF MoveOn, LocksNothing, Accepting
    <3>3. CASE AcceptReadLimit(r)
      BY <3>3 DEF AcceptReadLimit, LocksNothing, Accepting
    <3>4. CASE AcceptCountSeats(r) /\ ~End(r)
      <4>1. MoveOn(r, "acceptWrite") /\ call[r].pc = "acceptSeats"
        BY <3>4 DEF AcceptCountSeats
      <4>2. QED
        BY <4>1 DEF MoveOn, LocksNothing, Accepting
    <3>5. QED
      BY <1>6, <3>1, <3>2, <3>3, <3>4 DEF RollBack
  <2>2. QED
    BY <1>6, <1>t, <2>1, NothingLocked DEF CountSeats, AcceptReadLimit, AcceptCountSeats, RollBack
<1>7. ASSUME NEW r \in Calls, InsertInvitation(r) \/ RevokeInvitation(r) \/ DeclineInvitation(r)
      PROVE  RowsLocked'
  <2>1. LocksNothing
    BY <1>7 DEF InsertInvitation, RevokeInvitation, DeclineInvitation, Settle, SettleAndOvertake,
                NoCall, LocksNothing, Call, Accepting
  <2>2. QED
    BY <1>7, <1>t, <2>1, NothingLocked DEF InsertInvitation, RevokeInvitation, DeclineInvitation
<1>8. ASSUME NEW r \in Calls, AcceptInvitation(r)  PROVE RowsLocked'
  <2>1. call'[r].pc = "acceptLimit" /\ call'[r].user = call[r].user
    BY <1>8 DEF AcceptInvitation
  <2>2. \A s \in Calls \ {r} : call'[s] = call[s]
    BY <1>8 DEF AcceptInvitation
  <2>3. \A s \in Calls \ {r} : ~(call[s].pc \in Accepting /\ call[s].user = call[r].user)
    BY <1>8 DEF AcceptInvitation, Pending, InvitationLocked, Accepting
  <2>4. QED
    BY <1>8, <1>t, <2>1, <2>2, <2>3 DEF AcceptInvitation, RowsLocked, Accepting
<1>9. ASSUME NEW r \in Calls, AcceptWrite(r)  PROVE RowsLocked'
  <2>1. LocksNothing
    BY <1>9 DEF AcceptWrite, SettleAndOvertake, NoCall, LocksNothing, Call, Accepting
  <2>2. Team \subseteq Team'
    BY <1>9 DEF AcceptWrite, Team, Absent
  <2>3. QED
    BY <2>1, <2>2, NothingLocked
<1>10. ASSUME Expire  PROVE RowsLocked'
  <2>1. LocksNothing
    BY <1>10 DEF Expire, NoCall, LocksNothing, Call, Accepting
  <2>2. QED
    BY <1>10, <1>t, <2>1, NothingLocked DEF Expire
<1>11. ASSUME SetOverride \/ RemoveOverride \/ ProcessEnds  PROVE RowsLocked'
  <2>1. LocksNothing
    BY <1>11 DEF SetOverride, RemoveOverride, ProcessEnds, NoCall, LocksNothing, Accepting
  <2>2. QED
    BY <1>11, <1>t, <2>1, NothingLocked DEF SetOverride, RemoveOverride, ProcessEnds
<1>12. QED
  BY <1>1, <1>2, <1>3, <1>4, <1>5, <1>6, <1>7, <1>8, <1>9, <1>10, <1>11
     DEF TeamsNext, Manage, Propose, Reply

LEMMA OwnerStaysNext ==
  ASSUME TeamsTyped, RowsLocked, OwnerStays, TeamsNext
  PROVE  OwnerStays'
<1> USE OwnerAssumption DEF TeamsTyped, TeamsTypeOK, CallsTyped
<1>o. Owner # Null
  BY NullAssumption
<1>e. \A r \in Calls : End(r) => \A s \in Calls : call'[s] = NoCall \/ call'[s] = call[s]
  BY DEF End
\* The owner is there as soon as a call is at work.
<1>p. ASSUME NEW r \in Calls, call[r].pc # "idle"  PROVE members[Owner] # Absent
  BY <1>p DEF OwnerStays
<1>c. ASSUME members[Owner] # Absent, members'[Owner] = members[Owner], pending'[Owner] = pending[Owner],
             \A s \in Calls : \/ call'[s] = NoCall \/ call'[s].user # Owner \/ call'[s].pc \in {"lock", "count"}
                              \/ call'[s].pc = call[s].pc /\ call'[s].user = call[s].user
      PROVE  OwnerStays'
  BY <1>c, <1>o DEF OwnerStays, NoCall
<1>1. ASSUME NEW r \in Calls, Create(r)  PROVE OwnerStays'
  BY <1>1 DEF Create, OwnerStays, Absent
<1>2. ASSUME NEW r \in Calls, Guard(r) \/ BeginAnswer(r)  PROVE OwnerStays'
  <2>1. members[Owner] # Absent
    <3>1. (\E u \in Users : members[u] # Absent) \/ \E u \in Users : pending[u] # NoInvitation
      <4>1. CASE Guard(r)
        BY <4>1 DEF Guard, Absent
      <4>2. CASE BeginAnswer(r)
        BY <4>2 DEF BeginAnswer, Invited
      <4>3. QED
        BY <1>2, <4>1, <4>2
    <3>2. QED
      BY <3>1 DEF OwnerStays
  <2>2. \A s \in Calls : call'[s].user # Owner \/ call'[s] = call[s]
    BY <1>2, <1>o DEF Guard, BeginAnswer, NoCall, OwnerStays, Invited
  <2>3. QED
    BY <1>2, <1>c, <2>1, <2>2 DEF Guard, BeginAnswer
<1>3. ASSUME NEW r \in Calls, BeginManage(r) \/ Invite(r)  PROVE OwnerStays'
  <2>1. call'[r].pc \in {"lock", "count"}
    BY <1>3, HandlerSteps
  <2>2. \A s \in Calls \ {r} : call'[s] = call[s]
    BY <1>3, HandlerSteps
  <2>3. members[Owner] # Absent /\ UNCHANGED <<members, pending>>
    BY <1>3, <1>p DEF BeginManage, Invite
  <2>4. QED
    BY <1>c, <2>1, <2>2, <2>3
<1>4. ASSUME NEW r \in Calls, TargetFor(r)  PROVE OwnerStays'
  <2>1. CASE End(r)
    BY <1>4, <1>c, <1>e, <1>p, <2>1 DEF TargetFor
  <2>2. CASE MoveOn(r, "write") /\ MayManage(call[r])
    <3>1. call[r].user # Owner
      BY <1>4, <1>p, <2>2 DEF TargetFor, MayManage, OwnerStays
    <3>2. \A s \in Calls : call'[s].user # Owner \/ call'[s] = call[s]
      BY <2>2, <3>1 DEF MoveOn
    <3>3. QED
      BY <1>4, <1>c, <1>p, <3>2 DEF TargetFor
  <2>3. QED
    BY <1>4, <2>1, <2>2 DEF TargetFor
<1>5. ASSUME NEW r \in Calls, ChangeMemberRole(r) \/ SetPermissionOverrides(r) \/ SetMemberStatus(r)
                              \/ RemoveMember(r)
      PROVE  OwnerStays'
  <2>1. PICK line : Write(r, line)
    BY <1>5 DEF ChangeMemberRole, SetPermissionOverrides, SetMemberStatus, RemoveMember
  <2>2. call[r].user # Owner
    BY <2>1 DEF Write, OwnerStays
  <2>3. QED
    BY <1>c, <1>e, <1>p, <2>1, <2>2 DEF Write
<1>6. ASSUME NEW r \in Calls, CountSeats(r)  PROVE OwnerStays'
  <2>1. CASE End(r)
    BY <1>6, <1>c, <1>e, <1>p, <2>1 DEF CountSeats
  <2>2. CASE MoveOn(r, "insert") /\ call[r].user \notin Team
    <3>1. call[r].user # Owner
      BY <1>6, <1>p, <2>2 DEF CountSeats, Team
    <3>2. \A s \in Calls : call'[s].user # Owner \/ call'[s] = call[s]
      BY <2>2, <3>1 DEF MoveOn
    <3>3. QED
      BY <1>6, <1>c, <1>p, <3>2 DEF CountSeats
  <2>3. QED
    BY <1>6, <2>1, <2>2 DEF CountSeats
<1>7. ASSUME NEW r \in Calls, InsertInvitation(r) \/ RevokeInvitation(r) \/ DeclineInvitation(r) \/ AcceptWrite(r)
      PROVE  OwnerStays'
  <2>1. call[r].user # Owner /\ members[Owner] # Absent
    BY <1>7, <1>p DEF InsertInvitation, RevokeInvitation, DeclineInvitation, Pending, AcceptWrite, OwnerStays
  <2>2. \A s \in Calls : call'[s] = NoCall \/ (call'[s].pc = call[s].pc /\ call'[s].user = call[s].user)
    <3>1. Settle(r, call[r].user) \/ SettleAndOvertake(r, call[r].user)
      BY <1>7 DEF InsertInvitation, AcceptWrite, RevokeInvitation, DeclineInvitation
    <3>2. QED
      BY <3>1, SettleSteps
  <2>3. members'[Owner] = members[Owner] /\ pending'[Owner] = pending[Owner]
    BY <1>7, <2>1 DEF InsertInvitation, RevokeInvitation, DeclineInvitation, AcceptWrite
  <2>4. QED
    BY <1>c, <2>1, <2>2, <2>3
<1>8. ASSUME NEW r \in Calls, BeginRevoke(r)  PROVE OwnerStays'
  <2>1. \A s \in Calls : call'[s].user # Owner \/ call'[s] = call[s]
    BY <1>8, <1>o DEF BeginRevoke, NoCall, OwnerStays, Invited
  <2>2. QED
    BY <1>8, <1>c, <1>p, <2>1 DEF BeginRevoke
<1>9. ASSUME NEW r \in Calls, AcceptInvitation(r) \/ AcceptReadLimit(r) \/ AcceptCountSeats(r) \/ RollBack(r)
      PROVE  OwnerStays'
  <2>1. call[r].pc # "idle"
    BY <1>9 DEF AcceptInvitation, Pending, AcceptReadLimit, AcceptCountSeats, RollBack
  <2>2. call[r].user = Owner => RollBack(r)
    BY <1>9 DEF AcceptInvitation, Pending, AcceptReadLimit, AcceptCountSeats, OwnerStays
  <2>3. CASE RollBack(r) \/ End(r)
    BY <1>9, <1>c, <1>e, <1>p, <2>1, <2>3
       DEF AcceptInvitation, AcceptReadLimit, AcceptCountSeats, RollBack
  <2>4. CASE ~RollBack(r) /\ ~End(r)
    <3>1. \A s \in Calls : call'[s].user # Owner \/ call'[s] = call[s]
      <4>1. \A s \in Calls \ {r} : call'[s] = call[s]
        BY <1>9, <2>4, AcceptanceSteps
      <4>2. call'[r].user = call[r].user
        BY <1>9, <2>4, AcceptanceSteps
      <4>3. QED
        BY <2>2, <2>4, <4>1, <4>2
    <3>2. QED
      BY <1>9, <1>c, <1>p, <2>1, <2>4, <3>1 DEF AcceptInvitation, AcceptReadLimit, AcceptCountSeats
  <2>5. QED
    BY <2>3, <2>4
<1>10. ASSUME Expire  PROVE OwnerStays'
  <2>1. \A s \in Calls : call'[s] = NoCall \/ (call'[s].pc = call[s].pc /\ call'[s].user = call[s].user)
    BY <1>10, ExpireSteps
  <2>2. members[Owner] # Absent /\ pending'[Owner] = pending[Owner]
    BY <1>10 DEF Expire, Invited, OwnerStays
  <2>3. QED
    BY <1>10, <1>c, <2>1, <2>2 DEF Expire
<1>11. ASSUME SetOverride \/ RemoveOverride  PROVE OwnerStays'
  BY <1>11 DEF SetOverride, RemoveOverride, OwnerStays
<1>12. ASSUME ProcessEnds  PROVE OwnerStays'
  <2>1. \A s \in Calls : call'[s] = NoCall
    BY <1>12 DEF ProcessEnds
  <2>2. members[Owner] # Absent
    BY <1>12, <1>p DEF ProcessEnds, NeedsConnection
  <2>3. QED
    BY <1>12, <1>c, <2>1, <2>2 DEF ProcessEnds
<1>13. QED
  BY <1>1, <1>2, <1>3, <1>4, <1>5, <1>6, <1>7, <1>8, <1>9, <1>10, <1>11, <1>12
     DEF TeamsNext, Manage, Propose, Reply

-----------------------------------------------------------------------------
\* The sets of people are finite, and counted by numbers.
LEMMA PeopleCounted ==
  ASSUME NEW S \in SUBSET Users
  PROVE  IsFiniteSet(S) /\ Cardinality(S) \in Nat /\ \A T \in SUBSET S : Cardinality(T) <= Cardinality(S)
<1>1. IsFiniteSet(S)
  BY FiniteTeamAssumption, FS_Subset
<1>2. QED
  BY <1>1, FS_Subset, FS_CardinalityType

\* Nobody joins the team and nobody is invited.
Shrinks == Team' \subseteq Team /\ Invited' \subseteq Invited

\* A call keeps its count, when places are only freed.
KeepsCount(s) ==
  /\ call'[s].user = call[s].user /\ call'[s].lim = call[s].lim
  /\ call'[s].pc = call[s].pc
  /\ ~call'[s].raced => ~call[s].raced

LEMMA CountKept ==
  ASSUME CountsHold, Shrinks, NEW s \in Calls, KeepsCount(s),
         call[s].lim \in Nat \cup {Unlimited},
         call[s].pc \in {"acceptLimit", "acceptSeats"} /\ ~call'[s].raced => call[s].user \in Invited'
  PROVE  ~call'[s].raced =>
           /\ call'[s].pc \in {"acceptLimit", "acceptSeats"} => call'[s].user \in Invited'
           /\ call'[s].pc = "insert" /\ call'[s].lim # Unlimited =>
                Cardinality(Team') + Cardinality(Invited' \ {call'[s].user}) + 1 <= call'[s].lim
           /\ call'[s].pc = "acceptWrite" /\ call'[s].lim # Unlimited =>
                Cardinality(Team' \ {call'[s].user}) + Cardinality(Invited' \ {call'[s].user}) + 1
                  <= call'[s].lim
<1> DEFINE u == call[s].user
<1>1. /\ Cardinality(Team') <= Cardinality(Team)
      /\ Cardinality(Team' \ {u}) <= Cardinality(Team \ {u})
      /\ Cardinality(Invited' \ {u}) <= Cardinality(Invited \ {u})
  <2>1. Team \in SUBSET Users /\ Team \ {u} \in SUBSET Users /\ Invited \ {u} \in SUBSET Users
    BY DEF Team, Invited
  <2>2. Team' \in SUBSET Team /\ Team' \ {u} \in SUBSET (Team \ {u}) /\ Invited' \ {u} \in SUBSET (Invited \ {u})
    BY DEF Shrinks
  <2>3. QED
    BY <2>1, <2>2, PeopleCounted
<1>2. /\ Cardinality(Team) \in Nat /\ Cardinality(Team') \in Nat
      /\ Cardinality(Team \ {u}) \in Nat /\ Cardinality(Team' \ {u}) \in Nat
      /\ Cardinality(Invited \ {u}) \in Nat /\ Cardinality(Invited' \ {u}) \in Nat
  <2>1. /\ Team \in SUBSET Users /\ Team \ {u} \in SUBSET Users /\ Invited \ {u} \in SUBSET Users
        /\ Team' \in SUBSET Users /\ Team' \ {u} \in SUBSET Users /\ Invited' \ {u} \in SUBSET Users
    BY DEF Team, Invited
  <2>2. QED
    BY <2>1, PeopleCounted
<1>3. ASSUME ~call'[s].raced
      PROVE  /\ ~call[s].raced /\ call'[s].user = u
             /\ call'[s].lim = call[s].lim /\ call'[s].pc = call[s].pc
  BY <1>3 DEF KeepsCount
<1>4. ASSUME ~call[s].raced, call[s].lim \in Nat
      PROVE  /\ call[s].pc = "insert" => Cardinality(Team') + Cardinality(Invited' \ {u}) + 1 <= call[s].lim
             /\ call[s].pc = "acceptWrite" =>
                  Cardinality(Team' \ {u}) + Cardinality(Invited' \ {u}) + 1 <= call[s].lim
  <2>1. /\ call[s].pc = "insert" => Cardinality(Team) + Cardinality(Invited \ {u}) + 1 <= call[s].lim
        /\ call[s].pc = "acceptWrite" =>
             Cardinality(Team \ {u}) + Cardinality(Invited \ {u}) + 1 <= call[s].lim
    BY <1>4, NullAssumption DEF CountsHold
  <2>2. QED
    BY <1>1, <1>2, <1>4, <2>1
<1>5. QED
  BY <1>3, <1>4

\* One call goes on, and nothing else changes.
LEMMA OthersKeepCount ==
  ASSUME CountsHold, TeamsTyped, NEW r \in Calls, UNCHANGED <<members, pending>>,
         \A s \in Calls \ {r} : call'[s] = call[s],
         ~call'[r].raced =>
           /\ call'[r].pc \in {"acceptLimit", "acceptSeats"} => call'[r].user \in Invited
           /\ call'[r].pc = "insert" /\ call'[r].lim # Unlimited =>
                Cardinality(Team) + Cardinality(Invited \ {call'[r].user}) + 1 <= call'[r].lim
           /\ call'[r].pc = "acceptWrite" /\ call'[r].lim # Unlimited =>
                Cardinality(Team \ {call'[r].user}) + Cardinality(Invited \ {call'[r].user}) + 1
                  <= call'[r].lim
  PROVE  CountsHold'
<1>1. Team' = Team /\ Invited' = Invited
  BY DEF Team, Invited
<1>2. QED
  BY <1>1 DEF CountsHold

LEMMA CountsHoldNext ==
  ASSUME TeamsTyped, RowsLocked, OwnerStays, CountsHold, TeamsNext
  PROVE  CountsHold'
<1> USE DEF TeamsTyped, TeamsTypeOK
<1>e. ASSUME NEW r \in Calls, End(r), UNCHANGED <<members, pending>>  PROVE CountsHold'
  <2>1. call'[r].pc = "idle" /\ \A s \in Calls \ {r} : call'[s] = call[s]
    BY <1>e DEF End, NoCall
  <2>2. QED
    BY <1>e, <2>1, OthersKeepCount
<1>t. /\ members' = members => Team' = Team
      /\ pending' = pending => Invited' = Invited
  BY DEF Team, Invited
<1>l. \A s \in Calls : call[s] \in Call /\ call[s].lim \in Nat \cup {Unlimited}
  BY DEF Call
\* Calls end or keep what they counted.
<1>k. ASSUME Shrinks,
             \A s \in Calls : \/ call'[s] = NoCall
                              \/ /\ KeepsCount(s)
                                 /\ call[s].pc \in {"acceptLimit", "acceptSeats"} /\ ~call'[s].raced
                                      => call[s].user \in Invited'
      PROVE  CountsHold'
  <2>1. ASSUME NEW s \in Calls, call'[s] = NoCall
        PROVE  call'[s].pc \notin {"acceptLimit", "acceptSeats", "insert", "acceptWrite"}
    BY <2>1 DEF NoCall
  <2>2. QED
    BY <1>k, <1>l, <2>1, CountKept DEF CountsHold
<1>1. ASSUME NEW r \in Calls, Create(r)  PROVE CountsHold'
  <2>1. \A s \in Calls : call'[s].pc = "idle"
    BY <1>1 DEF Create, OwnerStays
  <2>2. QED
    BY <2>1 DEF CountsHold
<1>2. ASSUME NEW r \in Calls, Guard(r) \/ BeginAnswer(r) \/ BeginRevoke(r)  PROVE CountsHold'
  <2>1. call'[r].pc \in {"handler", "answer", "revoke"} /\ \A s \in Calls \ {r} : call'[s] = call[s]
    BY <1>2 DEF Guard, BeginAnswer, BeginRevoke, NoCall
  <2>2. QED
    BY <1>2, <2>1, OthersKeepCount DEF Guard, BeginAnswer, BeginRevoke
<1>3. ASSUME NEW r \in Calls, BeginManage(r) \/ Invite(r)  PROVE CountsHold'
  <2>1. call'[r].pc \in {"lock", "count"} /\ \A s \in Calls \ {r} : call'[s] = call[s]
    BY <1>3, HandlerSteps
  <2>2. UNCHANGED <<members, pending>>
    BY <1>3 DEF BeginManage, Invite
  <2>3. QED
    BY <2>1, <2>2, OthersKeepCount
<1>4. ASSUME NEW r \in Calls, TargetFor(r)  PROVE CountsHold'
  <2>1. CASE End(r)
    BY <1>4, <1>e, <2>1 DEF TargetFor
  <2>2. CASE MoveOn(r, "write")
    <3>1. call'[r].pc = "write" /\ \A s \in Calls \ {r} : call'[s] = call[s]
      BY <2>2 DEF MoveOn
    <3>2. QED
      BY <1>4, <3>1, OthersKeepCount DEF TargetFor
  <2>3. QED
    BY <1>4, <2>1, <2>2 DEF TargetFor
<1>5. ASSUME NEW r \in Calls, ChangeMemberRole(r) \/ SetPermissionOverrides(r) \/ SetMemberStatus(r)
                              \/ RemoveMember(r)
      PROVE  CountsHold'
  <2>1. PICK line : Write(r, line)
    BY <1>5 DEF ChangeMemberRole, SetPermissionOverrides, SetMemberStatus, RemoveMember
  <2>2. Invited' = Invited /\ Team' \subseteq Team
    <3>1. call[r].user \in Team
      BY <2>1 DEF Write, RowsLocked
    <3>2. QED
      BY <1>t, <2>1, <3>1 DEF Write, Team
  <2>3. \A s \in Calls : call'[s] = NoCall \/ call'[s] = call[s]
    BY <2>1 DEF Write, End
  <2>4. \A s \in Calls : call[s].pc \in {"acceptLimit", "acceptSeats"} /\ ~call[s].raced => call[s].user \in Invited
    BY DEF CountsHold
  <2>5. QED
    BY <1>k, <2>2, <2>3, <2>4 DEF Shrinks, KeepsCount
<1>6. ASSUME NEW r \in Calls, CountSeats(r)  PROVE CountsHold'
  <2>1. CASE End(r)
    BY <1>6, <1>e, <2>1 DEF CountSeats
  <2>2. CASE ~End(r)
    <3>1. /\ MoveOn(r, "insert") /\ call[r].user \notin Team
          /\ RoomFor(call[r].lim, Cardinality(Team) + Cardinality(Invited \ {call[r].user}))
      BY <1>6, <2>2 DEF CountSeats
    <3>2. /\ call'[r].pc = "insert" /\ call'[r].user = call[r].user /\ call'[r].lim = call[r].lim
          /\ \A s \in Calls \ {r} : call'[s] = call[s]
      BY <1>l, <3>1 DEF MoveOn, Call
    <3>3. call[r].lim # Unlimited =>
            Cardinality(Team) + Cardinality(Invited \ {call[r].user}) + 1 <= call[r].lim
      <4>1. Team \in SUBSET Users /\ Invited \ {call[r].user} \in SUBSET Users
        BY DEF Team, Invited
      <4>2. Cardinality(Team) \in Nat /\ Cardinality(Invited \ {call[r].user}) \in Nat
        BY <4>1, PeopleCounted
      <4>3. QED
        BY <1>l, <3>1, <4>2 DEF RoomFor
    <3>4. QED
      BY <1>6, <3>2, <3>3, OthersKeepCount DEF CountSeats
  <2>3. QED
    BY <2>1, <2>2
<1>7. ASSUME NEW r \in Calls, InsertInvitation(r)  PROVE CountsHold'
  <2>1. ASSUME NEW s \in Calls, call'[s] # NoCall, ~call'[s].raced
        PROVE  /\ call'[s].pc = call[s].pc /\ call'[s].user = call[s].user /\ ~call[s].raced
               /\ call'[s].pc \notin {"insert", "acceptWrite"}
    BY <1>7, <1>l, <2>1 DEF InsertInvitation, SettleAndOvertake, Call
  <2>2. ASSUME NEW s \in Calls, call'[s].pc \in {"acceptLimit", "acceptSeats"}, ~call'[s].raced
        PROVE  call'[s].user \in Invited'
    <3>0. call'[s] # NoCall
      BY <2>2 DEF NoCall
    <3>1. call'[s].user = call[s].user /\ call[s].pc = call'[s].pc /\ call[s].user \in Invited
      BY <2>1, <2>2, <3>0 DEF CountsHold
    <3>2. call[s].user # call[r].user
      BY <1>7, <2>2, <3>1 DEF InsertInvitation, InvitationLocked
    <3>3. QED
      BY <1>7, <3>1, <3>2 DEF InsertInvitation, Invited
  <2>3. QED
    BY <2>1, <2>2 DEF CountsHold, NoCall
<1>8. ASSUME NEW r \in Calls, RevokeInvitation(r) \/ DeclineInvitation(r)  PROVE CountsHold'
  <2>1. ~InvitationLocked(call[r].user) /\ Settle(r, call[r].user)
    BY <1>8 DEF RevokeInvitation, DeclineInvitation, Pending
  <2>2. pending' = [pending EXCEPT ![call[r].user] = NoInvitation] /\ members' = members
    BY <1>8 DEF RevokeInvitation, DeclineInvitation
  <2>3. Shrinks /\ \A u \in Invited : u # call[r].user => u \in Invited'
    BY <1>t, <2>2 DEF Shrinks, Invited
  <2>4. \A s \in Calls : call'[s] = NoCall \/ call'[s] = call[s]
    BY <2>1 DEF Settle
  <2>5. ASSUME NEW s \in Calls, call[s].pc \in {"acceptLimit", "acceptSeats"}, ~call[s].raced
        PROVE  call[s].user \in Invited'
    BY <2>1, <2>3, <2>5 DEF CountsHold, InvitationLocked
  <2>6. QED
    BY <1>k, <2>3, <2>4, <2>5 DEF KeepsCount
<1>9. ASSUME NEW r \in Calls, AcceptInvitation(r)  PROVE CountsHold'
  <2>1. call'[r].pc = "acceptLimit" /\ call'[r].user \in Invited /\ \A s \in Calls \ {r} : call'[s] = call[s]
    BY <1>9, <1>l DEF AcceptInvitation, Pending, Call
  <2>2. QED
    BY <1>9, <2>1, OthersKeepCount DEF AcceptInvitation
<1>10. ASSUME NEW r \in Calls, AcceptReadLimit(r)  PROVE CountsHold'
  <2>1. /\ call'[r].pc = "acceptSeats" \/ call'[r].lim = Unlimited
        /\ call'[r].pc \in {"acceptSeats", "acceptWrite"}
        /\ call'[r].user = call[r].user /\ call'[r].raced = call[r].raced
        /\ \A s \in Calls \ {r} : call'[s] = call[s]
    BY <1>10, <1>l DEF AcceptReadLimit, Call
  <2>2. ~call[r].raced => call[r].user \in Invited
    BY <1>10 DEF AcceptReadLimit, CountsHold
  <2>3. QED
    BY <1>10, <2>1, <2>2, OthersKeepCount DEF AcceptReadLimit
<1>11. ASSUME NEW r \in Calls, AcceptCountSeats(r)  PROVE CountsHold'
  <2>1. CASE End(r)
    BY <1>11, <1>e, <2>1 DEF AcceptCountSeats
  <2>2. CASE ~End(r)
    <3>1. MoveOn(r, "acceptWrite") /\ RoomFor(call[r].lim, Seats - 1)
      BY <1>11, <2>2 DEF AcceptCountSeats
    <3>2. /\ call'[r].pc = "acceptWrite" /\ call'[r].user = call[r].user /\ call'[r].lim = call[r].lim
          /\ call'[r].raced = call[r].raced
          /\ \A s \in Calls \ {r} : call'[s] = call[s]
      BY <1>l, <3>1 DEF MoveOn, Call
    <3>3. ASSUME ~call[r].raced, call[r].lim # Unlimited
          PROVE  Cardinality(Team \ {call[r].user}) + Cardinality(Invited \ {call[r].user}) + 1 <= call[r].lim
      <4>1. Team \in SUBSET Users /\ Invited \in SUBSET Users /\ Team \ {call[r].user} \in SUBSET Team
        BY DEF Team, Invited
      <4>2. /\ IsFiniteSet(Invited)
            /\ Cardinality(Team) \in Nat /\ Cardinality(Invited) \in Nat
            /\ Cardinality(Team \ {call[r].user}) \in Nat
            /\ Cardinality(Team \ {call[r].user}) <= Cardinality(Team)
        BY <4>1, PeopleCounted
      <4>3. call[r].user \in Invited
        BY <1>11, <3>3 DEF AcceptCountSeats, CountsHold
      <4>4. Cardinality(Invited \ {call[r].user}) = Cardinality(Invited) - 1
        BY <4>2, <4>3, FS_RemoveElement
      <4>5. QED
        BY <1>l, <3>1, <3>3, <4>2, <4>4 DEF RoomFor, Seats
    <3>4. QED
      BY <1>11, <3>2, <3>3, OthersKeepCount DEF AcceptCountSeats
  <2>3. QED
    BY <2>1, <2>2
<1>12. ASSUME NEW r \in Calls, AcceptWrite(r)  PROVE CountsHold'
  <2>1. ASSUME NEW s \in Calls, call'[s] # NoCall, ~call'[s].raced
        PROVE  /\ call'[s].pc = call[s].pc /\ call'[s].user = call[s].user /\ ~call[s].raced
               /\ call'[s].pc \notin {"insert", "acceptWrite"} /\ s # r
    BY <1>12, <1>l, <2>1 DEF AcceptWrite, SettleAndOvertake, Settled, Call
  <2>2. ASSUME NEW s \in Calls, call'[s].pc \in {"acceptLimit", "acceptSeats"}, ~call'[s].raced
        PROVE  call'[s].user \in Invited'
    <3>0. call'[s] # NoCall
      BY <2>2 DEF NoCall
    <3>1. s # r /\ call'[s].user = call[s].user /\ call[s].pc = call'[s].pc /\ call[s].user \in Invited
      BY <2>1, <2>2, <3>0 DEF CountsHold
    <3>2. call[s].user # call[r].user
      BY <1>12, <2>2, <3>1 DEF AcceptWrite, RowsLocked, Accepting
    <3>3. QED
      BY <1>12, <3>1, <3>2 DEF AcceptWrite, Invited
  <2>3. QED
    BY <2>1, <2>2 DEF CountsHold, NoCall
<1>13. ASSUME NEW r \in Calls, RollBack(r)  PROVE CountsHold'
  BY <1>13, <1>e DEF RollBack
<1>14. ASSUME Expire  PROVE CountsHold'
  <2>1. PICK u \in Invited :
          /\ pending' = [pending EXCEPT ![u] = NoInvitation]
          /\ call' = [s \in Calls |->
                        IF call[s].user # u THEN call[s]
                        ELSE IF call[s].pc = "answer" THEN NoCall
                        ELSE [call[s] EXCEPT !.raced = @ \/ call[s].pc \in {"acceptLimit", "acceptSeats"}]]
    BY <1>14 DEF Expire
  <2>2. Shrinks /\ \A v \in Invited : v # u => v \in Invited'
    BY <1>14, <1>t, <2>1 DEF Expire, Shrinks, Invited
  <2>3. ASSUME NEW s \in Calls
        PROVE  \/ call'[s] = NoCall
               \/ /\ KeepsCount(s)
                  /\ call[s].pc \in {"acceptLimit", "acceptSeats"} /\ ~call'[s].raced
                       => call[s].user # u /\ ~call[s].raced
    BY <1>l, <2>1 DEF KeepsCount, Call
  <2>4. ASSUME NEW s \in Calls, call[s].pc \in {"acceptLimit", "acceptSeats"}, ~call[s].raced, call[s].user # u
        PROVE  call[s].user \in Invited'
    BY <2>2, <2>4 DEF CountsHold
  <2>5. QED
    BY <1>k, <2>2, <2>3, <2>4
<1>15. ASSUME SetOverride \/ RemoveOverride  PROVE CountsHold'
  BY <1>15, <1>t DEF SetOverride, RemoveOverride, CountsHold
<1>16. ASSUME ProcessEnds  PROVE CountsHold'
  <2>1. \A s \in Calls : call'[s].pc = "idle"
    BY <1>16 DEF ProcessEnds, NoCall
  <2>2. QED
    BY <2>1 DEF CountsHold
<1>17. QED
  BY <1>1, <1>2, <1>3, <1>4, <1>5, <1>6, <1>7, <1>8, <1>9, <1>10, <1>11, <1>12, <1>13, <1>14, <1>15, <1>16
     DEF TeamsNext, Manage, Propose, Reply


-----------------------------------------------------------------------------
\* A step that takes no connection, or one that is free.
LEMMA PoolStep ==
  ASSUME PoolHolds, NEW r \in Calls,
         \/ Held' \subseteq Held
         \/ FreeConnection /\ Held' \subseteq Held \cup {r}
  PROVE  PoolHolds'
<1>1. IsFiniteSet(Held) /\ IsFiniteSet(Held \cup {r})
  <2>1. Held \in SUBSET Calls
    BY DEF Held
  <2>2. QED
    BY <2>1, FiniteTeamAssumption, FS_Subset, FS_AddElement
<1>2. Cardinality(Held) \in Nat /\ Cardinality(Held \cup {r}) \in Nat
  BY <1>1, FS_CardinalityType
<1>3. CASE Held' \subseteq Held
  <2>1. Cardinality(Held') <= Cardinality(Held) /\ Cardinality(Held') \in Nat
    BY <1>1, <1>3, FS_Subset, FS_CardinalityType
  <2>2. QED
    BY <1>2, <2>1, PoolAssumption DEF PoolHolds
<1>4. CASE FreeConnection /\ Held' \subseteq Held \cup {r}
  <2>1. Cardinality(Held') <= Cardinality(Held \cup {r}) /\ Cardinality(Held') \in Nat
    BY <1>1, <1>4, FS_Subset, FS_CardinalityType
  <2>2. Cardinality(Held \cup {r}) <= Cardinality(Held) + 1
    BY <1>1, <1>2, FS_AddElement
  <2>3. Cardinality(Held) < PoolMax
    BY <1>4 DEF FreeConnection
  <2>4. QED
    BY <1>2, <2>1, <2>2, <2>3, PoolAssumption DEF PoolHolds
<1>5. QED
  BY <1>3, <1>4

\* The steps at which a call gets a connection.
LEMMA PoolHoldsNext ==
  ASSUME TeamsTyped, OwnerStays, PoolHolds, TeamsNext
  PROVE  PoolHolds'
<1> USE DEF TeamsTyped, TeamsTypeOK
<1>n. NoCall.pc \notin Holding
  BY DEF NoCall, Holding
<1>h. call' = call => Held' = Held
  BY DEF Held
<1>e. \A r \in Calls : End(r) => Held' \subseteq Held
  BY <1>n DEF End, Held
<1>o. ASSUME NEW r \in Calls, FreeConnection, \A s \in Calls \ {r} : call'[s] = call[s]  PROVE PoolHolds'
  <2>1. Held' \subseteq Held \cup {r}
    BY <1>o DEF Held
  <2>2. QED
    BY <1>o, <2>1, PoolStep
<1>s. ASSUME NEW r \in Calls, \A s \in Calls : call'[s] = NoCall \/ call'[s].pc = call[s].pc  PROVE PoolHolds'
  <2>1. Held' \subseteq Held
    BY <1>n, <1>s DEF Held
  <2>2. QED
    BY <2>1, PoolStep
<1>c. ASSUME Calls = {}  PROVE PoolHolds'
  BY <1>c, FS_EmptySet, PoolAssumption DEF PoolHolds, Held
<1>1. ASSUME NEW r \in Calls,
             Create(r) \/ Guard(r) \/ BeginAnswer(r) \/ BeginManage(r) \/ Invite(r) \/ BeginRevoke(r)
      PROVE  PoolHolds'
  <2>1. FreeConnection
    BY <1>1 DEF Create, Guard, BeginAnswer, BeginManage, Invite, BeginRevoke
  <2>2. \A s \in Calls \ {r} : call'[s] = call[s]
    BY <1>1, HandlerSteps DEF Create, Guard, BeginAnswer, BeginRevoke
  <2>3. QED
    BY <1>o, <2>1, <2>2
<1>2. ASSUME NEW r \in Calls, End(r)  PROVE PoolHolds'
  BY <1>2, <1>e, PoolStep
<1>3. ASSUME NEW r \in Calls, TargetFor(r), ~End(r)  PROVE PoolHolds'
  <2>1. MoveOn(r, "write") /\ call[r].pc = "lock"
    BY <1>3 DEF TargetFor
  <2>2. Held' \subseteq Held
    BY <2>1 DEF MoveOn, Held, Holding
  <2>3. QED
    BY <2>2, PoolStep
<1>4. ASSUME NEW r \in Calls, ~End(r), CountSeats(r) \/ AcceptReadLimit(r) \/ AcceptCountSeats(r)
      PROVE  PoolHolds'
  <2>1. FreeConnection
    BY <1>4 DEF CountSeats, AcceptReadLimit, AcceptCountSeats
  <2>2. \A s \in Calls \ {r} : call'[s] = call[s]
    <3>1. CASE CountSeats(r)
      <4>1. MoveOn(r, "insert")
        BY <1>4, <3>1 DEF CountSeats
      <4>2. QED
        BY <4>1 DEF MoveOn
    <3>2. QED
      BY <1>4, <3>1, AcceptanceSteps
  <2>3. QED
    BY <1>o, <2>1, <2>2
<1>5. ASSUME NEW r \in Calls,
             InsertInvitation(r) \/ RevokeInvitation(r) \/ DeclineInvitation(r) \/ AcceptWrite(r)
      PROVE  PoolHolds'
  <2>1. Settle(r, call[r].user) \/ SettleAndOvertake(r, call[r].user)
    BY <1>5 DEF InsertInvitation, RevokeInvitation, DeclineInvitation, AcceptWrite
  <2>2. QED
    BY <1>s, <2>1, SettleSteps
<1>6. ASSUME NEW r \in Calls, AcceptInvitation(r)  PROVE PoolHolds'
  <2>1. call[r].pc \in Holding /\ \A s \in Calls \ {r} : call'[s] = call[s]
    BY <1>6 DEF AcceptInvitation, Pending, Holding
  <2>2. Held' \subseteq Held
    BY <2>1 DEF Held
  <2>3. QED
    BY <2>2, PoolStep
<1>7. ASSUME Expire  PROVE PoolHolds'
  BY <1>7, <1>c, <1>s, ExpireSteps
<1>8. ASSUME SetOverride \/ RemoveOverride  PROVE PoolHolds'
  BY <1>8, <1>h DEF SetOverride, RemoveOverride, PoolHolds
<1>9. ASSUME ProcessEnds  PROVE PoolHolds'
  BY <1>9, <1>s DEF ProcessEnds
<1>10. ASSUME NEW r \in Calls, ChangeMemberRole(r) \/ SetPermissionOverrides(r) \/ SetMemberStatus(r)
                               \/ RemoveMember(r) \/ RollBack(r)
       PROVE  End(r)
  BY <1>10 DEF ChangeMemberRole, SetPermissionOverrides, SetMemberStatus, RemoveMember, Write, RollBack
<1>11. QED
  BY <1>1, <1>2, <1>3, <1>4, <1>5, <1>6, <1>7, <1>8, <1>9, <1>10
     DEF TeamsNext, Manage, Propose, Reply

-----------------------------------------------------------------------------
LEMMA TeamsInvInit == TeamsInit => TeamsInv
<1> SUFFICES ASSUME TeamsInit  PROVE TeamsInv
  OBVIOUS
<1> USE DEF TeamsInit
<1>1. Fits(NoCall)
  BY OwnerAssumption, NewCall
<1>2. TeamsTyped
  BY <1>1 DEF TeamsTyped, TeamsTypeOK, CallsTyped, Fits
<1>3. \A r \in Calls : call[r].pc = "idle" /\ call[r].user = Null
  BY DEF NoCall
<1>4. RowsLocked /\ CountsHold
  BY <1>3 DEF RowsLocked, CountsHold, Accepting
<1>5. OwnerStays
  BY <1>3, OwnerAssumption, NullAssumption DEF OwnerStays
<1>6. Held = {}
  BY <1>3 DEF Held, Holding
<1>7. PoolHolds
  BY <1>6, FS_EmptySet, PoolAssumption DEF PoolHolds
<1>8. QED
  BY <1>2, <1>4, <1>5, <1>7 DEF TeamsInv

LEMMA TeamsInvNext == TeamsInv /\ [TeamsNext]_teamsVars => TeamsInv'
<1>1. ASSUME TeamsInv, TeamsNext  PROVE TeamsInv'
  BY <1>1, TeamsTypedNext, RowsLockedNext, OwnerStaysNext, CountsHoldNext, PoolHoldsNext DEF TeamsInv
<1>2. ASSUME TeamsInv, UNCHANGED teamsVars  PROVE TeamsInv'
  <2>1. /\ members' = members /\ pending' = pending /\ override' = override /\ call' = call
        /\ Team' = Team /\ Invited' = Invited /\ Held' = Held
    BY <1>2 DEF teamsVars, Team, Invited, Held
  <2>2. TeamsTyped' /\ RowsLocked' /\ OwnerStays'
    BY <1>2, <2>1 DEF TeamsInv, TeamsTyped, TeamsTypeOK, CallsTyped, RowsLocked, OwnerStays
  <2>3. CountsHold' /\ PoolHolds'
    BY <1>2, <2>1 DEF TeamsInv, CountsHold, PoolHolds
  <2>4. QED
    BY <2>2, <2>3 DEF TeamsInv
<1>3. QED
  BY <1>1, <1>2

\* Every row keeps its shape: a member, or none; an invitation, or none.
THEOREM TeamsTypeCorrect == TeamsSpec => []TeamsTypeOK
<1>1. TeamsInv => TeamsTypeOK
  BY DEF TeamsInv, TeamsTyped
<1>2. QED
  BY <1>1, TeamsInvInit, TeamsInvNext, PTL DEF TeamsSpec

\* Rows are locked without cycles: when every request that holds a connection waits, some
\* acceptance waits for a second connection, and the pool is all taken
\* (businesses.service.ts:524-526).
THEOREM NoCycleOfLocks == TeamsSpec => []OnlyAcceptancesWedge
<1>1. TeamsInv => OnlyAcceptancesWedge
  <2> SUFFICES ASSUME TeamsInv, Held # {}, \A r \in Held : Waiting(r)
               PROVE  (\E r \in Held : NeedsConnection(r)) /\ Cardinality(Held) = PoolMax
    BY DEF OnlyAcceptancesWedge
  \* Who is about to write a member waits for nothing.
  <2>1. \A u : ~MemberLocked(u)
    <3>1. \A r \in Held : call[r].pc # "write"
      BY DEF Waiting, NeedsConnection
    <3>2. QED
      BY <3>1 DEF MemberLocked, Held, Holding
  \* Whoever locks an invitation waits for a connection, or else for a member.
  <2>2. \E r \in Held : NeedsConnection(r)
    <3>1. PICK r \in Held : Waiting(r)
      OBVIOUS
    <3>2. CASE NeedsConnection(r)
      BY <3>2
    <3>3. CASE InvitationLocked(call[r].user)
      <4>1. PICK s \in Calls : call[s].pc \in {"acceptLimit", "acceptSeats", "acceptWrite"}
        BY <3>3 DEF InvitationLocked
      <4>2. s \in Held /\ Waiting(s)
        BY <4>1 DEF Held, Holding
      <4>3. QED
        BY <2>1, <4>1, <4>2 DEF Waiting
    <3>4. QED
      BY <2>1, <3>1, <3>2, <3>3 DEF Waiting
  <2>3. Cardinality(Held) \in Nat
    <3>1. Held \in SUBSET Calls
      BY DEF Held
    <3>2. QED
      BY <3>1, FiniteTeamAssumption, FS_Subset, FS_CardinalityType
  <2>4. QED
    BY <2>2, <2>3, PoolAssumption DEF NeedsConnection, FreeConnection, TeamsInv, PoolHolds
<1>2. QED
  BY <1>1, TeamsInvInit, TeamsInvNext, PTL DEF TeamsSpec

\* A step that adds nobody takes no place.
LEMMA NoPlaceTaken ==
  ASSUME Shrinks
  PROVE  /\ Cardinality(Team') + Cardinality(Invited') <= Seats
         /\ Cardinality(Team') <= Cardinality(Team)
<1>1. /\ Team \in SUBSET Users /\ Invited \in SUBSET Users
      /\ Team' \in SUBSET Team /\ Invited' \in SUBSET Invited
      /\ Team' \in SUBSET Users /\ Invited' \in SUBSET Users
  BY DEF Team, Invited, Shrinks
<1>2. /\ Cardinality(Team') <= Cardinality(Team) /\ Cardinality(Invited') <= Cardinality(Invited)
      /\ Cardinality(Team) \in Nat /\ Cardinality(Team') \in Nat
      /\ Cardinality(Invited) \in Nat /\ Cardinality(Invited') \in Nat
  BY <1>1, PeopleCounted
<1>3. QED
  BY <1>2 DEF Seats

LEMMA OneMore ==
  \A S, x : IsFiniteSet(S) => Cardinality(S \cup {x}) <= Cardinality(S) + 1
<1> SUFFICES ASSUME NEW S, NEW x, IsFiniteSet(S)  PROVE Cardinality(S \cup {x}) <= Cardinality(S) + 1
  OBVIOUS
<1>1. Cardinality(S) \in Nat
  BY FS_CardinalityType
<1>2. Cardinality(S \cup {x}) = IF x \in S THEN Cardinality(S) ELSE Cardinality(S) + 1
  BY FS_AddElement, Zenon
<1>3. QED
  BY <1>1, <1>2

LEMMA InsertKeepsLimit ==
  ASSUME TeamsInv, NEW r \in Calls, InsertInvitation(r), call[r].lim # Unlimited, ~call[r].raced
  PROVE  Cardinality(Team') + Cardinality(Invited') <= call[r].lim
<1> DEFINE u == call[r].user
<1> USE DEF TeamsInv, TeamsTyped, TeamsTypeOK, Call
<1>1. Team' = Team /\ Invited' \subseteq (Invited \ {u}) \cup {u}
  BY DEF InsertInvitation, Team, Invited
<1>2. Cardinality(Team) + Cardinality(Invited \ {u}) + 1 <= call[r].lim
  BY DEF InsertInvitation, CountsHold
<1>3. u \in Users
  BY DEF InsertInvitation, CallsTyped, Carries
<1>4. /\ Team \in SUBSET Users /\ Invited \ {u} \in SUBSET Users /\ (Invited \ {u}) \cup {u} \in SUBSET Users
      /\ Invited' \in SUBSET ((Invited \ {u}) \cup {u}) /\ Invited' \in SUBSET Users
  BY <1>1, <1>3 DEF Team, Invited
<1>5. /\ Cardinality(Team) \in Nat /\ Cardinality(Invited') \in Nat
      /\ Cardinality(Invited \ {u}) \in Nat /\ Cardinality((Invited \ {u}) \cup {u}) \in Nat
      /\ Cardinality(Invited') <= Cardinality((Invited \ {u}) \cup {u}) /\ IsFiniteSet(Invited \ {u})
  BY <1>4, PeopleCounted
<1>6. Cardinality((Invited \ {u}) \cup {u}) <= Cardinality(Invited \ {u}) + 1
  <2>1. IsFiniteSet(Invited \ {u})
    BY <1>5
  <2>2. QED
    BY <2>1, OneMore, Zenon
<1>7. call[r].lim \in Nat
  OBVIOUS
<1>8. QED
  BY <1>1, <1>2, <1>5, <1>6, <1>7

LEMMA AcceptKeepsLimit ==
  ASSUME TeamsInv, NEW r \in Calls, AcceptWrite(r), call[r].lim # Unlimited, ~call[r].raced
  PROVE  Cardinality(Team') + Cardinality(Invited') <= call[r].lim
<1> DEFINE u == call[r].user
<1> USE DEF TeamsInv, TeamsTyped, TeamsTypeOK, Call
<1>1. Team' \subseteq (Team \ {u}) \cup {u} /\ Invited' \subseteq Invited \ {u}
  BY DEF AcceptWrite, Team, Invited
<1>2. Cardinality(Team \ {u}) + Cardinality(Invited \ {u}) + 1 <= call[r].lim
  BY DEF AcceptWrite, CountsHold
<1>3. u \in Users
  BY DEF AcceptWrite, CallsTyped, Carries
<1>4. /\ Team \ {u} \in SUBSET Users /\ (Team \ {u}) \cup {u} \in SUBSET Users /\ Invited \ {u} \in SUBSET Users
      /\ Team' \in SUBSET ((Team \ {u}) \cup {u}) /\ Team' \in SUBSET Users
      /\ Invited' \in SUBSET (Invited \ {u}) /\ Invited' \in SUBSET Users
  BY <1>1, <1>3 DEF Team, Invited
<1>5. /\ Cardinality(Team') \in Nat /\ Cardinality(Invited') \in Nat
      /\ Cardinality(Team \ {u}) \in Nat /\ Cardinality((Team \ {u}) \cup {u}) \in Nat
      /\ Cardinality(Invited \ {u}) \in Nat /\ IsFiniteSet(Team \ {u})
      /\ Cardinality(Team') <= Cardinality((Team \ {u}) \cup {u})
      /\ Cardinality(Invited') <= Cardinality(Invited \ {u})
  BY <1>4, PeopleCounted
<1>6. Cardinality((Team \ {u}) \cup {u}) <= Cardinality(Team \ {u}) + 1
  <2>1. IsFiniteSet(Team \ {u})
    BY <1>5
  <2>2. QED
    BY <2>1, OneMore, Zenon
<1>7. call[r].lim \in Nat
  OBVIOUS
<1>8. QED
  BY <1>2, <1>5, <1>6, <1>7

\* Members and pending invitations keep to the limit that was read, unless a place was
\* taken between the count and the insertion (businesses.service.ts: invite, acceptInvitation).
THEOREM LimitKept == TeamsSpec => SeatsWithinLimit
<1> DEFINE Kept == (Cardinality(Team') + Cardinality(Invited') > Seats \/ Cardinality(Team') > Cardinality(Team))
       => \/ members[Owner] = Absent
          \/ \E r \in Calls :
               /\ call[r].pc \in {"insert", "acceptWrite"} /\ call'[r].pc = "idle"
               /\ \/ call[r].lim = Unlimited
                  \/ call[r].raced
                  \/ Cardinality(Team') + Cardinality(Invited') <= call[r].lim
<1>1. ASSUME TeamsInv, [TeamsNext]_teamsVars  PROVE Kept
  <2>s. ASSUME Shrinks  PROVE Kept
    <3>1. /\ Cardinality(Team) \in Nat /\ Cardinality(Team') \in Nat /\ Cardinality(Invited) \in Nat
          /\ Cardinality(Invited') \in Nat
      <4>1. Team \in SUBSET Users /\ Invited \in SUBSET Users /\ Team' \in SUBSET Users /\ Invited' \in SUBSET Users
        BY DEF Team, Invited
      <4>2. QED
        BY <4>1, PeopleCounted
    <3>2. QED
      BY <2>s, <3>1, NoPlaceTaken DEF Seats
  <2>t. /\ members' = members => Team' = Team
        /\ pending' = pending => Invited' = Invited
    BY DEF Team, Invited
  <2>1. ASSUME NEW r \in Calls, Create(r)  PROVE Kept
    BY <2>1 DEF Create
  <2>2. ASSUME NEW r \in Calls, InsertInvitation(r) \/ AcceptWrite(r)  PROVE Kept
    <3>1. call[r].pc \in {"insert", "acceptWrite"}
      BY <2>2 DEF InsertInvitation, AcceptWrite
    <3>2. call'[r].pc = "idle"
      BY <2>2 DEF InsertInvitation, AcceptWrite, SettleAndOvertake, Settled, NoCall
    <3>3. ~call[r].raced /\ call[r].lim # Unlimited => Cardinality(Team') + Cardinality(Invited') <= call[r].lim
      BY <1>1, <2>2, InsertKeepsLimit, AcceptKeepsLimit
    <3>4. QED
      BY <3>1, <3>2, <3>3
  <2>3. ASSUME NEW r \in Calls, ChangeMemberRole(r) \/ SetPermissionOverrides(r) \/ SetMemberStatus(r)
                                \/ RemoveMember(r)
        PROVE  Kept
    <3>1. PICK line : Write(r, line)
      BY <2>3 DEF ChangeMemberRole, SetPermissionOverrides, SetMemberStatus, RemoveMember
    <3>2. call[r].user \in Team
      BY <1>1, <3>1 DEF Write, TeamsInv, RowsLocked
    <3>3. Shrinks
      BY <1>1, <2>t, <3>1, <3>2 DEF Write, Team, Shrinks, TeamsInv, TeamsTyped, TeamsTypeOK
    <3>4. QED
      BY <2>s, <3>3
  <2>4. ASSUME NEW r \in Calls, RevokeInvitation(r) \/ DeclineInvitation(r)  PROVE Kept
    <3>1. Shrinks
      BY <1>1, <2>t, <2>4 DEF RevokeInvitation, DeclineInvitation, Invited, Shrinks, TeamsInv, TeamsTyped, TeamsTypeOK
    <3>2. QED
      BY <2>s, <3>1
  <2>5. ASSUME Expire  PROVE Kept
    <3>1. Shrinks
      BY <1>1, <2>t, <2>5 DEF Expire, Invited, Shrinks, TeamsInv, TeamsTyped, TeamsTypeOK
    <3>2. QED
      BY <2>s, <3>1
  <2>6. ASSUME UNCHANGED <<members, pending>>  PROVE Kept
    BY <2>s, <2>t, <2>6 DEF Shrinks
  <2>7. ASSUME NEW r \in Calls, \/ Guard(r) \/ BeginAnswer(r) \/ BeginManage(r) \/ TargetFor(r) \/ Invite(r)
                                \/ CountSeats(r) \/ BeginRevoke(r) \/ AcceptInvitation(r)
                                \/ AcceptReadLimit(r) \/ AcceptCountSeats(r) \/ RollBack(r)
        PROVE  UNCHANGED <<members, pending>>
    BY <2>7 DEF Guard, BeginAnswer, BeginManage, TargetFor, Invite, CountSeats, BeginRevoke,
                AcceptInvitation, AcceptReadLimit, AcceptCountSeats, RollBack
  <2>8. SetOverride \/ RemoveOverride \/ ProcessEnds \/ UNCHANGED teamsVars => UNCHANGED <<members, pending>>
    BY DEF SetOverride, RemoveOverride, ProcessEnds, teamsVars
  <2>9. QED
    BY <1>1, <2>1, <2>2, <2>3, <2>4, <2>5, <2>6, <2>7, <2>8
       DEF TeamsNext, Manage, Propose, Reply
<1>2. QED
  BY <1>1, TeamsInvInit, TeamsInvNext, PTL DEF TeamsSpec, SeatsWithinLimit
=============================================================================
