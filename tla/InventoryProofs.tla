---------------------------- MODULE InventoryProofs ----------------------------
(***************************************************************************)
(* Proofs about the inventory service, for any number of replicas, API     *)
(* requests, products, locations, devices, transfers, counts and receipts, *)
(* any interleaving of their statements and any failure of transactions.   *)
(*                                                                         *)
(* Every invariant rests on FormIInv, which says what the record of an     *)
(* open transaction can look like; what one statement does to the record   *)
(* is stated field by field in the lemmas ...Effect.                       *)
(***************************************************************************)
EXTENDS Inventory, Sums, SequenceTheorems

-----------------------------------------------------------------------------
(* What an open transaction looks like.                                     *)

\* The events that sales are.
SaleRefs == {x \in Partitions \X Nat : x[2] \in 1..Len(Log[x[1]])}

\* What a transaction of each kind refers to, and how far it can be.
Shape(t) ==
  \/ t = NoTx
  \/ t.op = "adjust" /\ t.ref = NoRef /\ t.step \in {"read", "ready"}
  \/ t.op = "sale" /\ t.ref \in SaleRefs /\ t.step \in {"lines", "read", "serials"}
  \/ t.op = "approve" /\ t.ref \in Counts /\ t.step \in {"lines", "read", "status", "ready"}
  \/ t.op = "submit" /\ t.ref \in Counts /\ t.step \in {"status", "ready"}
  \/ /\ t.op = "transfer" /\ t.ref \in Transfers
     /\ t.step \in {"source", "debit", "credit", "deposit", "status", "ready"}
  \/ /\ t.op = "receive" /\ t.ref \in Receipts
     /\ t.step \in {"credit", "deposit", "register", "ready"}
  \/ t.op = "reserve" /\ t.ref = NoRef /\ t.step \in {"reserving", "ready"}
  \/ t.op \in {"register", "patch"} /\ t.ref = NoRef /\ t.step = "ready"
  \/ t.op = "mend" /\ t.ref \in Transfers /\ t.step = "ready"

\* It points at rows and lines that are there; goods are the resources.
Sited(t, rows, goods) ==
  /\ t.row # 0 => t.row \in 1..Len(rows)
  /\ t.step \in {"read", "debit", "deposit", "reserving"} => t.row # 0
  /\ t.op \in {"adjust", "patch"} => t.row # 0
  /\ t.step \in {"read", "serials"} /\ t.op \in {"sale", "approve"} => t.line <= Len(Lines(t))
  /\ DOMAIN t.moves \subseteq 1..Len(rows) /\ DOMAIN t.kept \subseteq 1..Len(rows)
  /\ t.marked \subseteq 1..Len(goods)
  /\ t.known <= Len(goods)

\* The status it gives its document is set by its last statement.
StatusSet(t) ==
  /\ t.op = "transfer" => t.status = IF t.step = "ready" THEN "DELIVERED" ELSE "NONE"
  /\ t.op = "approve" => t.status = IF t.step = "ready" THEN "APPROVED" ELSE "NONE"
  /\ t.op = "submit" => t.status = IF t.step = "ready" THEN "SUBMITTED" ELSE "NONE"
  /\ t.op = "mend" => t.status \in TransferStatuses
  /\ t.op = "patch" => t.status \in RowStatuses \cup {"NONE"}
  /\ t.op \in {"adjust", "sale", "receive", "reserve", "register"} => t.status = "NONE"

TxOK(t, rows, goods) == Shape(t) /\ Sited(t, rows, goods) /\ StatusSet(t)
FormIInv == InventoryTypeOK /\ \A x \in Actors : TxOK(tx[x], stock, resources)

\* What most statements leave alone (only at a line rows are read that are kept), and
\* where a transaction goes from a line.
Same(o, n) ==
  n.op = o.op /\ n.ref = o.ref /\ n.known = o.known /\ (o.step # "lines" => n.kept = o.kept)
SameStock(o, n) == n.moves = o.moves /\ n.made = o.made
SameGoods(o, n) == n.marked = o.marked /\ n.registered = o.registered
ToNextLine(o, n) == n.step = "lines" /\ n.line = o.line + 1 /\ n.row = 0 /\ n.status = o.status
Advance(o, n) ==
  \/ /\ o.op = "adjust" /\ n.step = "ready"
     /\ n.line = o.line /\ n.row = o.row /\ n.delta = o.delta /\ n.status = o.status
  \/ /\ o.op = "sale" /\ SerialsOf(o) # {} /\ n.step = "serials" /\ n.todo = SerialsOf(o)
     /\ n.line = o.line /\ n.row = 0 /\ n.status = o.status
  \/ o.op # "adjust" /\ (o.op = "sale" => SerialsOf(o) = {}) /\ ToNextLine(o, n)

-----------------------------------------------------------------------------
(* Facts about the records and functions transactions are made of.          *)

\* The empty function adds nothing.
LEMMA NoMoves == <<>> \in Moves /\ DOMAIN <<>> = {}
  <1>1. DOMAIN <<>> = {} /\ <<>> \in [{} -> Int]
    OBVIOUS
  <1>2. QED
    BY <1>1 DEF Moves

\* What one update more adds up to.
LEMMA PlusFacts ==
  ASSUME NEW m \in Moves, NEW r \in Nat, NEW delta \in Int
  PROVE  /\ Plus(m, r, delta) \in Moves
         /\ DOMAIN Plus(m, r, delta) = DOMAIN m \cup {r}
         /\ \A q \in DOMAIN m : q \in Nat /\ m[q] \in Int
  <1>1. PICK rows \in SUBSET Nat : m \in [rows -> Int]
    BY DEF Moves
  <1>2. DOMAIN m = rows /\ \A q \in rows : m[q] \in Int
    BY <1>1
  <1>3. PICK e : e = Plus(m, r, delta)
    OBVIOUS
  <1>4. e = [q \in rows \cup {r} |-> (IF q \in rows THEN m[q] ELSE 0) + (IF q = r THEN delta ELSE 0)]
    BY <1>2, <1>3 DEF Plus
  <1>5. \A q \in rows \cup {r} : e[q] \in Int
    BY <1>2, <1>4
  <1>6. e \in [rows \cup {r} -> Int] /\ rows \cup {r} \in SUBSET Nat
    BY <1>4, <1>5
  <1>7. e \in Moves
    BY <1>6 DEF Moves
  <1>8. QED
    BY <1>2, <1>3, <1>4, <1>7

\* Row by row.
LEMMA PlusAt ==
  ASSUME NEW m \in Moves, NEW r \in Nat, NEW delta \in Int
  PROVE  /\ Plus(m, r, delta)[r] = (IF r \in DOMAIN m THEN m[r] ELSE 0) + delta
         /\ \A q \in DOMAIN m : q # r => Plus(m, r, delta)[q] = m[q]
  <1>1. PICK rows \in SUBSET Nat : m \in [rows -> Int]
    BY DEF Moves
  <1>2. DOMAIN m = rows /\ \A q \in rows : m[q] \in Int
    BY <1>1
  <1>3. PICK e : e = Plus(m, r, delta)
    OBVIOUS
  <1>4. e = [q \in rows \cup {r} |-> (IF q \in rows THEN m[q] ELSE 0) + (IF q = r THEN delta ELSE 0)]
    BY <1>2, <1>3 DEF Plus
  <1>5. \A q \in rows : q # r => e[q] = m[q]
    BY <1>2, <1>4
  <1>6. e[r] = (IF r \in rows THEN m[r] ELSE 0) + delta
    BY <1>2, <1>4
  <1>7. QED
    BY <1>2, <1>3, <1>5, <1>6

\* A transaction that has done nothing.
LEMMA NoTxFacts ==
  /\ NoTx \in Tx
  /\ NoTx.op = "none" /\ NoTx.ref = NoRef /\ NoTx.step = "idle" /\ NoTx.line = 1 /\ NoTx.row = 0
  /\ NoTx.seen = 0 /\ NoTx.delta = 0 /\ NoTx.kept = <<>> /\ NoTx.moves = <<>> /\ NoTx.made = <<>>
  /\ NoTx.status = "NONE" /\ NoTx.place = NoRef /\ NoTx.todo = {} /\ NoTx.marked = {} /\ NoTx.registered = <<>>
  /\ NoTx.known = 0
  <1>1. <<>> \in Seq(Row) /\ <<>> \in Seq(Resource)
    OBVIOUS
  <1>2. QED
    BY <1>1, NoMoves DEF NoTx, Tx, Operations, Refs, Steps, Statuses

\* The lines of a sale and of a count.
LEMMA LinesFacts ==
  ASSUME NEW t \in Tx
  PROVE  /\ t.op = "sale" /\ t.ref \in SaleRefs =>
              Lines(t) \in Seq(SaleLine) /\ SerialsOf(t) = Lines(t)[t.line].serials
         /\ t.op = "approve" /\ t.ref \in Counts => Lines(t) \in Seq(ReconciliationItem)
  <1>1. ASSUME t.op = "sale", t.ref \in SaleRefs
        PROVE  Lines(t) \in Seq(SaleLine) /\ SerialsOf(t) = Lines(t)[t.line].serials
    <2>1. PICK p \in Partitions, i \in Nat : t.ref = <<p, i>> /\ i \in 1..Len(Log[p])
      BY <1>1 DEF SaleRefs
    <2>2. Lines(t) = Log[p][i] /\ SerialsOf(t) = Log[p][i][t.line].serials
      BY <1>1, <2>1 DEF Lines, SerialsOf
    <2>3. Log[p] \in Seq(Seq(SaleLine))
      BY InventoryAssumption DEF InventoryAssumption
    <2>4. QED
      BY <2>1, <2>2, <2>3
  <1>2. ASSUME t.op = "approve", t.ref \in Counts
        PROVE  Lines(t) \in Seq(ReconciliationItem)
    BY <1>2, InventoryAssumption DEF InventoryAssumption, Lines
  <1>3. QED
    BY <1>1, <1>2

-----------------------------------------------------------------------------
(* What each statement does to its transaction.                             *)

\* One field of a transaction set to a value of its type.
LEMMA TxWith ==
  ASSUME NEW o \in Tx
  PROVE  /\ \A v \in Operations : [o EXCEPT !.op = v] \in Tx
         /\ \A v \in Refs : [o EXCEPT !.ref = v] \in Tx
         /\ \A v \in Steps : [o EXCEPT !.step = v] \in Tx
         /\ \A v \in Nat \ {0} : [o EXCEPT !.line = v] \in Tx
         /\ \A v \in Nat : [o EXCEPT !.row = v] \in Tx
         /\ \A v \in Int : [o EXCEPT !.seen = v] \in Tx
         /\ \A v \in Int : [o EXCEPT !.delta = v] \in Tx
         /\ \A v \in Moves : [o EXCEPT !.kept = v] \in Tx
         /\ \A v \in Moves : [o EXCEPT !.moves = v] \in Tx
         /\ \A v \in Seq(Row) : [o EXCEPT !.made = v] \in Tx
         /\ \A v \in Statuses : [o EXCEPT !.status = v] \in Tx
         /\ \A v \in Locations \cup {NoRef} : [o EXCEPT !.place = v] \in Tx
         /\ \A v \in SUBSET Serials : [o EXCEPT !.todo = v] \in Tx
         /\ \A v \in SUBSET Nat : [o EXCEPT !.marked = v] \in Tx
         /\ \A v \in Seq(Resource) : [o EXCEPT !.registered = v] \in Tx
         /\ \A v \in Nat : [o EXCEPT !.known = v] \in Tx
  BY DEF Tx

\* The values that fields are set to.
LEMMA FieldFacts ==
  /\ \A step \in {"read", "lines", "serials", "source", "debit", "credit", "deposit", "register",
                  "reserving", "status", "ready"} : step \in Steps
  /\ \A op \in {"adjust", "sale", "approve", "submit", "transfer", "receive", "reserve",
                "register", "patch", "mend"} : op \in Operations
  /\ \A status \in RowStatuses \cup TransferStatuses \cup CountStatuses : status \in Statuses
  /\ \A ref \in Documents \cup Receipts : ref \in Refs
  /\ 0 \in Nat /\ 0 \in Int /\ {} \in SUBSET Serials
  BY DEF Steps, Operations, Refs, Statuses

\* After the line, or the quantity of an adjustment.
LEMMA AdvanceEffect ==
  ASSUME NEW o \in Tx, o.op = "sale" => o.ref \in SaleRefs /\ o.line <= Len(Lines(o))
  PROVE  LET n == AfterAdjust(o) IN
           /\ n \in Tx /\ Same(o, n) /\ SameStock(o, n) /\ SameGoods(o, n) /\ Advance(o, n)
           /\ n.kept = o.kept
  <1>1. CASE o.op = "adjust"
    <2>1. PICK n : n = [o EXCEPT !.step = "ready"]
      OBVIOUS
    <2>2. n \in Tx
      BY <2>1, FieldFacts, TxWith
    <2>3. Same(o, n) /\ SameStock(o, n) /\ SameGoods(o, n) /\ n.kept = o.kept
      BY <2>1 DEF Tx, Same, SameStock, SameGoods
    <2>4. n.step = "ready" /\ n.line = o.line /\ n.row = o.row /\ n.delta = o.delta /\ n.status = o.status
      BY <2>1 DEF Tx
    <2>5. AfterAdjust(o) = n
      BY <1>1, <2>1 DEF AfterAdjust
    <2>6. QED
      BY <1>1, <2>2, <2>3, <2>4, <2>5 DEF Advance
  <1>2. CASE o.op = "sale" /\ SerialsOf(o) # {}
    <2>1. SerialsOf(o) \in SUBSET Serials
      <3>1. Lines(o) \in Seq(SaleLine) /\ SerialsOf(o) = Lines(o)[o.line].serials
        BY <1>2, LinesFacts
      <3>2. o.line \in 1..Len(Lines(o))
        BY <1>2, <3>1 DEF Tx
      <3>3. Lines(o)[o.line] \in SaleLine
        BY <3>1, <3>2
      <3>4. QED
        BY <3>1, <3>3 DEF SaleLine
    <2>2. PICK serials \in SUBSET Serials : serials = SerialsOf(o)
      BY <2>1
    <2>3. AfterAdjust(o) = [o EXCEPT !.step = "serials", !.row = 0, !.delta = 0, !.todo = serials]
      BY <1>2, <2>2 DEF AfterAdjust
    <2>4. PICK n : n = [o EXCEPT !.step = "serials", !.row = 0, !.delta = 0, !.todo = serials]
      OBVIOUS
    <2>5. n \in Tx
      <3>1. n = [[[[o EXCEPT !.step = "serials"] EXCEPT !.row = 0] EXCEPT !.delta = 0]
                 EXCEPT !.todo = serials]
        BY <2>4
      <3>2. "serials" \in Steps /\ 0 \in Nat /\ 0 \in Int
        BY FieldFacts
      <3>3. QED
        BY ONLY o \in Tx, serials \in SUBSET Serials, <3>1, <3>2, TxWith
    <2>6. Same(o, n) /\ SameStock(o, n) /\ SameGoods(o, n) /\ n.kept = o.kept
      BY <2>4 DEF Tx, Same, SameStock, SameGoods
    <2>7. n.step = "serials" /\ n.todo = serials /\ n.line = o.line /\ n.row = 0 /\ n.status = o.status
      BY <2>4 DEF Tx
    <2>8. QED
      BY <1>2, <2>2, <2>3, <2>4, <2>5, <2>6, <2>7 DEF Advance
  <1>3. CASE o.op # "adjust" /\ ~(o.op = "sale" /\ SerialsOf(o) # {})
    <2>1. AfterAdjust(o) = NextLine(o)
      BY <1>3 DEF AfterAdjust
    <2>2. PICK n : n = NextLine(o)
      OBVIOUS
    <2>3. n = [o EXCEPT !.step = "lines", !.line = o.line + 1, !.row = 0, !.delta = 0, !.todo = {}]
      BY <2>2 DEF NextLine, Tx
    <2>4. o.line + 1 \in Nat \ {0} /\ {} \in SUBSET Serials
      BY DEF Tx
    <2>5. n \in Tx
      <3>1. n = [[[[[o EXCEPT !.step = "lines"] EXCEPT !.line = o.line + 1] EXCEPT !.row = 0]
                  EXCEPT !.delta = 0] EXCEPT !.todo = {}]
        BY <2>3
      <3>2. "lines" \in Steps /\ 0 \in Nat /\ 0 \in Int
        BY FieldFacts
      <3>3. QED
        BY ONLY o \in Tx, <2>4, <3>1, <3>2, TxWith
    <2>6. Same(o, n) /\ SameStock(o, n) /\ SameGoods(o, n) /\ n.kept = o.kept
      BY <2>3 DEF Tx, Same, SameStock, SameGoods
    <2>7. ToNextLine(o, n)
      BY <2>3 DEF Tx, ToNextLine
    <2>8. QED
      BY <1>3, <2>1, <2>2, <2>5, <2>6, <2>7 DEF Advance
  <1>4. QED
    BY <1>1, <1>2, <1>3

\* The transaction of an actor.
LEMMA TxFacts ==
  ASSUME FormIInv, NEW x \in Actors
  PROVE  tx[x] \in Tx /\ TxOK(tx[x], stock, resources)
  BY DEF FormIInv, InventoryTypeOK

\* The rows and resources a statement sees.
LEMMA CommittedFacts ==
  ASSUME FormIInv
  PROVE  /\ stock \in Seq(Row) /\ Len(stock) \in Nat /\ Rows = 1..Len(stock)
         /\ \A r \in Rows : r \in Nat \ {0} /\ stock[r] \in Row /\ stock[r].quantity \in Int
         /\ resources \in Seq(Resource) /\ Len(resources) \in Nat
  <1>1. stock \in Seq(Row) /\ resources \in Seq(Resource)
    BY DEF FormIInv, InventoryTypeOK
  <1>2. \A r \in Rows : r \in Nat \ {0} /\ stock[r] \in Row
    BY <1>1 DEF Rows
  <1>3. QED
    BY <1>1, <1>2 DEF Row, Rows

\* A transaction that goes on from a line is as it should be.
LEMMA AdvanceOK ==
  ASSUME NEW o \in Tx, NEW n \in Tx, NEW rows, NEW goods, TxOK(o, rows, goods),
         Same(o, n), SameGoods(o, n), Advance(o, n) \/ (ToNextLine(o, n) /\ o.op # "adjust"),
         o.step \in {"read", "serials"} \/ (o.op \in {"sale", "approve"} /\ o.step = "lines"),
         o.op = "sale" => o.line <= Len(Lines(o)),
         DOMAIN n.moves \subseteq 1..Len(rows), DOMAIN n.kept \subseteq 1..Len(rows)
  PROVE  TxOK(n, rows, goods)
  <1>1. o.op \in {"adjust", "sale", "approve"} /\ o # NoTx
    BY NoTxFacts DEF TxOK, Shape
  <1>2. CASE o.op = "adjust"
    <2>1. n.op = "adjust" /\ n.step = "ready" /\ n.row = o.row /\ n.ref = NoRef /\ n.status = "NONE"
      BY <1>1, <1>2 DEF Advance, Same, TxOK, Shape, StatusSet
    <2>2. Shape(n) /\ StatusSet(n)
      BY <2>1 DEF Shape, StatusSet
    <2>3. Sited(n, rows, goods)
      BY <1>2, <2>1 DEF Sited, TxOK, Same, SameGoods
    <2>4. QED
      BY <2>2, <2>3 DEF TxOK
  <1>3. CASE o.op # "adjust"
    <2>1. n.op = o.op /\ n.ref = o.ref /\ n.row = 0 /\ n.status = "NONE"
      BY <1>1, <1>3 DEF Advance, ToNextLine, Same, TxOK, Shape, StatusSet
    <2>2. n.step = "lines" \/ (n.op = "sale" /\ n.step = "serials" /\ n.line = o.line)
      BY <1>1, <1>3, <2>1 DEF Advance, ToNextLine
    <2>3. Shape(n) /\ StatusSet(n)
      BY <1>1, <1>3, <2>1, <2>2 DEF Shape, StatusSet, TxOK
    <2>4. Sited(n, rows, goods)
      BY <1>1, <1>3, <2>1, <2>2 DEF Sited, TxOK, Same, SameGoods, Lines
    <2>5. QED
      BY <2>3, <2>4 DEF TxOK
  <1>4. QED
    BY <1>2, <1>3

\* The update of a quantity (adjust_stock).
LEMMA AdjustEffect ==
  ASSUME FormIInv, NEW x \in Actors, AdjustQuantity(x)
  PROVE  \E n \in Tx :
           /\ Goes(x, n) /\ TxOK(n, stock, resources)
           /\ tx[x].step = "read" /\ tx[x].row \in Rows /\ RowFree(x, tx[x].row)
           /\ Same(tx[x], n) /\ SameGoods(tx[x], n) /\ n.made = tx[x].made
           /\ n.moves = Plus(tx[x].moves, tx[x].row, tx[x].delta)
           /\ Advance(tx[x], n)
  <1>1. PICK o \in Tx : o = tx[x] /\ TxOK(o, stock, resources)
    BY TxFacts
  <1>2. o.step = "read" /\ RowFree(x, o.row) /\ o # NoTx
    BY <1>1, NoTxFacts DEF AdjustQuantity
  <1>3. o.op = "sale" => o.ref \in SaleRefs /\ o.line <= Len(Lines(o))
    BY <1>1, <1>2 DEF TxOK, Shape, Sited
  <1>4. PICK a \in Tx : /\ a = AfterAdjust(o) /\ Same(o, a) /\ SameStock(o, a)
                        /\ SameGoods(o, a) /\ Advance(o, a)
    BY <1>3, AdvanceEffect
  <1>5. o.row \in Rows /\ o.row \in Nat /\ o.delta \in Int /\ o.moves \in Moves
    BY <1>1, <1>2 DEF TxOK, Sited, Rows, Tx
  <1>6. PICK m : m = Plus(o.moves, o.row, o.delta)
    OBVIOUS
  <1>7. m \in Moves /\ DOMAIN m = DOMAIN o.moves \cup {o.row}
    BY ONLY <1>5, <1>6, PlusFacts
  <1>8. PICK n : n = [a EXCEPT !.moves = m]
    OBVIOUS
  <1>9. n \in Tx
    BY <1>7, <1>8, TxWith
  <1>10. a.moves = o.moves
    BY <1>4 DEF SameStock
  <1>11. Goes(x, n)
    <2>1. Move(x, a, o.delta) = n
      BY <1>1, <1>6, <1>8, <1>10 DEF Move, Tx
    <2>2. QED
      BY <1>1, <1>4, <2>1 DEF AdjustQuantity
  <1>12. /\ n.op = a.op /\ n.ref = a.ref /\ n.step = a.step /\ n.line = a.line /\ n.row = a.row
         /\ n.delta = a.delta /\ n.kept = a.kept /\ n.made = a.made /\ n.status = a.status /\ n.todo = a.todo
         /\ n.marked = a.marked /\ n.registered = a.registered /\ n.known = a.known /\ n.moves = m
    BY <1>8 DEF Tx
  <1>13. Same(o, n) /\ SameGoods(o, n) /\ n.made = o.made
    BY <1>4, <1>12 DEF Same, SameGoods, SameStock
  <1>14. Advance(o, n)
    BY <1>4, <1>12 DEF Advance, ToNextLine
  <1>15. DOMAIN n.moves \subseteq 1..Len(stock) /\ DOMAIN n.kept \subseteq 1..Len(stock)
    BY <1>1, <1>2, <1>5, <1>7, <1>12, <1>13 DEF TxOK, Sited, Rows, Same
  <1>16. TxOK(n, stock, resources)
    <2>1. Advance(o, n) \/ (ToNextLine(o, n) /\ o.op # "adjust")
      BY <1>14
    <2>2. o.step \in {"read", "serials"} \/ (o.op \in {"sale", "approve"} /\ o.step = "lines")
      BY <1>2
    <2>3. TxOK(o, stock, resources) /\ Same(o, n) /\ SameGoods(o, n)
      BY <1>1, <1>13
    <2>4. o.op = "sale" => o.line <= Len(Lines(o))
      BY <1>3
    <2>5. QED
      BY ONLY <1>9, <1>15, <2>1, <2>2, <2>3, <2>4, AdvanceOK
  <1>17. QED
    BY <1>1, <1>2, <1>5, <1>6, <1>9, <1>11, <1>12, <1>13, <1>14, <1>16

\* What a line changes leaves a quantity that is not negative so.
LEMMA ChangeFacts ==
  ASSUME NEW o \in Tx, NEW q \in Int, o.line <= Len(Lines(o)),
         (o.op = "sale" /\ o.ref \in SaleRefs) \/ (o.op = "approve" /\ o.ref \in Counts)
  PROVE  /\ Change(o, q) \in Int
         /\ q >= 0 => q + Change(o, q) >= 0
         /\ Product(o) \in Products
  <1>1. CASE o.op = "sale" /\ o.ref \in SaleRefs
    <2>1. Lines(o) \in Seq(SaleLine)
      BY <1>1, LinesFacts
    <2>2. o.line \in 1..Len(Lines(o))
      BY <2>1 DEF Tx
    <2>3. Lines(o)[o.line] \in SaleLine
      BY <2>1, <2>2
    <2>4. PICK wanted \in Nat : wanted = Lines(o)[o.line].quantity
      BY <2>3 DEF SaleLine
    <2>5. Change(o, q) = -(IF wanted <= q THEN wanted ELSE q)
      BY <1>1, <2>4 DEF Change, AtMost
    <2>6. Product(o) \in Products
      BY <2>3 DEF Product, SaleLine
    <2>7. QED
      BY <2>5, <2>6
  <1>2. CASE o.op = "approve" /\ o.ref \in Counts
    <2>1. Lines(o) \in Seq(ReconciliationItem)
      BY <1>2, LinesFacts
    <2>2. o.line \in 1..Len(Lines(o))
      BY <2>1 DEF Tx
    <2>3. Lines(o)[o.line] \in ReconciliationItem
      BY <2>1, <2>2
    <2>4. PICK variance \in Int : variance = Lines(o)[o.line].variance
      BY <2>3 DEF ReconciliationItem
    <2>5. Change(o, q) = IF q + variance < 0 THEN 0 ELSE variance
      BY <1>2, <2>4 DEF Change
    <2>6. Product(o) \in Products
      BY <2>3 DEF Product, ReconciliationItem
    <2>7. QED
      BY <2>5, <2>6
  <1>3. QED
    BY <1>1, <1>2

\* A transaction at one of the lines of its sale or count.
LEMMA AtLineFacts ==
  ASSUME FormIInv, NEW x \in Actors, NEW o, o = tx[x], AtLine(x)
  PROVE  /\ o.op \in {"sale", "approve"} /\ o.step = "lines" /\ o.line <= Len(Lines(o))
         /\ (o.op = "sale" /\ o.ref \in SaleRefs) \/ (o.op = "approve" /\ o.ref \in Counts)
  BY TxFacts, NoTxFacts DEF AtLine, TxOK, Shape

\* What a transaction adds to a row.
LEMMA MovedFacts ==
  ASSUME NEW t \in Tx
  PROVE  /\ \A r : Moved(t, r) \in Int
         /\ \A r \in DOMAIN t.moves : r \in Nat /\ t.moves[r] \in Int /\ Moved(t, r) = t.moves[r]
         /\ \A r : r \notin DOMAIN t.moves => Moved(t, r) = 0
  <1>1. PICK rows \in SUBSET Nat : t.moves \in [rows -> Int]
    BY DEF Tx, Moves
  <1>2. \A r \in DOMAIN t.moves : r \in Nat /\ t.moves[r] \in Int
    BY <1>1
  <1>3. QED
    BY <1>2 DEF Moved

\* The rows a line finds are read, or kept as they were read before.
LEMMA ListedFacts ==
  ASSUME FormIInv, NEW x \in Actors, NEW o \in Tx, o = tx[x], AtLine(x), NEW again \in BOOLEAN
  PROVE  LET t == Listed(o, again) IN
           /\ t \in Tx /\ TxOK(t, stock, resources)
           /\ t.op = o.op /\ t.ref = o.ref /\ t.known = o.known /\ t.step = o.step
           /\ t.line = o.line /\ t.row = o.row /\ t.delta = o.delta /\ t.status = o.status
           /\ SameStock(o, t) /\ SameGoods(o, t)
           /\ DOMAIN t.kept = DOMAIN o.kept \cup RowsOf(Product(o))
           /\ \A r \in DOMAIN t.kept : \/ t.kept[r] = stock[r].quantity
                                       \/ r \in DOMAIN o.kept /\ t.kept[r] = o.kept[r]
  <1>1. TxOK(o, stock, resources) /\ o.op \in {"sale", "approve"} /\ o.step = "lines"
    BY TxFacts, AtLineFacts
  <1>2. PICK old \in SUBSET Nat : o.kept \in [old -> Int]
    BY DEF Tx, Moves
  <1>3. old = DOMAIN o.kept /\ old \subseteq Rows
    BY <1>1, <1>2 DEF TxOK, Sited, Rows
  <1>4. PICK new \in SUBSET Nat : new = old \cup RowsOf(Product(o)) /\ new \subseteq Rows
    BY <1>3, CommittedFacts DEF RowsOf
  <1>5. PICK k : k = [r \in new |-> IF r \in old /\ ~(again /\ r \in RowsOf(Product(o)))
                                 THEN o.kept[r] ELSE stock[r].quantity]
    OBVIOUS
  <1>6. \A r \in new : k[r] \in Int /\ (k[r] = stock[r].quantity \/ (r \in old /\ k[r] = o.kept[r]))
    BY <1>2, <1>4, <1>5, CommittedFacts
  <1>7. k \in Moves /\ DOMAIN k = new
    <2>1. k \in [new -> Int] /\ DOMAIN k = new
      BY <1>5, <1>6
    <2>2. QED
      BY <2>1 DEF Moves
  <1>8. PICK t : t = [o EXCEPT !.kept = k]
    OBVIOUS
  <1>9. Listed(o, again) = t
    BY <1>3, <1>4, <1>5, <1>8 DEF Listed, Tx
  <1>10. t \in Tx
    BY <1>7, <1>8, TxWith
  <1>11. /\ t.op = o.op /\ t.ref = o.ref /\ t.known = o.known /\ t.step = o.step
         /\ t.line = o.line /\ t.row = o.row /\ t.delta = o.delta /\ t.status = o.status
         /\ SameStock(o, t) /\ SameGoods(o, t) /\ t.kept = k
    BY <1>8 DEF Tx, SameStock, SameGoods
  <1>12. Shape(t) /\ StatusSet(t)
    BY <1>1, <1>11, NoTxFacts DEF TxOK, Shape, StatusSet
  <1>13. Sited(t, stock, resources)
    BY <1>1, <1>4, <1>7, <1>11 DEF TxOK, Sited, SameStock, SameGoods, Rows
  <1>14. QED
    BY <1>3, <1>4, <1>6, <1>7, <1>9, <1>10, <1>11, <1>12, <1>13 DEF TxOK

\* What a line sees of a row, with what the transaction has done to it.
LEMMA SeesFacts ==
  ASSUME NEW t \in Tx, NEW r \in DOMAIN t.kept
  PROVE  Sees(t, r) \in Int /\ t.kept[r] \in Int /\ Moved(t, r) \in Int
         /\ Sees(t, r) = t.kept[r] + Moved(t, r)
  <1>1. t.kept[r] \in Int
    <2>1. PICK rows \in SUBSET Nat : t.kept \in [rows -> Int]
      BY DEF Tx, Moves
    <2>2. QED
      BY <2>1
  <1>2. Moved(t, r) \in Int
    BY MovedFacts
  <1>3. QED
    BY <1>1, <1>2 DEF Sees

\* A line finds the row it adjusts.
LEMMA LineReadEffect ==
  ASSUME FormIInv, NEW x \in Actors, LineRead(x)
  PROVE  \E n \in Tx, r \in Rows :
           /\ Goes(x, n) /\ TxOK(n, stock, resources)
           /\ tx[x].op \in {"sale", "approve"} /\ tx[x].step = "lines"
           /\ tx[x].line <= Len(Lines(tx[x]))
           /\ stock[r].product = Product(tx[x])
           /\ Same(tx[x], n) /\ SameStock(tx[x], n) /\ SameGoods(tx[x], n)
           /\ n.step = "read" /\ n.line = tx[x].line /\ n.row = r /\ n.status = tx[x].status
           /\ r \in DOMAIN n.kept /\ n.delta = Change(tx[x], n.kept[r] + Moved(tx[x], r))
           /\ \A q \in DOMAIN n.kept : \/ n.kept[q] = stock[q].quantity
                                       \/ q \in DOMAIN tx[x].kept /\ n.kept[q] = tx[x].kept[q]
  <1>1. PICK o \in Tx : o = tx[x] /\ TxOK(o, stock, resources)
    BY TxFacts
  <1>2. AtLine(x)
    BY DEF LineRead
  <1>3. PICK again \in BOOLEAN, r \in RowsOf(Product(o)) :
          LET t == Listed(o, again) IN
            Goes(x, [t EXCEPT !.step = "read", !.row = r, !.delta = Change(t, Sees(t, r))])
    BY <1>1 DEF LineRead
  <1>4. PICK t \in Tx :
          /\ t = Listed(o, again) /\ TxOK(t, stock, resources)
          /\ t.op = o.op /\ t.ref = o.ref /\ t.known = o.known /\ t.step = o.step
          /\ t.line = o.line /\ t.status = o.status
          /\ SameStock(o, t) /\ SameGoods(o, t)
          /\ DOMAIN t.kept = DOMAIN o.kept \cup RowsOf(Product(o))
          /\ \A q \in DOMAIN t.kept : \/ t.kept[q] = stock[q].quantity
                                      \/ q \in DOMAIN o.kept /\ t.kept[q] = o.kept[q]
    BY <1>1, <1>2, ListedFacts
  <1>5. r \in Rows /\ stock[r].product = Product(o) /\ r \in DOMAIN t.kept
    BY <1>3, <1>4 DEF RowsOf
  <1>6. /\ o.op \in {"sale", "approve"} /\ o.step = "lines" /\ o.line <= Len(Lines(o))
        /\ (o.op = "sale" /\ o.ref \in SaleRefs) \/ (o.op = "approve" /\ o.ref \in Counts)
    BY <1>1, <1>2, AtLineFacts
  <1>7. PICK q \in Int : q = Sees(t, r) /\ q = t.kept[r] + Moved(o, r)
    BY <1>4, <1>5, SeesFacts DEF SameStock, Moved
  <1>8. PICK d \in Int : d = Change(o, q)
    BY <1>6, ChangeFacts
  <1>9. Change(t, Sees(t, r)) = d
    BY <1>4, <1>7, <1>8 DEF Change, Lines
  <1>10. PICK n : n = [t EXCEPT !.step = "read", !.row = r, !.delta = d]
    OBVIOUS
  <1>11. n \in Tx
    <2>1. n = [[[t EXCEPT !.step = "read"] EXCEPT !.row = r] EXCEPT !.delta = d]
      BY <1>10
    <2>2. "read" \in Steps /\ r \in Nat
      BY <1>5, FieldFacts, CommittedFacts
    <2>3. QED
      BY ONLY t \in Tx, d \in Int, <2>1, <2>2, TxWith
  <1>12. Same(o, n) /\ SameStock(o, n) /\ SameGoods(o, n)
    BY <1>4, <1>6, <1>10 DEF Tx, Same, SameStock, SameGoods
  <1>13. /\ n.step = "read" /\ n.row = r /\ n.delta = d /\ n.line = o.line /\ n.status = o.status
         /\ n.kept = t.kept
    BY <1>4, <1>10 DEF Tx
  <1>14. Shape(n) /\ StatusSet(n)
    BY <1>1, <1>6, <1>12, <1>13 DEF Same, Shape, StatusSet, TxOK
  <1>15. Sited(n, stock, resources)
    <2>1. r \in 1..Len(stock) /\ r # 0
      BY <1>5, CommittedFacts
    <2>2. DOMAIN n.kept \subseteq 1..Len(stock)
      BY <1>4, <1>13 DEF TxOK, Sited
    <2>3. QED
      BY <1>1, <1>6, <1>12, <1>13, <2>1, <2>2 DEF Sited, TxOK, Same, SameStock, SameGoods, Lines
  <1>16. Goes(x, n)
    BY <1>3, <1>4, <1>9, <1>10
  <1>17. QED
    BY <1>1, <1>4, <1>5, <1>6, <1>7, <1>8, <1>11, <1>12, <1>13, <1>14, <1>15, <1>16 DEF TxOK

\* A line is left out, with its serial numbers, or changes nothing.
LEMMA LineSkippedEffect ==
  ASSUME FormIInv, NEW x \in Actors, LineSkipped(x)
  PROVE  \E n \in Tx :
           /\ Goes(x, n) /\ TxOK(n, stock, resources)
           /\ tx[x].op \in {"sale", "approve"} /\ tx[x].step = "lines"
           /\ tx[x].line <= Len(Lines(tx[x]))
           /\ Same(tx[x], n) /\ SameStock(tx[x], n) /\ SameGoods(tx[x], n)
           /\ \/ RowsOf(Product(tx[x])) = {} /\ ToNextLine(tx[x], n)
              \/ Advance(tx[x], n)
           /\ \A q \in DOMAIN n.kept : \/ n.kept[q] = stock[q].quantity
                                       \/ q \in DOMAIN tx[x].kept /\ n.kept[q] = tx[x].kept[q]
  <1>1. PICK o \in Tx : o = tx[x] /\ TxOK(o, stock, resources)
    BY TxFacts
  <1>2. /\ o.op \in {"sale", "approve"} /\ o.step = "lines" /\ o.line <= Len(Lines(o))
        /\ (o.op = "sale" /\ o.ref \in SaleRefs) \/ (o.op = "approve" /\ o.ref \in Counts)
    BY <1>1, AtLineFacts DEF LineSkipped
  <1>3. \E n \in Tx :
          /\ Goes(x, n) /\ Same(o, n) /\ SameStock(o, n) /\ SameGoods(o, n)
          /\ \/ RowsOf(Product(o)) = {} /\ ToNextLine(o, n)
             \/ Advance(o, n)
          /\ DOMAIN n.kept \subseteq 1..Len(stock)
          /\ \A q \in DOMAIN n.kept : \/ n.kept[q] = stock[q].quantity
                                      \/ q \in DOMAIN o.kept /\ n.kept[q] = o.kept[q]
    <2>1. CASE RowsOf(Product(o)) = {} /\ Goes(x, NextLine(o))
      <3>1. PICK n : n = [o EXCEPT !.step = "lines", !.line = o.line + 1, !.row = 0, !.delta = 0,
                                   !.todo = {}]
        OBVIOUS
      <3>2. NextLine(o) = n
        BY <3>1 DEF NextLine, Tx
      <3>3. n \in Tx
        <4>1. n = [[[[[o EXCEPT !.step = "lines"] EXCEPT !.line = o.line + 1] EXCEPT !.row = 0]
                    EXCEPT !.delta = 0] EXCEPT !.todo = {}]
          BY <3>1
        <4>2. "lines" \in Steps /\ 0 \in Nat /\ 0 \in Int /\ {} \in SUBSET Serials
          BY FieldFacts
        <4>3. o.line + 1 \in Nat \ {0}
          BY DEF Tx
        <4>4. QED
          BY ONLY o \in Tx, <4>1, <4>2, <4>3, TxWith
      <3>4. Same(o, n) /\ SameStock(o, n) /\ SameGoods(o, n) /\ n.kept = o.kept
        BY <3>1 DEF Tx, Same, SameStock, SameGoods
      <3>5. ToNextLine(o, n)
        BY <3>1 DEF Tx, ToNextLine
      <3>6. DOMAIN n.kept \subseteq 1..Len(stock)
        BY <1>1, <3>4 DEF TxOK, Sited
      <3>7. QED
        BY <2>1, <3>2, <3>3, <3>4, <3>5, <3>6
    <2>2. ASSUME NEW again \in BOOLEAN, Goes(x, AfterAdjust(Listed(o, again)))
          PROVE  \E n \in Tx :
                   /\ Goes(x, n) /\ Same(o, n) /\ SameStock(o, n) /\ SameGoods(o, n)
                   /\ Advance(o, n) /\ DOMAIN n.kept \subseteq 1..Len(stock)
                   /\ \A q \in DOMAIN n.kept : \/ n.kept[q] = stock[q].quantity
                                               \/ q \in DOMAIN o.kept /\ n.kept[q] = o.kept[q]
      <3>1. PICK t \in Tx :
              /\ t = Listed(o, again) /\ TxOK(t, stock, resources)
              /\ t.op = o.op /\ t.ref = o.ref /\ t.known = o.known /\ t.step = o.step
              /\ t.line = o.line /\ t.row = o.row /\ t.delta = o.delta /\ t.status = o.status
              /\ SameStock(o, t) /\ SameGoods(o, t)
              /\ \A q \in DOMAIN t.kept : \/ t.kept[q] = stock[q].quantity
                                          \/ q \in DOMAIN o.kept /\ t.kept[q] = o.kept[q]
        BY <1>1, <2>2, ListedFacts DEF LineSkipped
      <3>2. SerialsOf(t) = SerialsOf(o) /\ Lines(t) = Lines(o)
        BY <3>1 DEF SerialsOf, Lines
      <3>3. t.op = "sale" => t.ref \in SaleRefs /\ t.line <= Len(Lines(t))
        BY <1>2, <3>1, <3>2
      <3>4. PICK n \in Tx : /\ n = AfterAdjust(t) /\ Same(t, n) /\ SameStock(t, n)
                            /\ SameGoods(t, n) /\ Advance(t, n) /\ n.kept = t.kept
        BY <3>3, AdvanceEffect
      <3>5. Advance(o, n)
        BY <3>1, <3>2, <3>4 DEF Advance, ToNextLine
      <3>6. Same(o, n) /\ SameStock(o, n) /\ SameGoods(o, n)
        BY <1>2, <3>1, <3>4 DEF Same, SameStock, SameGoods
      <3>7. DOMAIN n.kept \subseteq 1..Len(stock)
        BY <3>1, <3>4 DEF TxOK, Sited
      <3>8. QED
        BY <2>2, <3>1, <3>4, <3>5, <3>6, <3>7
    <2>3. QED
      BY <1>1, <2>1, <2>2 DEF LineSkipped
  <1>4. PICK n \in Tx :
          /\ Goes(x, n) /\ Same(o, n) /\ SameStock(o, n) /\ SameGoods(o, n)
          /\ \/ RowsOf(Product(o)) = {} /\ ToNextLine(o, n)
             \/ Advance(o, n)
          /\ DOMAIN n.kept \subseteq 1..Len(stock)
          /\ \A q \in DOMAIN n.kept : \/ n.kept[q] = stock[q].quantity
                                      \/ q \in DOMAIN o.kept /\ n.kept[q] = o.kept[q]
    BY <1>3
  <1>5. TxOK(n, stock, resources)
    <2>1. Advance(o, n) \/ (ToNextLine(o, n) /\ o.op # "adjust")
      BY <1>2, <1>4
    <2>2. o.step \in {"read", "serials"} \/ (o.op \in {"sale", "approve"} /\ o.step = "lines")
      BY <1>2
    <2>3. TxOK(o, stock, resources) /\ Same(o, n) /\ SameGoods(o, n)
      BY <1>1, <1>4
    <2>4. o.op = "sale" => o.line <= Len(Lines(o))
      BY <1>2
    <2>5. DOMAIN n.moves \subseteq 1..Len(stock) /\ DOMAIN n.kept \subseteq 1..Len(stock)
      BY <1>1, <1>4 DEF SameStock, TxOK, Sited
    <2>6. QED
      BY ONLY n \in Tx, o \in Tx, <2>1, <2>2, <2>3, <2>4, <2>5, AdvanceOK
  <1>6. QED
    BY <1>1, <1>2, <1>4, <1>5

\* All lines of a count are applied.
LEMMA LinesAppliedEffect ==
  ASSUME FormIInv, NEW x \in Actors, LinesApplied(x)
  PROVE  \E n \in Tx :
           /\ Goes(x, n) /\ TxOK(n, stock, resources)
           /\ tx[x].op = "approve" /\ n.step = "status" /\ n.line = tx[x].line /\ n.kept = tx[x].kept
           /\ Same(tx[x], n) /\ SameStock(tx[x], n) /\ SameGoods(tx[x], n)
  <1>1. PICK o \in Tx : o = tx[x] /\ TxOK(o, stock, resources)
    BY TxFacts
  <1>2. PICK n : n = [o EXCEPT !.step = "status"]
    OBVIOUS
  <1>3. o.op = "approve" /\ o.step = "lines" /\ Goes(x, n)
    BY <1>1, <1>2 DEF LinesApplied
  <1>4. n \in Tx
    BY <1>2, FieldFacts, TxWith
  <1>5. Same(o, n) /\ SameStock(o, n) /\ SameGoods(o, n)
    BY <1>2 DEF Tx, Same, SameStock, SameGoods
  <1>6. n.step = "status" /\ n.kept = o.kept /\ n.row = o.row /\ n.line = o.line /\ n.status = o.status
    BY <1>2 DEF Tx
  <1>7. TxOK(n, stock, resources)
    BY <1>1, <1>3, <1>5, <1>6, NoTxFacts DEF TxOK, Shape, Sited, StatusSet, Same, SameStock, SameGoods
  <1>8. QED
    BY <1>1, <1>3, <1>4, <1>5, <1>6, <1>7

\* What transfers and receipts are of.
LEMMA DocumentFacts ==
  /\ \A t \in Transfers : /\ TransferOf[t].product \in Products
                          /\ TransferOf[t].from \in Locations /\ TransferOf[t].to \in Locations
                          /\ TransferOf[t].quantity \in Nat
  /\ \A g \in Receipts : /\ ReceiptOf[g].product \in Products /\ ReceiptOf[g].location \in Locations
                         /\ ReceiptOf[g].quantity \in Nat
                         /\ ReceiptOf[g].serials \subseteq Serials /\ IsFiniteSet(ReceiptOf[g].serials)
  <1>1. ASSUME NEW t \in Transfers
        PROVE  TransferOf[t] \in TransferCreate
    BY InventoryAssumption DEF InventoryAssumption
  <1>2. ASSUME NEW g \in Receipts
        PROVE  ReceiptOf[g] \in GoodsReceiptCreate /\ IsFiniteSet(ReceiptOf[g].serials)
    BY InventoryAssumption DEF InventoryAssumption
  <1>3. QED
    BY <1>1, <1>2 DEF TransferCreate, GoodsReceiptCreate

\* A transfer finds the row it takes from.
LEMMA SourceReadEffect ==
  ASSUME FormIInv, NEW x \in Actors, SourceRead(x)
  PROVE  \E n \in Tx, r \in Rows :
           /\ Goes(x, n) /\ TxOK(n, stock, resources)
           /\ tx[x].op = "transfer" /\ tx[x].step = "source"
           /\ stock[r].product = TransferOf[tx[x].ref].product
           /\ stock[r].quantity >= TransferOf[tx[x].ref].quantity
           /\ Same(tx[x], n) /\ SameStock(tx[x], n) /\ SameGoods(tx[x], n)
           /\ n.step = "debit" /\ n.row = r
  <1>1. PICK o \in Tx : o = tx[x] /\ TxOK(o, stock, resources)
    BY TxFacts
  <1>2. PICK r \in RowsAt(TransferOf[o.ref].product, TransferOf[o.ref].from) :
          /\ stock[r].quantity >= TransferOf[o.ref].quantity
          /\ Goes(x, [o EXCEPT !.step = "debit", !.row = r])
    BY <1>1 DEF SourceRead
  <1>3. r \in Rows /\ stock[r].product = TransferOf[o.ref].product
    BY <1>2 DEF RowsAt, RowsOf
  <1>4. o.op = "transfer" /\ o.step = "source" /\ o.ref \in Transfers
    BY <1>1, NoTxFacts DEF SourceRead, TxOK, Shape
  <1>5. PICK n : n = [o EXCEPT !.step = "debit", !.row = r]
    OBVIOUS
  <1>6. n \in Tx
    <2>1. n = [[o EXCEPT !.step = "debit"] EXCEPT !.row = r]
      BY <1>5
    <2>2. "debit" \in Steps /\ r \in Nat
      BY <1>3, FieldFacts, CommittedFacts
    <2>3. QED
      BY ONLY o \in Tx, <2>1, <2>2, TxWith
  <1>7. Same(o, n) /\ SameStock(o, n) /\ SameGoods(o, n)
    BY <1>5 DEF Tx, Same, SameStock, SameGoods
  <1>8. n.step = "debit" /\ n.row = r /\ n.status = o.status
    BY <1>5 DEF Tx
  <1>9. Shape(n) /\ StatusSet(n)
    BY <1>1, <1>4, <1>7, <1>8 DEF Same, Shape, StatusSet, TxOK
  <1>10. Sited(n, stock, resources)
    <2>1. r \in 1..Len(stock) /\ r # 0
      BY <1>3, CommittedFacts
    <2>2. QED
      BY <1>1, <1>4, <1>7, <1>8, <2>1 DEF Sited, TxOK, Same, SameStock, SameGoods
  <1>11. QED
    BY <1>1, <1>2, <1>3, <1>4, <1>5, <1>6, <1>7, <1>8, <1>9, <1>10 DEF TxOK

\* A transfer takes from it.
LEMMA DebitEffect ==
  ASSUME FormIInv, NEW x \in Actors, Debit(x)
  PROVE  \E n \in Tx :
           /\ Goes(x, n) /\ TxOK(n, stock, resources)
           /\ tx[x].op = "transfer" /\ tx[x].step = "debit"
           /\ tx[x].row \in Rows /\ RowFree(x, tx[x].row)
           /\ Same(tx[x], n) /\ SameGoods(tx[x], n) /\ n.made = tx[x].made
           /\ n.step = "credit"
           /\ n.moves = Plus(tx[x].moves, tx[x].row, -TransferOf[tx[x].ref].quantity)
  <1>1. PICK o \in Tx : o = tx[x] /\ TxOK(o, stock, resources)
    BY TxFacts
  <1>2. /\ o.op = "transfer" /\ o.step = "debit" /\ o.ref \in Transfers
        /\ o.row \in Rows /\ RowFree(x, o.row)
    BY <1>1, NoTxFacts DEF Debit, TxOK, Shape, Sited, Rows
  <1>3. PICK q \in Int : q = -TransferOf[o.ref].quantity
    BY <1>2, DocumentFacts
  <1>4. PICK a : a = [o EXCEPT !.step = "credit", !.row = 0]
    OBVIOUS
  <1>5. PICK m : m = Plus(o.moves, o.row, q)
    OBVIOUS
  <1>6. m \in Moves /\ DOMAIN m = DOMAIN o.moves \cup {o.row}
    <2>1. PICK r \in Nat : r = o.row
      BY DEF Tx
    <2>2. PICK moves \in Moves : moves = o.moves
      BY DEF Tx
    <2>3. Plus(moves, r, q) \in Moves /\ DOMAIN Plus(moves, r, q) = DOMAIN moves \cup {r}
      BY PlusFacts
    <2>4. QED
      BY <1>5, <2>1, <2>2, <2>3
  <1>7. PICK n : n = [a EXCEPT !.moves = m]
    OBVIOUS
  <1>8. a \in Tx
    <2>1. a = [[o EXCEPT !.step = "credit"] EXCEPT !.row = 0]
      BY <1>4
    <2>2. "credit" \in Steps /\ 0 \in Nat
      BY FieldFacts
    <2>3. QED
      BY ONLY o \in Tx, <2>1, <2>2, TxWith
  <1>9. n \in Tx
    BY <1>6, <1>7, <1>8, TxWith
  <1>10. Same(o, a) /\ SameStock(o, a) /\ SameGoods(o, a) /\ a.step = "credit" /\ a.row = 0
         /\ a.status = o.status /\ a.kept = o.kept
    BY <1>4 DEF Tx, Same, SameStock, SameGoods
  <1>11. Goes(x, n)
    <2>1. Move(x, a, q) = n
      BY <1>1, <1>5, <1>7, <1>8, <1>10 DEF Move, Tx, SameStock
    <2>2. QED
      BY <1>1, <1>3, <1>4, <2>1 DEF Debit
  <1>12. /\ n.op = a.op /\ n.ref = a.ref /\ n.step = a.step /\ n.row = a.row /\ n.made = a.made
         /\ n.status = a.status /\ n.marked = a.marked /\ n.registered = a.registered
         /\ n.known = a.known /\ n.moves = m /\ n.kept = a.kept
    BY <1>7, <1>8 DEF Tx
  <1>13. Same(o, n) /\ SameGoods(o, n) /\ n.made = o.made /\ n.step = "credit" /\ n.row = 0
         /\ n.status = o.status
    BY <1>10, <1>12 DEF Same, SameGoods, SameStock
  <1>14. Shape(n) /\ StatusSet(n)
    BY <1>1, <1>2, <1>13 DEF Same, Shape, StatusSet, TxOK
  <1>15. Sited(n, stock, resources)
    BY <1>1, <1>2, <1>6, <1>12, <1>13 DEF Sited, TxOK, Same, SameGoods, Rows
  <1>16. QED
    BY <1>1, <1>2, <1>3, <1>5, <1>9, <1>11, <1>12, <1>13, <1>14, <1>15 DEF TxOK

\* What comes in, where and how much.
LEMMA IncomingFacts ==
  ASSUME NEW o \in Tx,
         (o.op = "transfer" /\ o.ref \in Transfers) \/ (o.op = "receive" /\ o.ref \in Receipts)
  PROVE  /\ Incoming(o).product \in Products /\ Incoming(o).location \in Locations
         /\ Incoming(o).quantity \in Nat
         /\ o.op = "transfer" => /\ Incoming(o).product = TransferOf[o.ref].product
                                 /\ Incoming(o).quantity = TransferOf[o.ref].quantity
         /\ o.op = "receive" => /\ Incoming(o).product = ReceiptOf[o.ref].product
                                /\ Incoming(o).quantity = ReceiptOf[o.ref].quantity
  <1>1. CASE o.op = "transfer" /\ o.ref \in Transfers
    BY <1>1, DocumentFacts DEF Incoming
  <1>2. CASE o.op = "receive" /\ o.ref \in Receipts
    BY <1>2, DocumentFacts DEF Incoming
  <1>3. QED
    BY <1>1, <1>2

\* A transfer or a receipt that has come to its credit.
LEMMA AtCreditFacts ==
  ASSUME FormIInv, NEW x \in Actors, NEW o, o = tx[x], o.step \in {"credit", "deposit"}
  PROVE  (o.op = "transfer" /\ o.ref \in Transfers) \/ (o.op = "receive" /\ o.ref \in Receipts)
  BY TxFacts, NoTxFacts DEF TxOK, Shape

\* A credit finds the row it goes to.
LEMMA CreditReadEffect ==
  ASSUME FormIInv, NEW x \in Actors, CreditRead(x)
  PROVE  \E n \in Tx, r \in Rows :
           /\ Goes(x, n) /\ TxOK(n, stock, resources)
           /\ tx[x].op \in {"transfer", "receive"} /\ tx[x].step = "credit"
           /\ stock[r].product = Incoming(tx[x]).product
           /\ Same(tx[x], n) /\ SameStock(tx[x], n) /\ SameGoods(tx[x], n)
           /\ n.step = "deposit" /\ n.row = r
  <1>1. PICK o \in Tx : o = tx[x] /\ TxOK(o, stock, resources)
    BY TxFacts
  <1>2. PICK r \in RowsAt(Incoming(o).product, Incoming(o).location) :
          Goes(x, [o EXCEPT !.step = "deposit", !.row = r])
    BY <1>1 DEF CreditRead
  <1>3. r \in Rows /\ stock[r].product = Incoming(o).product
    BY <1>2 DEF RowsAt, RowsOf
  <1>4. /\ o.step = "credit"
        /\ (o.op = "transfer" /\ o.ref \in Transfers) \/ (o.op = "receive" /\ o.ref \in Receipts)
    BY <1>1, AtCreditFacts DEF CreditRead
  <1>5. PICK n : n = [o EXCEPT !.step = "deposit", !.row = r]
    OBVIOUS
  <1>6. n \in Tx
    <2>1. n = [[o EXCEPT !.step = "deposit"] EXCEPT !.row = r]
      BY <1>5
    <2>2. "deposit" \in Steps /\ r \in Nat
      BY <1>3, FieldFacts, CommittedFacts
    <2>3. QED
      BY ONLY o \in Tx, <2>1, <2>2, TxWith
  <1>7. Same(o, n) /\ SameStock(o, n) /\ SameGoods(o, n)
    BY <1>5 DEF Tx, Same, SameStock, SameGoods
  <1>8. n.step = "deposit" /\ n.row = r /\ n.status = o.status
    BY <1>5 DEF Tx
  <1>9. Shape(n) /\ StatusSet(n)
    BY <1>1, <1>4, <1>7, <1>8 DEF Same, Shape, StatusSet, TxOK
  <1>10. Sited(n, stock, resources)
    <2>1. r \in 1..Len(stock) /\ r # 0
      BY <1>3, CommittedFacts
    <2>2. QED
      BY <1>1, <1>4, <1>7, <1>8, <2>1 DEF Sited, TxOK, Same, SameStock, SameGoods
  <1>11. QED
    BY <1>1, <1>2, <1>3, <1>4, <1>5, <1>6, <1>7, <1>8, <1>9, <1>10 DEF TxOK

\* The credit, to a row that is there.
LEMMA CreditEffect ==
  ASSUME FormIInv, NEW x \in Actors, Credit(x)
  PROVE  \E n \in Tx :
           /\ Goes(x, n) /\ TxOK(n, stock, resources)
           /\ tx[x].op \in {"transfer", "receive"} /\ tx[x].step = "deposit"
           /\ tx[x].row \in Rows /\ RowFree(x, tx[x].row)
           /\ Same(tx[x], n) /\ SameGoods(tx[x], n) /\ n.made = tx[x].made
           /\ n.step = AfterCredit(tx[x])
           /\ n.moves = Plus(tx[x].moves, tx[x].row, Incoming(tx[x]).quantity)
  <1>1. PICK o \in Tx : o = tx[x] /\ TxOK(o, stock, resources)
    BY TxFacts
  <1>2. /\ o.step = "deposit"
        /\ (o.op = "transfer" /\ o.ref \in Transfers) \/ (o.op = "receive" /\ o.ref \in Receipts)
        /\ o.row \in Rows /\ RowFree(x, o.row)
    BY <1>1, AtCreditFacts DEF Credit, TxOK, Sited, Rows
  <1>3. PICK q \in Int : q = Incoming(o).quantity
    BY <1>2, IncomingFacts
  <1>4. PICK s : s = AfterCredit(o)
    OBVIOUS
  <1>5. s \in {"register", "status"} /\ s \in Steps /\ (s = "register" <=> o.op = "receive")
    BY <1>4, FieldFacts DEF AfterCredit
  <1>6. PICK a : a = [o EXCEPT !.step = s, !.row = 0]
    OBVIOUS
  <1>7. PICK m : m = Plus(o.moves, o.row, q)
    OBVIOUS
  <1>8. m \in Moves /\ DOMAIN m = DOMAIN o.moves \cup {o.row}
    <2>1. PICK r \in Nat : r = o.row
      BY DEF Tx
    <2>2. PICK moves \in Moves : moves = o.moves
      BY DEF Tx
    <2>3. Plus(moves, r, q) \in Moves /\ DOMAIN Plus(moves, r, q) = DOMAIN moves \cup {r}
      BY PlusFacts
    <2>4. QED
      BY <1>7, <2>1, <2>2, <2>3
  <1>9. PICK n : n = [a EXCEPT !.moves = m]
    OBVIOUS
  <1>10. a \in Tx
    <2>1. a = [[o EXCEPT !.step = s] EXCEPT !.row = 0]
      BY <1>6
    <2>2. s \in Steps /\ 0 \in Nat
      BY <1>5, FieldFacts
    <2>3. QED
      BY ONLY o \in Tx, <2>1, <2>2, TxWith
  <1>11. n \in Tx
    BY <1>8, <1>9, <1>10, TxWith
  <1>12. Same(o, a) /\ SameStock(o, a) /\ SameGoods(o, a) /\ a.step = s /\ a.row = 0
         /\ a.status = o.status /\ a.kept = o.kept
    BY <1>6 DEF Tx, Same, SameStock, SameGoods
  <1>13. Goes(x, n)
    <2>1. Move(x, a, q) = n
      BY <1>1, <1>7, <1>9, <1>10, <1>12 DEF Move, Tx, SameStock
    <2>2. QED
      BY <1>1, <1>3, <1>4, <1>6, <2>1 DEF Credit
  <1>14. /\ n.op = a.op /\ n.ref = a.ref /\ n.step = a.step /\ n.row = a.row /\ n.made = a.made
         /\ n.status = a.status /\ n.marked = a.marked /\ n.registered = a.registered
         /\ n.known = a.known /\ n.moves = m /\ n.kept = a.kept
    BY <1>9, <1>10 DEF Tx
  <1>15. Same(o, n) /\ SameGoods(o, n) /\ n.made = o.made /\ n.step = s /\ n.row = 0
         /\ n.status = o.status
    BY <1>12, <1>14 DEF Same, SameGoods, SameStock
  <1>16. Shape(n) /\ StatusSet(n)
    BY <1>1, <1>2, <1>5, <1>15 DEF Same, Shape, StatusSet, TxOK
  <1>17. Sited(n, stock, resources)
    BY <1>1, <1>2, <1>5, <1>8, <1>14, <1>15 DEF Sited, TxOK, Same, SameGoods, Rows
  <1>18. QED
    BY <1>1, <1>2, <1>3, <1>4, <1>7, <1>11, <1>13, <1>14, <1>15, <1>16, <1>17 DEF TxOK

\* The credit, to a row made for it.
LEMMA CreditNewRowEffect ==
  ASSUME FormIInv, NEW x \in Actors, CreditNewRow(x)
  PROVE  \E n \in Tx, new \in Row :
           /\ Goes(x, n) /\ TxOK(n, stock, resources)
           /\ tx[x].op \in {"transfer", "receive"} /\ tx[x].step = "credit"
           /\ new.product = Incoming(tx[x]).product /\ new.quantity = Incoming(tx[x]).quantity
           /\ Same(tx[x], n) /\ SameGoods(tx[x], n) /\ n.moves = tx[x].moves
           /\ n.step = AfterCredit(tx[x])
           /\ n.made = <<new>>
  <1>1. PICK o \in Tx : o = tx[x] /\ TxOK(o, stock, resources)
    BY TxFacts
  <1>2. o.step = "credit"
    BY <1>1 DEF CreditNewRow
  <1>3. (o.op = "transfer" /\ o.ref \in Transfers) \/ (o.op = "receive" /\ o.ref \in Receipts)
    BY <1>1, <1>2, AtCreditFacts
  <1>4. PICK new : new = [product |-> Incoming(o).product, location |-> Incoming(o).location,
                          quantity |-> Incoming(o).quantity, status |-> "AVAILABLE"]
    OBVIOUS
  <1>5. /\ new \in Row /\ new.product = Incoming(o).product
        /\ new.quantity = Incoming(o).quantity
    BY <1>3, <1>4, IncomingFacts DEF Row, RowStatuses
  <1>6. PICK s : s = AfterCredit(o)
    OBVIOUS
  <1>7. s \in {"register", "status"} /\ s \in Steps /\ (s = "register" <=> o.op = "receive")
    BY <1>6, FieldFacts DEF AfterCredit
  <1>8. PICK n : n = [o EXCEPT !.step = s, !.made = <<new>>]
    OBVIOUS
  <1>9. n \in Tx
    <2>1. n = [[o EXCEPT !.step = s] EXCEPT !.made = <<new>>]
      BY <1>8
    <2>2. <<new>> \in Seq(Row)
      BY <1>5
    <2>3. QED
      BY ONLY o \in Tx, <1>7, <2>1, <2>2, TxWith
  <1>10. Goes(x, n)
    BY <1>1, <1>4, <1>6, <1>8 DEF CreditNewRow
  <1>11. Same(o, n) /\ SameGoods(o, n) /\ n.moves = o.moves
    BY <1>8 DEF Tx, Same, SameGoods
  <1>12. n.step = s /\ n.row = o.row /\ n.status = o.status /\ n.made = <<new>>
    BY <1>8 DEF Tx
  <1>13. Shape(n) /\ StatusSet(n)
    BY <1>1, <1>2, <1>3, <1>7, <1>11, <1>12 DEF Same, Shape, StatusSet, TxOK
  <1>14. Sited(n, stock, resources)
    BY <1>1, <1>2, <1>3, <1>7, <1>11, <1>12 DEF Sited, TxOK, Same, SameGoods
  <1>15. QED
    BY <1>1, <1>2, <1>3, <1>5, <1>6, <1>9, <1>10, <1>11, <1>12, <1>13, <1>14 DEF TxOK

\* The last statement of a transfer, a count and its submission.
LEMMA StatusEffect ==
  ASSUME FormIInv, NEW x \in Actors, CompleteTransfer(x) \/ UpdateReconciliation(x)
  PROVE  \E n \in Tx :
           /\ Goes(x, n) /\ TxOK(n, stock, resources)
           /\ tx[x].op \in {"transfer", "approve", "submit"} /\ tx[x].step = "status"
           /\ Same(tx[x], n) /\ SameStock(tx[x], n) /\ SameGoods(tx[x], n)
           /\ n.step = "ready" /\ n.line = tx[x].line
  <1>1. PICK o \in Tx : o = tx[x] /\ TxOK(o, stock, resources)
    BY TxFacts
  <1>2. PICK status :
          /\ UpdateStatus(x, status)
          /\ \/ o.op = "transfer" /\ status = "DELIVERED"
             \/ o.op = "approve" /\ status = "APPROVED"
             \/ o.op = "submit" /\ status = "SUBMITTED"
    BY <1>1 DEF CompleteTransfer, UpdateReconciliation
  <1>3. o.step = "status" /\ o # NoTx
    BY <1>1, <1>2, NoTxFacts DEF UpdateStatus
  <1>4. PICK n : n = [o EXCEPT !.status = status, !.step = "ready"]
    OBVIOUS
  <1>5. n \in Tx
    <2>1. n = [[o EXCEPT !.status = status] EXCEPT !.step = "ready"]
      BY <1>4
    <2>2. status \in Statuses /\ "ready" \in Steps
      BY <1>2, FieldFacts DEF Statuses, TransferStatuses, CountStatuses
    <2>3. QED
      BY ONLY o \in Tx, <2>1, <2>2, TxWith
  <1>6. Goes(x, n)
    BY <1>1, <1>2, <1>4 DEF UpdateStatus
  <1>7. Same(o, n) /\ SameStock(o, n) /\ SameGoods(o, n)
    BY <1>4 DEF Tx, Same, SameStock, SameGoods
  <1>8. n.step = "ready" /\ n.row = o.row /\ n.status = status /\ n.line = o.line
    BY <1>4 DEF Tx
  <1>9. Shape(n) /\ StatusSet(n)
    BY <1>1, <1>2, <1>3, <1>7, <1>8 DEF Same, Shape, StatusSet, TxOK
  <1>10. Sited(n, stock, resources)
    BY <1>1, <1>2, <1>3, <1>7, <1>8 DEF Sited, TxOK, Same, SameGoods, SameStock
  <1>11. QED
    BY <1>1, <1>2, <1>3, <1>5, <1>6, <1>7, <1>8, <1>9, <1>10 DEF TxOK

\* The check and the insert of a reservation.
LEMMA ReserveEffect ==
  ASSUME FormIInv, NEW x \in Actors, Reserve(x)
  PROVE  \E n \in Tx :
           /\ Goes(x, n) /\ TxOK(n, stock, resources)
           /\ tx[x].op = "reserve"
           /\ Same(tx[x], n) /\ SameStock(tx[x], n) /\ SameGoods(tx[x], n)
           /\ n.step = "ready"
  <1>1. PICK o \in Tx : o = tx[x] /\ TxOK(o, stock, resources)
    BY TxFacts
  <1>2. PICK n : n = [o EXCEPT !.step = "ready"]
    OBVIOUS
  <1>3. o.op = "reserve" /\ o.step = "reserving" /\ Goes(x, n)
    BY <1>1, <1>2, NoTxFacts DEF Reserve, TxOK, Shape
  <1>4. n \in Tx
    BY <1>2, FieldFacts, TxWith
  <1>5. Same(o, n) /\ SameStock(o, n) /\ SameGoods(o, n)
    BY <1>2 DEF Tx, Same, SameStock, SameGoods
  <1>6. n.step = "ready" /\ n.row = o.row /\ n.status = o.status
    BY <1>2 DEF Tx
  <1>7. TxOK(n, stock, resources)
    BY <1>1, <1>3, <1>5, <1>6, NoTxFacts DEF TxOK, Shape, Sited, StatusSet, Same, SameStock, SameGoods
  <1>8. QED
    BY <1>1, <1>3, <1>4, <1>5, <1>6, <1>7

\* A serial number is looked up, and what it finds marked as sold.
LEMMA MarkSoldEffect ==
  ASSUME FormIInv, NEW x \in Actors, MarkSold(x)
  PROVE  \E n \in Tx, value \in tx[x].todo :
           /\ Goes(x, n) /\ TxOK(n, stock, resources)
           /\ tx[x].op = "sale" /\ tx[x].step = "serials"
           /\ Same(tx[x], n) /\ SameStock(tx[x], n) /\ n.registered = tx[x].registered
           /\ n.marked = tx[x].marked \cup Devices(value)
           /\ \/ /\ tx[x].todo \ {value} # {} /\ n.todo = tx[x].todo \ {value}
                 /\ n.step = "serials" /\ n.line = tx[x].line
              \/ tx[x].todo \ {value} = {} /\ ToNextLine(tx[x], n)
  <1>1. PICK o \in Tx : o = tx[x] /\ TxOK(o, stock, resources)
    BY TxFacts
  <1>2. o.step = "serials" /\ o.op = "sale"
    BY <1>1, NoTxFacts DEF MarkSold, TxOK, Shape
  <1>3. PICK value \in o.todo :
          LET t == [o EXCEPT !.todo = @ \ {value}, !.marked = @ \cup Devices(value)] IN
            Goes(x, IF t.todo = {} THEN NextLine(t) ELSE t)
    BY <1>1 DEF MarkSold
  <1>4. PICK t : t = [o EXCEPT !.todo = o.todo \ {value}, !.marked = o.marked \cup Devices(value)]
    OBVIOUS
  <1>5. Goes(x, IF t.todo = {} THEN NextLine(t) ELSE t)
    <2>1. t = [o EXCEPT !.todo = @ \ {value}, !.marked = @ \cup Devices(value)]
      BY <1>4 DEF Tx
    <2>2. QED
      BY <1>3, <2>1
  <1>6. Devices(value) \subseteq 1..Len(resources) /\ Devices(value) \in SUBSET Nat
    BY CommittedFacts DEF Devices, ResourcesNamed
  <1>7. t \in Tx
    <2>1. t = [[o EXCEPT !.todo = o.todo \ {value}] EXCEPT !.marked = o.marked \cup Devices(value)]
      BY <1>4
    <2>2. o.todo \ {value} \in SUBSET Serials /\ o.marked \cup Devices(value) \in SUBSET Nat
      BY <1>6 DEF Tx
    <2>3. QED
      BY ONLY o \in Tx, <2>1, <2>2, TxWith
  <1>8. /\ Same(o, t) /\ SameStock(o, t) /\ t.registered = o.registered
        /\ t.marked = o.marked \cup Devices(value) /\ t.todo = o.todo \ {value}
        /\ t.step = "serials" /\ t.line = o.line /\ t.row = o.row /\ t.status = o.status
    BY <1>2, <1>4 DEF Tx, Same, SameStock
  <1>9. TxOK(t, stock, resources)
    <2>0. o.ref \in SaleRefs /\ o.status = "NONE"
      BY <1>1, <1>2, NoTxFacts DEF TxOK, Shape, StatusSet
    <2>1. Shape(t) /\ StatusSet(t)
      BY <1>2, <1>8, <2>0 DEF Shape, StatusSet, Same
    <2>2. Sited(t, stock, resources)
      BY <1>1, <1>2, <1>6, <1>8 DEF TxOK, Sited, Same, SameStock, Lines
    <2>3. QED
      BY <2>1, <2>2 DEF TxOK
  <1>10. CASE t.todo # {}
    BY <1>1, <1>2, <1>5, <1>7, <1>8, <1>9, <1>10
  <1>11. CASE t.todo = {}
    <2>1. PICK n : n = [t EXCEPT !.step = "lines", !.line = t.line + 1, !.row = 0, !.delta = 0,
                                 !.todo = {}]
      OBVIOUS
    <2>2. NextLine(t) = n
      BY <1>7, <2>1 DEF NextLine, Tx
    <2>3. n \in Tx
      <3>1. n = [[[[[t EXCEPT !.step = "lines"] EXCEPT !.line = t.line + 1] EXCEPT !.row = 0]
                  EXCEPT !.delta = 0] EXCEPT !.todo = {}]
        BY <2>1
      <3>2. "lines" \in Steps /\ 0 \in Nat /\ 0 \in Int /\ {} \in SUBSET Serials
        BY FieldFacts
      <3>3. t.line \in Nat \ {0}
        BY ONLY <1>7 DEF Tx
      <3>4. t.line + 1 \in Nat \ {0}
        BY ONLY <3>3
      <3>5. QED
        BY ONLY t \in Tx, <1>7, <3>1, <3>2, <3>4, TxWith
    <2>4. Same(t, n) /\ SameStock(t, n) /\ SameGoods(t, n)
      BY <1>7, <2>1 DEF Tx, Same, SameStock, SameGoods
    <2>5. ToNextLine(t, n)
      BY <1>7, <2>1 DEF Tx, ToNextLine
    <2>6. TxOK(n, stock, resources)
      <3>1. Advance(t, n) \/ (ToNextLine(t, n) /\ t.op # "adjust")
        BY <1>2, <1>8, <2>5 DEF Same
      <3>2. t.step \in {"read", "serials"} \/ (t.op \in {"sale", "approve"} /\ t.step = "lines")
        BY <1>8
      <3>3. t.op = "sale" => t.line <= Len(Lines(t))
        BY <1>8, <1>9 DEF TxOK, Sited
      <3>4. DOMAIN n.moves \subseteq 1..Len(stock) /\ DOMAIN n.kept \subseteq 1..Len(stock)
        BY <1>8, <1>9, <2>4 DEF Same, SameStock, TxOK, Sited
      <3>5. QED
        BY ONLY <1>7, <1>9, <2>3, <2>4, <3>1, <3>2, <3>3, <3>4, AdvanceOK
    <2>7. /\ Same(o, n) /\ SameStock(o, n) /\ n.registered = o.registered
          /\ n.marked = o.marked \cup Devices(value) /\ ToNextLine(o, n)
      BY <1>8, <2>4, <2>5 DEF Same, SameStock, SameGoods, ToNextLine
    <2>8. QED
      BY <1>1, <1>2, <1>5, <1>8, <1>11, <2>2, <2>3, <2>6, <2>7
  <1>12. QED
    BY <1>10, <1>11

\* The resources of a receipt are registered.
LEMMA RegisterEffect ==
  ASSUME FormIInv, NEW x \in Actors, RegisterSerials(x)
  PROVE  \E n \in Tx :
           /\ Goes(x, n) /\ TxOK(n, stock, resources)
           /\ tx[x].op = "receive" /\ tx[x].step = "register" /\ tx[x].ref \in Receipts
           /\ Same(tx[x], n) /\ SameStock(tx[x], n) /\ n.marked = tx[x].marked
           /\ n.step = "ready"
           /\ \A value \in ReceiptOf[tx[x].ref].serials : IdentityFree(x, value)
           /\ \E k \in Nat : \E listed \in Bijection(1..k, ReceiptOf[tx[x].ref].serials) :
                /\ Len(n.registered) = k
                /\ \A i \in 1..k :
                     /\ n.registered[i].name = "SERIAL_NUMBER" /\ n.registered[i].value = listed[i]
                     /\ n.registered[i].receipt = tx[x].ref
  <1>1. PICK o \in Tx : o = tx[x] /\ TxOK(o, stock, resources)
    BY TxFacts
  <1>2. o.step = "register" /\ o.op = "receive" /\ o.ref \in Receipts
    BY <1>1, NoTxFacts DEF RegisterSerials, TxOK, Shape
  <1>3. PICK serials \in SUBSET Serials : serials = ReceiptOf[o.ref].serials /\ IsFiniteSet(serials)
    BY <1>2, DocumentFacts
  <1>4. PICK k \in Nat : k = Cardinality(serials)
    BY <1>3, FS_CardinalityType
  <1>5. PICK listed \in Bijection(1..k, serials) :
          Goes(x, [o EXCEPT !.step = "ready",
                     !.registered = [i \in 1..k |->
                       [name |-> "SERIAL_NUMBER", value |-> listed[i],
                        status |-> "AVAILABLE", receipt |-> o.ref]]])
    BY <1>1, <1>3, <1>4 DEF RegisterSerials
  <1>6. PICK new : new = [i \in 1..k |-> [name |-> "SERIAL_NUMBER", value |-> listed[i],
                                          status |-> "AVAILABLE", receipt |-> o.ref]]
    OBVIOUS
  <1>7. listed \in [1..k -> serials]
    BY DEF Bijection, Injection
  <1>8. \A i \in 1..k :
          /\ new[i] \in Resource /\ new[i].name = "SERIAL_NUMBER" /\ new[i].value = listed[i]
          /\ new[i].receipt = o.ref
    BY <1>2, <1>6, <1>7 DEF Resource, CharacteristicName, ResourceStatuses
  <1>9. new \in Seq(Resource) /\ Len(new) = k
    BY <1>6, <1>8
  <1>10. PICK n : n = [o EXCEPT !.step = "ready", !.registered = new]
    OBVIOUS
  <1>11. n \in Tx
    <2>1. n = [[o EXCEPT !.step = "ready"] EXCEPT !.registered = new]
      BY <1>10
    <2>2. "ready" \in Steps
      BY FieldFacts
    <2>3. QED
      BY ONLY o \in Tx, <1>9, <2>1, <2>2, TxWith
  <1>12. Goes(x, n)
    BY <1>5, <1>6, <1>10
  <1>13. /\ Same(o, n) /\ SameStock(o, n) /\ n.marked = o.marked /\ n.step = "ready"
         /\ n.row = o.row /\ n.status = o.status /\ n.registered = new
    BY <1>10 DEF Tx, Same, SameStock
  <1>14. Shape(n) /\ StatusSet(n)
    BY <1>1, <1>2, <1>13 DEF Same, Shape, StatusSet, TxOK
  <1>15. Sited(n, stock, resources)
    BY <1>1, <1>2, <1>13 DEF Sited, TxOK, Same, SameStock
  <1>16. \A value \in serials : IdentityFree(x, value)
    BY <1>1, <1>3 DEF RegisterSerials
  <1>17. QED
    BY <1>1, <1>2, <1>3, <1>8, <1>9, <1>11, <1>12, <1>13, <1>14, <1>15, <1>16 DEF TxOK

\* Whatever statement a transaction goes on with, it stays what it is; all but the
\* registration of a receipt's devices leave what it has registered alone.
LEMMA StatementEffect ==
  ASSUME FormIInv, NEW x \in Actors, Statement(x)
  PROVE  \E n \in Tx :
           /\ Goes(x, n) /\ TxOK(n, stock, resources) /\ Same(tx[x], n)
           /\ n.op # "none"
           /\ \/ RegisterSerials(x)
              \/ /\ n.registered = tx[x].registered
                 /\ n.op = "receive" => n.step # "ready"
  <1>1. CASE AdjustQuantity(x)
    BY <1>1, AdjustEffect, NoTxFacts DEF Same, SameGoods, Advance, ToNextLine, TxOK, Shape
  <1>2. CASE LineRead(x)
    BY <1>2, LineReadEffect DEF Same, SameGoods
  <1>3. CASE LineSkipped(x)
    BY <1>3, LineSkippedEffect DEF Same, SameGoods
  <1>4. CASE LinesApplied(x)
    BY <1>4, LinesAppliedEffect DEF Same, SameGoods
  <1>5. CASE SourceRead(x)
    BY <1>5, SourceReadEffect DEF Same, SameGoods
  <1>6. CASE Debit(x)
    BY <1>6, DebitEffect DEF Same, SameGoods
  <1>7. CASE Credit(x)
    BY <1>7, CreditEffect DEF Same, SameGoods, AfterCredit
  <1>8. CASE CreditNewRow(x)
    BY <1>8, CreditNewRowEffect DEF Same, SameGoods, AfterCredit
  <1>9. CASE CompleteTransfer(x) \/ UpdateReconciliation(x)
    BY <1>9, StatusEffect DEF Same, SameGoods
  <1>10. CASE Reserve(x)
    BY <1>10, ReserveEffect DEF Same, SameGoods
  <1>11. CASE MarkSold(x)
    BY <1>11, MarkSoldEffect DEF Same
  <1>12. CASE RegisterSerials(x)
    BY <1>12, RegisterEffect DEF Same
  <1>13. CASE CreditRead(x)
    BY <1>13, CreditReadEffect DEF Same, SameGoods
  <1>14. QED
    BY <1>1, <1>2, <1>3, <1>4, <1>5, <1>6, <1>7, <1>8, <1>9, <1>10, <1>11, <1>12, <1>13 DEF Statement

-----------------------------------------------------------------------------
(* What a request, or the handler of a sale, begins with.                   *)

\* What there is to know of a transaction when it begins.
Started(x, n) ==
  /\ n.op # "none" /\ n.made = <<>> /\ n.marked = {} /\ n.kept = <<>>
  /\ n.op # "patch" => n.moves = <<>>
  /\ n.op # "register" => n.registered = <<>>
  /\ n.op = "adjust" => n.step = "read" /\ stock[n.row].quantity + n.delta >= 0
  /\ n.op = "sale" => n.line = 1 /\ n.step = "lines" /\ n.known = Len(resources)
  /\ n.op = "approve" => n.line = 1 /\ n.step = "lines" /\ doc[n.ref] = "SUBMITTED"
  /\ n.op = "submit" => doc[n.ref] = "DRAFT"
  /\ n.op = "transfer" => n.step = "source" /\ doc[n.ref] \notin {"NONE", "DELIVERED", "CANCELLED"}
  /\ n.op = "receive" => n.step = "credit" /\ n.ref \notin receipts /\ NumberFree(x, n.ref)
  /\ n.op = "patch" => /\ RowFree(x, n.row)
                       /\ \E q \in Nat \cup {stock[n.row].quantity} :
                            n.moves = Plus(<<>>, n.row, q - stock[n.row].quantity)
  /\ n.op = "register" =>
       \E body \in Registrable :
         /\ n.registered = body
         /\ \A i \in 1..Len(body) :
              body[i].name \in IdentityNames =>
                IdentityFree(x, body[i].value) /\ ~IdentityTaken(SubSeq(body, 1, i - 1), body[i].value)

\* An adjustment has found the row, and that enough is there.
LEMMA AdjustReadStarts ==
  ASSUME FormIInv, NEW x \in Actors, NEW r \in Rows, NEW d \in Deltas, AdjustRead(x, r, d)
  PROVE  \E n \in Tx : Begin(x, n) /\ TxOK(n, stock, resources) /\ Started(x, n)
  <1>1. PICK o \in Tx : o = NoTx
    BY NoTxFacts
  <1>2. /\ r \in Nat /\ r # 0 /\ r \in 1..Len(stock) /\ stock[r].quantity \in Int /\ d \in Int
        /\ stock[r].quantity + d >= 0
    BY CommittedFacts, InventoryAssumption DEF InventoryAssumption, AdjustRead
  <1>3. PICK n : n = [o EXCEPT !.op = "adjust", !.step = "read", !.row = r, !.seen = stock[r].quantity, !.delta = d]
    OBVIOUS
  <1>4. n \in Tx
    <2>1. n = [[[[[o EXCEPT !.op = "adjust"] EXCEPT !.step = "read"] EXCEPT !.row = r] EXCEPT !.seen = stock[r].quantity] EXCEPT !.delta = d]
      BY <1>3
    <2>2. "adjust" \in Operations /\ "read" \in Steps /\ r \in Nat /\ stock[r].quantity \in Int /\ d \in Int
      BY <1>2, FieldFacts
    <2>3. QED
      BY ONLY o \in Tx, <2>1, <2>2, TxWith
  <1>5. /\ n.op = "adjust" /\ n.ref = NoRef /\ n.step = "read" /\ n.line = 1 /\ n.row = r
        /\ n.delta = d /\ n.moves = <<>> /\ n.made = <<>> /\ n.status = "NONE" /\ n.marked = {}
        /\ n.registered = <<>> /\ n.known = 0 /\ n.kept = <<>>
    BY <1>1, <1>3, NoTxFacts
  <1>6. Begin(x, n)
    BY <1>1, <1>2, <1>3 DEF AdjustRead, Request
  <1>7. Shape(n) /\ StatusSet(n)
    BY <1>2, <1>5 DEF Shape, StatusSet
  <1>8. Sited(n, stock, resources)
    BY <1>2, <1>5, NoMoves, CommittedFacts DEF Sited, Lines
  <1>9. Started(x, n)
    BY <1>2, <1>5 DEF Started
  <1>10. QED
    BY <1>4, <1>6, <1>7, <1>8, <1>9 DEF TxOK

\* A reservation has read the quantity.
LEMMA ReserveReadStarts ==
  ASSUME FormIInv, NEW x \in Actors, NEW r \in Rows, NEW q \in Reservable, ReserveRead(x, r, q)
  PROVE  \E n \in Tx : Begin(x, n) /\ TxOK(n, stock, resources) /\ Started(x, n)
  <1>1. PICK o \in Tx : o = NoTx
    BY NoTxFacts
  <1>2. r \in Nat /\ r # 0 /\ r \in 1..Len(stock) /\ stock[r].quantity \in Int /\ q \in Int
    BY CommittedFacts, InventoryAssumption DEF InventoryAssumption
  <1>3. PICK n : n = [o EXCEPT !.op = "reserve", !.step = "reserving", !.row = r, !.seen = stock[r].quantity, !.delta = q]
    OBVIOUS
  <1>4. n \in Tx
    <2>1. n = [[[[[o EXCEPT !.op = "reserve"] EXCEPT !.step = "reserving"] EXCEPT !.row = r] EXCEPT !.seen = stock[r].quantity] EXCEPT !.delta = q]
      BY <1>3
    <2>2. "reserve" \in Operations /\ "reserving" \in Steps /\ r \in Nat /\ stock[r].quantity \in Int /\ q \in Int
      BY <1>2, FieldFacts
    <2>3. QED
      BY ONLY o \in Tx, <2>1, <2>2, TxWith
  <1>5. /\ n.op = "reserve" /\ n.ref = NoRef /\ n.step = "reserving" /\ n.line = 1 /\ n.row = r
        /\ n.delta = q /\ n.moves = <<>> /\ n.made = <<>> /\ n.status = "NONE" /\ n.marked = {}
        /\ n.registered = <<>> /\ n.known = 0 /\ n.kept = <<>>
    BY <1>1, <1>3, NoTxFacts
  <1>6. Begin(x, n)
    BY <1>1, <1>2, <1>3 DEF ReserveRead, Request
  <1>7. Shape(n) /\ StatusSet(n)
    BY <1>2, <1>5 DEF Shape, StatusSet
  <1>8. Sited(n, stock, resources)
    BY <1>2, <1>5, NoMoves, CommittedFacts DEF Sited, Lines
  <1>9. Started(x, n)
    BY <1>2, <1>5 DEF Started
  <1>10. QED
    BY <1>4, <1>6, <1>7, <1>8, <1>9 DEF TxOK

\* A receipt has inserted its number, which nobody has.
LEMMA ReceiptInsertStarts ==
  ASSUME FormIInv, NEW x \in Actors, NEW g \in Receipts, ReceiptInsert(x, g)
  PROVE  \E n \in Tx : Begin(x, n) /\ TxOK(n, stock, resources) /\ Started(x, n)
  <1>1. PICK o \in Tx : o = NoTx
    BY NoTxFacts
  <1>2. g \notin receipts /\ NumberFree(x, g)
    BY DEF ReceiptInsert
  <1>3. PICK n : n = [o EXCEPT !.op = "receive", !.ref = g, !.step = "credit"]
    OBVIOUS
  <1>4. n \in Tx
    <2>1. n = [[[o EXCEPT !.op = "receive"] EXCEPT !.ref = g] EXCEPT !.step = "credit"]
      BY <1>3
    <2>2. "receive" \in Operations /\ g \in Refs /\ "credit" \in Steps
      BY FieldFacts DEF Documents
    <2>3. QED
      BY ONLY o \in Tx, <2>1, <2>2, TxWith
  <1>5. /\ n.op = "receive" /\ n.ref = g /\ n.step = "credit" /\ n.line = 1 /\ n.row = 0
        /\ n.moves = <<>> /\ n.made = <<>> /\ n.status = "NONE" /\ n.marked = {}
        /\ n.registered = <<>> /\ n.known = 0 /\ n.kept = <<>>
    BY <1>1, <1>3, NoTxFacts
  <1>6. Begin(x, n)
    BY <1>1, <1>2, <1>3 DEF ReceiptInsert, Request
  <1>7. Shape(n) /\ StatusSet(n)
    BY <1>2, <1>5 DEF Shape, StatusSet
  <1>8. Sited(n, stock, resources)
    BY <1>2, <1>5, NoMoves, CommittedFacts DEF Sited, Lines
  <1>9. Started(x, n)
    BY <1>2, <1>5 DEF Started
  <1>10. QED
    BY <1>4, <1>6, <1>7, <1>8, <1>9 DEF TxOK

\* A transfer that may be completed.
LEMMA TransferReadStarts ==
  ASSUME FormIInv, NEW x \in Actors, NEW t \in Transfers, TransferRead(x, t)
  PROVE  \E n \in Tx : Begin(x, n) /\ TxOK(n, stock, resources) /\ Started(x, n)
  <1>1. PICK o \in Tx : o = NoTx
    BY NoTxFacts
  <1>2. doc[t] \notin {"NONE", "DELIVERED", "CANCELLED"}
    BY DEF TransferRead
  <1>3. PICK n : n = [o EXCEPT !.op = "transfer", !.ref = t, !.step = "source"]
    OBVIOUS
  <1>4. n \in Tx
    <2>1. n = [[[o EXCEPT !.op = "transfer"] EXCEPT !.ref = t] EXCEPT !.step = "source"]
      BY <1>3
    <2>2. "transfer" \in Operations /\ t \in Refs /\ "source" \in Steps
      BY FieldFacts DEF Documents
    <2>3. QED
      BY ONLY o \in Tx, <2>1, <2>2, TxWith
  <1>5. /\ n.op = "transfer" /\ n.ref = t /\ n.step = "source" /\ n.line = 1 /\ n.row = 0
        /\ n.moves = <<>> /\ n.made = <<>> /\ n.status = "NONE" /\ n.marked = {}
        /\ n.registered = <<>> /\ n.known = 0 /\ n.kept = <<>>
    BY <1>1, <1>3, NoTxFacts
  <1>6. Begin(x, n)
    BY <1>1, <1>2, <1>3 DEF TransferRead, Request
  <1>7. Shape(n) /\ StatusSet(n)
    BY <1>2, <1>5 DEF Shape, StatusSet
  <1>8. Sited(n, stock, resources)
    BY <1>2, <1>5, NoMoves, CommittedFacts DEF Sited, Lines
  <1>9. Started(x, n)
    BY <1>2, <1>5 DEF Started
  <1>10. QED
    BY <1>4, <1>6, <1>7, <1>8, <1>9 DEF TxOK

\* A count that may be submitted.
LEMMA SubmitReadStarts ==
  ASSUME FormIInv, NEW x \in Actors, NEW r \in Counts, SubmitRead(x, r)
  PROVE  \E n \in Tx : Begin(x, n) /\ TxOK(n, stock, resources) /\ Started(x, n)
  <1>1. PICK o \in Tx : o = NoTx
    BY NoTxFacts
  <1>2. doc[r] = "DRAFT"
    BY DEF SubmitRead
  <1>3. PICK n : n = [o EXCEPT !.op = "submit", !.ref = r, !.step = "status"]
    OBVIOUS
  <1>4. n \in Tx
    <2>1. n = [[[o EXCEPT !.op = "submit"] EXCEPT !.ref = r] EXCEPT !.step = "status"]
      BY <1>3
    <2>2. "submit" \in Operations /\ r \in Refs /\ "status" \in Steps
      BY FieldFacts DEF Documents
    <2>3. QED
      BY ONLY o \in Tx, <2>1, <2>2, TxWith
  <1>5. /\ n.op = "submit" /\ n.ref = r /\ n.step = "status" /\ n.line = 1 /\ n.row = 0
        /\ n.moves = <<>> /\ n.made = <<>> /\ n.status = "NONE" /\ n.marked = {}
        /\ n.registered = <<>> /\ n.known = 0 /\ n.kept = <<>>
    BY <1>1, <1>3, NoTxFacts
  <1>6. Begin(x, n)
    BY <1>1, <1>2, <1>3 DEF SubmitRead, Request
  <1>7. Shape(n) /\ StatusSet(n)
    BY <1>2, <1>5 DEF Shape, StatusSet
  <1>8. Sited(n, stock, resources)
    BY <1>2, <1>5, NoMoves, CommittedFacts DEF Sited, Lines
  <1>9. Started(x, n)
    BY <1>2, <1>5 DEF Started
  <1>10. QED
    BY <1>4, <1>6, <1>7, <1>8, <1>9 DEF TxOK

\* A count that may be approved.
LEMMA ApproveReadStarts ==
  ASSUME FormIInv, NEW x \in Actors, NEW r \in Counts, ApproveRead(x, r)
  PROVE  \E n \in Tx : Begin(x, n) /\ TxOK(n, stock, resources) /\ Started(x, n)
  <1>1. PICK o \in Tx : o = NoTx
    BY NoTxFacts
  <1>2. doc[r] = "SUBMITTED"
    BY DEF ApproveRead
  <1>3. PICK n : n = [o EXCEPT !.op = "approve", !.ref = r, !.step = "lines"]
    OBVIOUS
  <1>4. n \in Tx
    <2>1. n = [[[o EXCEPT !.op = "approve"] EXCEPT !.ref = r] EXCEPT !.step = "lines"]
      BY <1>3
    <2>2. "approve" \in Operations /\ r \in Refs /\ "lines" \in Steps
      BY FieldFacts DEF Documents
    <2>3. QED
      BY ONLY o \in Tx, <2>1, <2>2, TxWith
  <1>5. /\ n.op = "approve" /\ n.ref = r /\ n.step = "lines" /\ n.line = 1 /\ n.row = 0
        /\ n.moves = <<>> /\ n.made = <<>> /\ n.status = "NONE" /\ n.marked = {}
        /\ n.registered = <<>> /\ n.known = 0 /\ n.kept = <<>>
    BY <1>1, <1>3, NoTxFacts
  <1>6. Begin(x, n)
    BY <1>1, <1>2, <1>3 DEF ApproveRead, Request
  <1>7. Shape(n) /\ StatusSet(n)
    BY <1>2, <1>5 DEF Shape, StatusSet
  <1>8. Sited(n, stock, resources)
    BY <1>2, <1>5, NoMoves, CommittedFacts DEF Sited, Lines
  <1>9. Started(x, n)
    BY <1>2, <1>5 DEF Started
  <1>10. QED
    BY <1>4, <1>6, <1>7, <1>8, <1>9 DEF TxOK

\* Resources that are registered under values nobody has.
LEMMA RegisterStarts ==
  ASSUME FormIInv, NEW x \in Actors, NEW body \in Registrable, RegisterResources(x, body)
  PROVE  \E n \in Tx : Begin(x, n) /\ TxOK(n, stock, resources) /\ Started(x, n)
  <1>1. PICK o \in Tx : o = NoTx
    BY NoTxFacts
  <1>2. /\ \A i \in 1..Len(body) :
             body[i].name \in IdentityNames =>
               IdentityFree(x, body[i].value) /\ ~IdentityTaken(SubSeq(body, 1, i - 1), body[i].value)
        /\ body \in Seq(Resource)
    <2>1. body \in Seq({d \in Resource : d.receipt = NoRef})
      BY InventoryAssumption DEF InventoryAssumption
    <2>2. body \in Seq(Resource)
      BY <2>1
    <2>3. QED
      BY <2>2 DEF RegisterResources
  <1>3. PICK n : n = [o EXCEPT !.op = "register", !.step = "ready", !.registered = body]
    OBVIOUS
  <1>4. n \in Tx
    <2>1. n = [[[o EXCEPT !.op = "register"] EXCEPT !.step = "ready"] EXCEPT !.registered = body]
      BY <1>3
    <2>2. "register" \in Operations /\ "ready" \in Steps /\ body \in Seq(Resource)
      BY <1>2, FieldFacts
    <2>3. QED
      BY ONLY o \in Tx, <2>1, <2>2, TxWith
  <1>5. /\ n.op = "register" /\ n.ref = NoRef /\ n.step = "ready" /\ n.line = 1 /\ n.row = 0
        /\ n.moves = <<>> /\ n.made = <<>> /\ n.status = "NONE" /\ n.marked = {}
        /\ n.registered = body /\ n.known = 0 /\ n.kept = <<>>
    BY <1>1, <1>3, NoTxFacts
  <1>6. Begin(x, n)
    BY <1>1, <1>3 DEF RegisterResources, Request
  <1>7. Shape(n) /\ StatusSet(n)
    BY <1>5 DEF Shape, StatusSet
  <1>8. Sited(n, stock, resources)
    BY <1>5, NoMoves, CommittedFacts DEF Sited, Lines
  <1>9. Started(x, n)
    BY <1>2, <1>5 DEF Started
  <1>10. QED
    BY <1>4, <1>6, <1>7, <1>8, <1>9 DEF TxOK

\* A patch of a row nobody has updated.
LEMMA PatchRowStarts ==
  ASSUME FormIInv, NEW x \in Actors, NEW r \in Rows, NEW patch \in Patches, NEW m,
         m = Plus(<<>>, r, Given(patch, "quantity", stock[r].quantity) - stock[r].quantity),
         PatchRow(x, r, patch)
  PROVE  \E n \in Tx : Begin(x, n) /\ TxOK(n, stock, resources) /\ Started(x, n)
  <1>1. PICK o \in Tx : o = NoTx
    BY NoTxFacts
  <1>2. /\ r \in Nat /\ r # 0 /\ r \in 1..Len(stock) /\ RowFree(x, r)
        /\ stock[r].quantity \in Int
    BY CommittedFacts DEF PatchRow
  <1>3. PICK q \in Nat \cup {stock[r].quantity} : q = Given(patch, "quantity", stock[r].quantity)
    BY InventoryAssumption DEF InventoryAssumption, Given
  <1>4. PICK status \in RowStatuses \cup {"NONE"} :
          status = Given(patch, "status", "NONE") /\ status \in Statuses
    BY InventoryAssumption DEF InventoryAssumption, Given, Statuses
  <1>5. PICK place \in Locations \cup {NoRef} : place = Given(patch, "location", NoRef)
    BY InventoryAssumption DEF InventoryAssumption, Given
  <1>6. m = Plus(<<>>, r, q - stock[r].quantity) /\ m \in Moves /\ DOMAIN m = {r}
    <2>1. PICK d \in Int : d = q - stock[r].quantity
      BY <1>2
    <2>2. Plus(<<>>, r, d) \in Moves /\ DOMAIN Plus(<<>>, r, d) = {} \cup {r}
      BY ONLY d \in Int, <1>2, NoMoves, PlusFacts
    <2>3. QED
      BY <1>3, <2>1, <2>2
  <1>7. PICK n : n = [o EXCEPT !.op = "patch", !.step = "ready", !.row = r, !.moves = m,
                               !.status = status, !.place = place]
    OBVIOUS
  <1>8. n \in Tx
    <2>1. n = [[[[[[o EXCEPT !.op = "patch"] EXCEPT !.step = "ready"] EXCEPT !.row = r]
                EXCEPT !.moves = m] EXCEPT !.status = status] EXCEPT !.place = place]
      BY <1>7
    <2>2. "patch" \in Operations /\ "ready" \in Steps /\ r \in Nat /\ m \in Moves
          /\ status \in Statuses /\ place \in Locations \cup {NoRef}
      BY <1>2, <1>4, <1>6, FieldFacts
    <2>3. QED
      BY ONLY o \in Tx, <2>1, <2>2, TxWith
  <1>9. /\ n.op = "patch" /\ n.ref = NoRef /\ n.step = "ready" /\ n.line = 1 /\ n.row = r
        /\ n.moves = m /\ n.made = <<>> /\ n.status = status /\ n.marked = {}
        /\ n.registered = <<>> /\ n.known = 0 /\ n.kept = <<>>
    BY <1>1, <1>7, NoTxFacts
  <1>10. Begin(x, n)
    <2>1. n = [NoTx EXCEPT !.op = "patch", !.step = "ready", !.row = r,
                 !.moves = Plus(@, r, Given(patch, "quantity", stock[r].quantity)
                                      - stock[r].quantity),
                 !.status = Given(patch, "status", "NONE"),
                 !.place = Given(patch, "location", NoRef)]
      BY <1>1, <1>4, <1>5, <1>7, NoTxFacts
    <2>2. QED
      BY <2>1 DEF PatchRow, Request
  <1>11. Shape(n) /\ StatusSet(n)
    BY <1>9 DEF Shape, StatusSet
  <1>12. Sited(n, stock, resources)
    BY <1>2, <1>6, <1>9, NoMoves, CommittedFacts DEF Sited, Lines
  <1>13. Started(x, n)
    BY <1>2, <1>3, <1>6, <1>9 DEF Started
  <1>14. QED
    BY <1>8, <1>10, <1>11, <1>12, <1>13 DEF TxOK

\* A transfer whose status is set by hand.
LEMMA PatchTransferStarts ==
  ASSUME FormIInv, NEW x \in Actors, NEW t \in Transfers, NEW status \in PatchStatuses, PatchTransfer(x, t, status)
  PROVE  \E n \in Tx : Begin(x, n) /\ TxOK(n, stock, resources) /\ Started(x, n)
  <1>1. PICK o \in Tx : o = NoTx
    BY NoTxFacts
  <1>2. status \in TransferStatuses
    BY InventoryAssumption DEF InventoryAssumption
  <1>3. PICK n : n = [o EXCEPT !.op = "mend", !.ref = t, !.step = "ready", !.status = status]
    OBVIOUS
  <1>4. n \in Tx
    <2>1. n = [[[[o EXCEPT !.op = "mend"] EXCEPT !.ref = t] EXCEPT !.step = "ready"] EXCEPT !.status = status]
      BY <1>3
    <2>2. "mend" \in Operations /\ t \in Refs /\ "ready" \in Steps /\ status \in Statuses
      BY <1>2, FieldFacts DEF Documents, Statuses
    <2>3. QED
      BY ONLY o \in Tx, <2>1, <2>2, TxWith
  <1>5. /\ n.op = "mend" /\ n.ref = t /\ n.step = "ready" /\ n.line = 1 /\ n.row = 0
        /\ n.moves = <<>> /\ n.made = <<>> /\ n.status = status /\ n.marked = {}
        /\ n.registered = <<>> /\ n.known = 0 /\ n.kept = <<>>
    BY <1>1, <1>3, NoTxFacts
  <1>6. Begin(x, n)
    BY <1>1, <1>2, <1>3 DEF PatchTransfer, Request
  <1>7. Shape(n) /\ StatusSet(n)
    BY <1>2, <1>5 DEF Shape, StatusSet
  <1>8. Sited(n, stock, resources)
    BY <1>2, <1>5, NoMoves, CommittedFacts DEF Sited, Lines
  <1>9. Started(x, n)
    BY <1>2, <1>5 DEF Started
  <1>10. QED
    BY <1>4, <1>6, <1>7, <1>8, <1>9 DEF TxOK

\* The handler of a sale.
LEMMA SaleStarts ==
  ASSUME FormIInv, NEW x \in Actors, NEW p \in Partitions, NEW i \in Deliverable(p), SaleBegins(x, p, i)
  PROVE  \E n \in Tx : Begin(x, n) /\ TxOK(n, stock, resources) /\ Started(x, n)
  <1>1. PICK o \in Tx : o = NoTx
    BY NoTxFacts
  <1>2. i \in Nat /\ i \in 1..Len(Log[p]) /\ <<p, i>> \in SaleRefs /\ <<p, i>> \in Refs
        /\ Len(resources) \in Nat
    BY CommittedFacts DEF Deliverable, SaleRefs, Refs
  <1>3. PICK n : n = [o EXCEPT !.op = "sale", !.ref = <<p, i>>, !.step = "lines",
                               !.known = Len(resources)]
    OBVIOUS
  <1>4. n \in Tx
    <2>1. n = [[[[o EXCEPT !.op = "sale"] EXCEPT !.ref = <<p, i>>] EXCEPT !.step = "lines"]
               EXCEPT !.known = Len(resources)]
      BY <1>3
    <2>2. "sale" \in Operations /\ "lines" \in Steps
      BY FieldFacts
    <2>3. QED
      BY ONLY o \in Tx, <1>2, <2>1, <2>2, TxWith
  <1>5. /\ n.op = "sale" /\ n.ref = <<p, i>> /\ n.step = "lines" /\ n.line = 1 /\ n.row = 0
        /\ n.moves = <<>> /\ n.made = <<>> /\ n.status = "NONE" /\ n.marked = {}
        /\ n.registered = <<>> /\ n.known = Len(resources) /\ n.kept = <<>>
    BY <1>1, <1>3, NoTxFacts
  <1>6. Begin(x, n)
    BY <1>1, <1>3 DEF SaleBegins
  <1>7. Shape(n) /\ StatusSet(n)
    BY <1>2, <1>5 DEF Shape, StatusSet
  <1>8. Sited(n, stock, resources)
    BY <1>2, <1>5, NoMoves, CommittedFacts DEF Sited, Lines
  <1>9. Started(x, n)
    BY <1>2, <1>5 DEF Started
  <1>10. QED
    BY <1>4, <1>6, <1>7, <1>8, <1>9 DEF TxOK

\* A transaction that is opened by a request or for a sale.
BeginsNew(x) ==
  NewRequest(x) \/ \E p \in Partitions : \E i \in Deliverable(p) : SaleBegins(x, p, i)

\* Every request, and every sale, begins as Started says.
LEMMA Starts ==
  ASSUME FormIInv, NEW x \in Actors,
         BeginsNew(x)
  PROVE  /\ \E n \in Tx : Begin(x, n) /\ TxOK(n, stock, resources) /\ Started(x, n)
         /\ UNCHANGED <<streamVars, committedVars>> /\ requests' \in 0..MaxRequests
  <1>0. ASSUME \E t : Request(x, t)
        PROVE  UNCHANGED <<streamVars, committedVars>> /\ requests' \in 0..MaxRequests
    <2>1. requests \in Nat /\ MaxRequests \in Nat /\ requests <= MaxRequests
      BY InventoryAssumption DEF FormIInv, InventoryTypeOK, InventoryAssumption
    <2>2. UNCHANGED <<streamVars, committedVars>> /\ requests < MaxRequests /\ requests' = requests + 1
      BY <1>0 DEF Request
    <2>3. QED
      BY <2>1, <2>2
  <1>1. CASE PostAdjustment(x)
    <2>1. PICK r \in Rows, d \in Deltas : AdjustRead(x, r, d)
      BY <1>1 DEF PostAdjustment
    <2>2. \E t : Request(x, t)
      BY <2>1 DEF AdjustRead
    <2>3. QED
      BY <1>0, <2>1, <2>2, AdjustReadStarts
  <1>2. CASE PostReservation(x)
    <2>1. PICK r \in Rows, q \in Reservable : ReserveRead(x, r, q)
      BY <1>2 DEF PostReservation
    <2>2. \E t : Request(x, t)
      BY <2>1 DEF ReserveRead
    <2>3. QED
      BY <1>0, <2>1, <2>2, ReserveReadStarts
  <1>3. CASE PostReceipt(x)
    <2>1. PICK g \in Receipts : ReceiptInsert(x, g)
      BY <1>3 DEF PostReceipt
    <2>2. \E t : Request(x, t)
      BY <2>1 DEF ReceiptInsert
    <2>3. QED
      BY <1>0, <2>1, <2>2, ReceiptInsertStarts
  <1>4. CASE PostComplete(x)
    <2>1. PICK d \in Transfers : TransferRead(x, d)
      BY <1>4 DEF PostComplete
    <2>2. \E t : Request(x, t)
      BY <2>1 DEF TransferRead
    <2>3. QED
      BY <1>0, <2>1, <2>2, TransferReadStarts
  <1>5. CASE PostSubmit(x)
    <2>1. PICK r \in Counts : SubmitRead(x, r)
      BY <1>5 DEF PostSubmit
    <2>2. \E t : Request(x, t)
      BY <2>1 DEF SubmitRead
    <2>3. QED
      BY <1>0, <2>1, <2>2, SubmitReadStarts
  <1>6. CASE PostApprove(x)
    <2>1. PICK r \in Counts : ApproveRead(x, r)
      BY <1>6 DEF PostApprove
    <2>2. \E t : Request(x, t)
      BY <2>1 DEF ApproveRead
    <2>3. QED
      BY <1>0, <2>1, <2>2, ApproveReadStarts
  <1>7. CASE PostResource(x)
    <2>1. PICK body \in Registrable : RegisterResources(x, body)
      BY <1>7 DEF PostResource
    <2>2. \E t : Request(x, t)
      BY <2>1 DEF RegisterResources
    <2>3. QED
      BY <1>0, <2>1, <2>2, RegisterStarts
  <1>8. CASE PatchInventory(x)
    <2>1. PICK r \in Rows, patch \in Patches : PatchRow(x, r, patch)
      BY <1>8 DEF PatchInventory
    <2>2. PICK m : m = Plus(<<>>, r, Given(patch, "quantity", stock[r].quantity)
                                     - stock[r].quantity)
      OBVIOUS
    <2>3. \E t : Request(x, t)
      BY <2>1 DEF PatchRow
    <2>4. QED
      BY <1>0, <2>1, <2>2, <2>3, PatchRowStarts
  <1>9. CASE PatchStatus(x)
    <2>1. PICK d \in Transfers, status \in PatchStatuses : PatchTransfer(x, d, status)
      BY <1>9 DEF PatchStatus
    <2>2. \E t : Request(x, t)
      BY <2>1 DEF PatchTransfer
    <2>3. QED
      BY <1>0, <2>1, <2>2, PatchTransferStarts
  <1>10. CASE \E p \in Partitions : \E i \in Deliverable(p) : SaleBegins(x, p, i)
    <2>0. PICK p \in Partitions : \E i \in Deliverable(p) : SaleBegins(x, p, i)
      BY <1>10
    <2>1. PICK i \in Deliverable(p) : SaleBegins(x, p, i)
      BY <2>0
    <2>2. UNCHANGED <<streamVars, committedVars>> /\ requests' = requests
      BY <2>1 DEF SaleBegins
    <2>3. requests' \in 0..MaxRequests
      BY <2>2 DEF FormIInv, InventoryTypeOK
    <2>4. QED
      BY <2>1, <2>2, <2>3, SaleStarts
  <1>11. QED
    BY <1>1, <1>2, <1>3, <1>4, <1>5, <1>6, <1>7, <1>8, <1>9, <1>10 DEF NewRequest, BeginsNew

-----------------------------------------------------------------------------
(* The invariant on the form of transactions is kept.                       *)

\* Rows and resources are only added.
LEMMA TxOKLater ==
  ASSUME NEW t \in Tx, NEW rows, NEW goods, NEW rows2, NEW goods2, TxOK(t, rows, goods),
         Len(rows) \in Nat, Len(rows2) \in Nat, Len(rows) <= Len(rows2),
         Len(goods) \in Nat, Len(goods2) \in Nat, Len(goods) <= Len(goods2)
  PROVE  TxOK(t, rows2, goods2)
  <1>1. 1..Len(rows) \subseteq 1..Len(rows2) /\ 1..Len(goods) \subseteq 1..Len(goods2)
    OBVIOUS
  <1>2. t.known \in Nat
    BY DEF Tx
  <1>3. Sited(t, rows2, goods2)
    BY <1>1, <1>2 DEF TxOK, Sited
  <1>4. QED
    BY <1>3 DEF TxOK

\* One transaction is changed; the others stay.
LEMMA TxSet ==
  ASSUME FormIInv, NEW x \in Actors, NEW n, tx' = [tx EXCEPT ![x] = n]
  PROVE  tx'[x] = n /\ \A y \in Actors \ {x} : tx'[y] = tx[y]
  BY DEF FormIInv, InventoryTypeOK

\* A step that changes one transaction and commits nothing.
LEMMA FormKept ==
  ASSUME FormIInv, NEW x \in Actors, NEW n \in Tx, tx' = [tx EXCEPT ![x] = n],
         TxOK(n, stock, resources), UNCHANGED committedVars,
         requests' \in 0..MaxRequests, overlapped' \in BOOLEAN
  PROVE  FormIInv'
  <1>1. stock' = stock /\ resources' = resources /\ doc' = doc /\ receipts' = receipts
        /\ reservations' = reservations /\ booked' = booked /\ brought' = brought
        /\ applied' = applied /\ patched' = patched
    BY DEF committedVars
  <1>2. tx' \in [Actors -> Tx]
    BY DEF FormIInv, InventoryTypeOK
  <1>3. InventoryTypeOK'
    BY <1>1, <1>2 DEF FormIInv, InventoryTypeOK
  <1>4. \A y \in Actors : TxOK(tx'[y], stock', resources')
    BY <1>1, TxSet DEF FormIInv
  <1>5. QED
    BY <1>3, <1>4 DEF FormIInv

\* A statement.
LEMMA FormStatement ==
  ASSUME FormIInv, NEW x \in Actors, NEW n \in Tx, Goes(x, n), TxOK(n, stock, resources)
  PROVE  FormIInv' /\ UNCHANGED committedVars /\ overlapped' = overlapped /\ tx'[x] = n
         /\ \A y \in Actors \ {x} : tx'[y] = tx[y]
  <1>1. requests' \in 0..MaxRequests /\ overlapped' \in BOOLEAN
    BY DEF Goes, FormIInv, InventoryTypeOK
  <1>2. tx' = [tx EXCEPT ![x] = n] /\ UNCHANGED committedVars /\ overlapped' = overlapped
    BY DEF Goes
  <1>3. QED
    BY <1>1, <1>2, FormKept, TxSet

\* The beginning of a transaction.
LEMMA FormBegins ==
  ASSUME FormIInv, NEW x \in Actors, NEW n \in Tx, Begin(x, n), TxOK(n, stock, resources),
         UNCHANGED committedVars, requests' \in 0..MaxRequests
  PROVE  FormIInv' /\ tx[x] = NoTx /\ tx'[x] = n /\ \A y \in Actors \ {x} : tx'[y] = tx[y]
  <1>1. tx' = [tx EXCEPT ![x] = n] /\ overlapped' \in BOOLEAN /\ tx[x] = NoTx
    BY DEF Begin, FormIInv, InventoryTypeOK
  <1>2. QED
    BY <1>1, FormKept, TxSet

\* One sequence after another.
LEMMA ConcatFacts ==
  ASSUME NEW S, NEW a \in Seq(S), NEW b \in Seq(S)
  PROVE  /\ a \o b \in Seq(S) /\ Len(a \o b) = Len(a) + Len(b)
         /\ \A i \in 1..Len(a) : (a \o b)[i] = a[i]
         /\ \A i \in 1..Len(b) : (a \o b)[Len(a) + i] = b[i]
  <1>1. PICK n \in Nat : n = Len(a)
    OBVIOUS
  <1>2. PICK m \in Nat : m = Len(b)
    OBVIOUS
  <1>3. a \o b \in Seq(S) /\ Len(a \o b) = Len(a) + Len(b)
    OBVIOUS
  <1>4. ASSUME NEW i \in 1..Len(a) PROVE (a \o b)[i] = a[i]
    OBVIOUS
  <1>5. ASSUME NEW i \in 1..m PROVE (a \o b)[n + i] = b[i]
    <2>1. n + i \in 1..(n + m) /\ ~(n + i <= n) /\ (n + i) - n = i
      OBVIOUS
    <2>2. QED
      BY <1>1, <1>2, <2>1
  <1>6. QED
    BY <1>1, <1>2, <1>3, <1>4, <1>5

\* The rows after a commit.
LEMMA CommitStock ==
  ASSUME FormIInv, NEW x \in Actors, NEW o \in Tx, o = tx[x], ApplyStock(x)
  PROVE  /\ stock' \in Seq(Row) /\ Len(stock') = Len(stock) + Len(o.made)
         /\ \A r \in Rows : /\ stock'[r].product = stock[r].product
                            /\ stock'[r].quantity = stock[r].quantity + Moved(o, r)
         /\ \A i \in 1..Len(o.made) : stock'[Len(stock) + i] = o.made[i]
  <1>1. stock \in Seq(Row) /\ o.made \in Seq(Row)
    BY CommittedFacts DEF Tx
  <1>2. PICK kept : kept = [r \in Rows |->
                      [stock[r] EXCEPT !.quantity = @ + Moved(o, r),
                         !.status = IF Sets(x, r) /\ o.status # "NONE" THEN o.status ELSE @,
                         !.location = IF Sets(x, r) /\ o.place # NoRef THEN o.place ELSE @]]
    OBVIOUS
  <1>3. \A r \in Rows : kept[r] \in Row /\ kept[r].product = stock[r].product
                        /\ kept[r].quantity = stock[r].quantity + Moved(o, r)
    <2> SUFFICES ASSUME NEW r \in Rows
                 PROVE  kept[r] \in Row /\ kept[r].product = stock[r].product
                        /\ kept[r].quantity = stock[r].quantity + Moved(o, r)
      OBVIOUS
    <2>1. stock[r] \in Row /\ stock[r].quantity + Moved(o, r) \in Int
      BY CommittedFacts, MovedFacts
    <2>2. PICK q \in Int : q = stock[r].quantity + Moved(o, r)
      BY <2>1
    <2>3. /\ Sets(x, r) /\ o.status # "NONE" => o.status \in RowStatuses
          /\ o.place # NoRef => o.place \in Locations
      BY TxFacts DEF TxOK, StatusSet, Sets, Tx
    <2>4. PICK s \in RowStatuses :
            s = IF Sets(x, r) /\ o.status # "NONE" THEN o.status ELSE stock[r].status
      BY <2>1, <2>3 DEF Row
    <2>5. PICK l \in Locations : l = IF Sets(x, r) /\ o.place # NoRef THEN o.place ELSE stock[r].location
      BY <2>1, <2>3 DEF Row
    <2>6. kept[r] = [stock[r] EXCEPT !.quantity = q, !.status = s, !.location = l]
      BY <1>2, <2>1, <2>2, <2>4, <2>5 DEF Row
    <2>7. QED
      BY <2>1, <2>2, <2>6 DEF Row
  <1>4. kept \in Seq(Row) /\ Len(kept) = Len(stock)
    <2>1. PICK n \in Nat : n = Len(stock) /\ Rows = 1..n
      BY CommittedFacts
    <2>2. kept \in [1..n -> Row]
      BY <1>2, <1>3, <2>1
    <2>3. QED
      BY <2>1, <2>2
  <1>5. stock' = kept \o o.made
    BY <1>2 DEF ApplyStock
  <1>6. PICK new \in Seq(Row) : new = o.made
    BY <1>1
  <1>7. /\ kept \o new \in Seq(Row) /\ Len(kept \o new) = Len(kept) + Len(new)
        /\ \A i \in 1..Len(kept) : (kept \o new)[i] = kept[i]
        /\ \A i \in 1..Len(new) : (kept \o new)[Len(kept) + i] = new[i]
    <2>1. kept \in Seq(Row) /\ new \in Seq(Row)
      BY <1>4
    <2>2. QED
      BY ONLY <2>1, ConcatFacts
  <1>8. QED
    BY <1>3, <1>4, <1>5, <1>6, <1>7 DEF Rows

\* The resources after a commit.
LEMMA CommitResources ==
  ASSUME FormIInv, NEW x \in Actors, NEW o \in Tx, o = tx[x], ApplyResources(x)
  PROVE  /\ resources' \in Seq(Resource) /\ Len(resources') = Len(resources) + Len(o.registered)
         /\ \A d \in 1..Len(resources) :
              /\ resources'[d].name = resources[d].name /\ resources'[d].value = resources[d].value
              /\ resources'[d].receipt = resources[d].receipt
              /\ d \in o.marked => resources'[d].status = "SOLD"
         /\ \A i \in 1..Len(o.registered) : resources'[Len(resources) + i] = o.registered[i]
  <1>1. resources \in Seq(Resource) /\ o.registered \in Seq(Resource)
    BY CommittedFacts DEF Tx
  <1>2. PICK kept : kept = [d \in 1..Len(resources) |->
                      IF d \in o.marked THEN [resources[d] EXCEPT !.status = "SOLD"]
                      ELSE resources[d]]
    OBVIOUS
  <1>3. \A d \in 1..Len(resources) :
          /\ kept[d] \in Resource
          /\ kept[d].name = resources[d].name /\ kept[d].value = resources[d].value
          /\ kept[d].receipt = resources[d].receipt
          /\ d \in o.marked => kept[d].status = "SOLD"
    <2> SUFFICES ASSUME NEW d \in 1..Len(resources)
                 PROVE  /\ kept[d] \in Resource
                        /\ kept[d].name = resources[d].name /\ kept[d].value = resources[d].value
                        /\ kept[d].receipt = resources[d].receipt
                        /\ d \in o.marked => kept[d].status = "SOLD"
      OBVIOUS
    <2>1. resources[d] \in Resource
      BY <1>1
    <2>2. CASE d \in o.marked
      BY <1>2, <2>1, <2>2 DEF Resource, ResourceStatuses
    <2>3. CASE d \notin o.marked
      BY <1>2, <2>1, <2>3
    <2>4. QED
      BY <2>2, <2>3
  <1>4. kept \in Seq(Resource) /\ Len(kept) = Len(resources)
    BY <1>1, <1>2, <1>3
  <1>5. resources' = kept \o o.registered
    BY <1>2 DEF ApplyResources
  <1>6. PICK new \in Seq(Resource) : new = o.registered
    BY <1>1
  <1>7. /\ kept \o new \in Seq(Resource) /\ Len(kept \o new) = Len(kept) + Len(new)
        /\ \A i \in 1..Len(kept) : (kept \o new)[i] = kept[i]
        /\ \A i \in 1..Len(new) : (kept \o new)[Len(kept) + i] = new[i]
    <2>1. kept \in Seq(Resource) /\ new \in Seq(Resource)
      BY <1>4
    <2>2. QED
      BY ONLY <2>1, ConcatFacts
  <1>8. QED
    BY <1>3, <1>4, <1>5, <1>6, <1>7

\* What a transaction has added to the rows of a product is a number.
LEMMA MovedOfInt ==
  ASSUME FormIInv, NEW t \in Tx, TxOK(t, stock, resources), NEW p
  PROVE  MovedOf(t, p) \in Int
  <1>1. PICK f : f = [r \in DOMAIN t.moves |-> IF stock[r].product = p THEN t.moves[r] ELSE 0]
    OBVIOUS
  <1>2. IsFiniteSet(DOMAIN f)
    <2>1. DOMAIN f \subseteq 1..Len(stock) /\ Len(stock) \in Nat
      BY <1>1, CommittedFacts DEF TxOK, Sited
    <2>2. IsFiniteSet(1..Len(stock))
      BY <2>1, FS_Interval
    <2>3. QED
      BY <2>1, <2>2, FS_Subset
  <1>3. \A r \in DOMAIN f : f[r] \in Int
    BY <1>1, MovedFacts
  <1>4. SumFunction(f) \in Int
    BY <1>2, <1>3, SumFunctionInt
  <1>5. QED
    BY <1>1, <1>4 DEF MovedOf

\* What a transaction books.
LEMMA ToBookInt ==
  ASSUME FormIInv, NEW x \in Actors, NEW p
  PROVE  ToBook(tx[x], p) \in Int
  <1>1. PICK o \in Tx : o = tx[x] /\ TxOK(o, stock, resources)
    BY TxFacts
  <1>2. MovedOf(o, p) \in Int /\ o.delta \in Int
    BY <1>1, MovedOfInt DEF Tx
  <1>3. o.op = "receive" => ReceiptOf[o.ref].quantity \in Int
    BY <1>1, NoTxFacts, DocumentFacts DEF TxOK, Shape
  <1>4. ToBook(o, p) \in Int
    BY <1>2, <1>3 DEF ToBook
  <1>5. QED
    BY <1>1, <1>4

\* A commit.
LEMMA FormCommit ==
  ASSUME FormIInv, NEW x \in Actors, Apply(x), Ends(x)
  PROVE  /\ FormIInv' /\ overlapped' = overlapped
         /\ tx'[x] = NoTx /\ \A y \in Actors \ {x} : tx'[y] = tx[y]
  <1>1. PICK o \in Tx : o = tx[x] /\ TxOK(o, stock, resources)
    BY TxFacts
  <1>2. tx' = [tx EXCEPT ![x] = NoTx] /\ requests' = requests /\ overlapped' = overlapped
    BY DEF Ends
  <1>3. tx'[x] = NoTx /\ \A y \in Actors \ {x} : tx'[y] = tx[y]
    BY <1>2, TxSet
  <1>4. tx' \in [Actors -> Tx] /\ requests' \in 0..MaxRequests /\ overlapped' \in BOOLEAN
    BY <1>2, NoTxFacts DEF FormIInv, InventoryTypeOK
  <1>5. /\ stock' \in Seq(Row) /\ Len(stock') = Len(stock) + Len(o.made)
        /\ resources' \in Seq(Resource) /\ Len(resources') = Len(resources) + Len(o.registered)
    BY <1>1, CommitStock, CommitResources DEF Apply
  <1>6. doc' \in [Documents -> TransferStatuses \cup CountStatuses \cup {"NONE"}]
        /\ (\A t \in Transfers : doc'[t] \in TransferStatuses \cup {"NONE"})
        /\ \A r \in Counts : doc'[r] \in CountStatuses \cup {"NONE"}
    <2>1. /\ doc \in [Documents -> TransferStatuses \cup CountStatuses \cup {"NONE"}]
          /\ \A t \in Transfers : doc[t] \in TransferStatuses \cup {"NONE"}
          /\ \A r \in Counts : doc[r] \in CountStatuses \cup {"NONE"}
      BY DEF FormIInv, InventoryTypeOK
    <2>2. CASE o.status # "NONE" /\ o.ref # NoRef
      <3>1. \/ o.ref \in Transfers /\ o.status \in TransferStatuses
            \/ o.ref \in Counts /\ o.status \in CountStatuses
        BY <1>1, <2>2, NoTxFacts DEF TxOK, Shape, StatusSet, TransferStatuses, CountStatuses
      <3>2. doc' = [doc EXCEPT ![o.ref] = o.status]
        BY <1>1, <2>2 DEF Apply
      <3>3. Transfers \cap Counts = {}
        BY InventoryAssumption DEF InventoryAssumption
      <3>4. QED
        BY <2>1, <3>1, <3>2, <3>3 DEF Documents
    <2>3. CASE ~(o.status # "NONE" /\ o.ref # NoRef)
      BY <1>1, <2>1, <2>3 DEF Apply
    <2>4. QED
      BY <2>2, <2>3
  <1>7. receipts' \subseteq Receipts /\ brought' \in [Receipts -> Nat]
    <2>1. receipts \subseteq Receipts /\ brought \in [Receipts -> Nat]
      BY DEF FormIInv, InventoryTypeOK
    <2>2. CASE o.op = "receive"
      <3>1. o.ref \in Receipts
        BY <1>1, <2>2, NoTxFacts DEF TxOK, Shape
      <3>2. receipts' = receipts \cup {o.ref} /\ brought' = [brought EXCEPT ![o.ref] = @ + 1]
        BY <1>1, <2>2 DEF Apply, ApplyReceipt
      <3>3. QED
        BY <2>1, <3>1, <3>2
    <2>3. CASE o.op # "receive"
      BY <1>1, <2>1, <2>3 DEF Apply, ApplyReceipt
    <2>4. QED
      BY <2>2, <2>3
  <1>8. reservations' \in Seq([row : Nat, quantity : Int])
    <2>1. reservations \in Seq([row : Nat, quantity : Int])
      BY DEF FormIInv, InventoryTypeOK
    <2>2. PICK new \in [row : Nat, quantity : Int] : new = [row |-> o.row, quantity |-> o.delta]
      BY DEF Tx
    <2>3. reservations' = Append(reservations, new) \/ reservations' = reservations
      BY <1>1, <2>2 DEF Apply, ApplyReservation
    <2>4. PICK R : R = [row : Nat, quantity : Int]
      OBVIOUS
    <2>5. reservations \in Seq(R) /\ new \in R
      BY <2>1, <2>2, <2>4
    <2>6. reservations' \in Seq(R)
      BY <2>3, <2>5
    <2>7. QED
      BY <2>4, <2>6
  <1>9. booked' \in [Products -> Int]
    <2>1. \A p \in Products : booked[p] \in Int /\ ToBook(tx[x], p) \in Int
      BY ToBookInt DEF FormIInv, InventoryTypeOK
    <2>2. booked' = [p \in Products |-> booked[p] + ToBook(tx[x], p)]
      BY DEF Apply
    <2>3. QED
      BY <2>1, <2>2
  <1>10. applied' \in [Documents -> Nat] /\ patched' \subseteq Documents
    <2>1. applied \in [Documents -> Nat] /\ patched \subseteq Documents
      BY DEF FormIInv, InventoryTypeOK
    <2>2. o.op \in {"transfer", "approve", "mend"} => o.ref \in Documents
      BY <1>1, NoTxFacts DEF TxOK, Shape, Documents
    <2>3. QED
      BY <1>1, <2>1, <2>2 DEF Apply
  <1>11. InventoryTypeOK'
    BY <1>4, <1>5, <1>6, <1>7, <1>8, <1>9, <1>10 DEF InventoryTypeOK
  <1>12. \A y \in Actors : TxOK(tx'[y], stock', resources')
    <2>1. Len(stock) \in Nat /\ Len(resources) \in Nat /\ Len(o.made) \in Nat /\ Len(o.registered) \in Nat
      BY CommittedFacts DEF Tx
    <2>2. /\ Len(stock') \in Nat /\ Len(stock) <= Len(stock')
          /\ Len(resources') \in Nat /\ Len(resources) <= Len(resources')
      BY <1>5, <2>1
    <2>3. ASSUME NEW y \in Actors \ {x} PROVE TxOK(tx'[y], stock', resources')
      <3>1. PICK t \in Tx : t = tx[y] /\ TxOK(t, stock, resources)
        BY <2>3, TxFacts
      <3>2. TxOK(t, stock', resources')
        BY ONLY t \in Tx, <2>1, <2>2, <3>1, TxOKLater
      <3>3. QED
        BY <1>3, <3>1, <3>2
    <2>4. TxOK(NoTx, stock', resources')
      BY <2>2, NoTxFacts, NoMoves DEF TxOK, Shape, Sited, StatusSet
    <2>5. QED
      BY <1>3, <2>3, <2>4
  <1>13. QED
    BY <1>2, <1>3, <1>11, <1>12 DEF FormIInv

\* A transaction is rolled back.
LEMMA FormFails ==
  ASSUME FormIInv, NEW x \in Actors, Fails(x)
  PROVE  /\ FormIInv' /\ UNCHANGED committedVars /\ overlapped' = overlapped
         /\ tx'[x] = NoTx /\ \A y \in Actors \ {x} : tx'[y] = tx[y]
  <1>1. tx' = [tx EXCEPT ![x] = NoTx] /\ UNCHANGED committedVars
        /\ requests' = requests /\ overlapped' = overlapped
    BY DEF Fails, Ends
  <1>2. TxOK(NoTx, stock, resources)
    BY NoTxFacts, NoMoves, CommittedFacts DEF TxOK, Shape, Sited, StatusSet
  <1>3. requests' \in 0..MaxRequests /\ overlapped' \in BOOLEAN
    BY <1>1 DEF FormIInv, InventoryTypeOK
  <1>4. NoTx \in Tx
    BY NoTxFacts
  <1>5. FormIInv'
    BY <1>1, <1>2, <1>3, <1>4, FormKept
  <1>6. QED
    BY <1>1, <1>5, TxSet

\* A new row, open to everybody at once.
LEMMA FormCreateRow ==
  ASSUME FormIInv, NEW row \in NewRows, CreateRow(row)
  PROVE  /\ FormIInv' /\ row \in Row /\ row.product \in Products /\ row.quantity \in Nat
         /\ Len(stock') = Len(stock) + 1 /\ stock'[Len(stock) + 1] = row
         /\ \A r \in Rows : stock'[r] = stock[r]
  <1>1. row \in Row /\ row.product \in Products /\ row.quantity \in Nat
    BY InventoryAssumption DEF InventoryAssumption, ProductInventoryCreate, Row
  <1>2. PICK n \in Nat : n = Len(stock)
    BY CommittedFacts
  <1>3. /\ stock' \in Seq(Row) /\ Len(stock') = n + 1 /\ stock'[n + 1] = row
        /\ \A r \in 1..n : stock'[r] = stock[r]
    <2>1. stock \in Seq(Row) /\ stock' = Append(stock, row)
      BY CommittedFacts DEF CreateRow
    <2>2. QED
      BY <1>1, <1>2, <2>1
  <1>4. /\ doc' = doc /\ receipts' = receipts /\ reservations' = reservations
        /\ resources' = resources /\ brought' = brought /\ applied' = applied /\ patched' = patched
        /\ tx' = tx /\ overlapped' = overlapped
    BY DEF CreateRow
  <1>5. requests' \in 0..MaxRequests
    <2>1. requests \in Nat /\ MaxRequests \in Nat /\ requests < MaxRequests /\ requests' = requests + 1
      BY InventoryAssumption DEF FormIInv, InventoryTypeOK, InventoryAssumption, CreateRow
    <2>2. QED
      BY <2>1
  <1>6. booked' \in [Products -> Int]
    <2>1. booked \in [Products -> Int]
      BY DEF FormIInv, InventoryTypeOK
    <2>2. booked[row.product] + row.quantity \in Int
      BY <1>1, <2>1
    <2>3. booked' = [booked EXCEPT ![row.product] = booked[row.product] + row.quantity]
      BY DEF CreateRow
    <2>4. QED
      BY <1>1, <2>1, <2>2, <2>3
  <1>7. InventoryTypeOK'
    BY <1>3, <1>4, <1>5, <1>6 DEF FormIInv, InventoryTypeOK
  <1>8. \A y \in Actors : TxOK(tx'[y], stock', resources')
    <2>1. /\ Len(stock) \in Nat /\ Len(stock') \in Nat /\ Len(stock) <= Len(stock')
          /\ Len(resources) \in Nat /\ Len(resources) <= Len(resources)
      BY <1>2, <1>3, CommittedFacts
    <2>2. ASSUME NEW y \in Actors PROVE TxOK(tx'[y], stock', resources')
      <3>1. PICK t \in Tx : t = tx[y] /\ TxOK(t, stock, resources)
        BY <2>2, TxFacts
      <3>2. TxOK(t, stock', resources)
        BY ONLY t \in Tx, <2>1, <3>1, TxOKLater
      <3>3. QED
        BY <1>4, <3>1, <3>2
    <2>3. QED
      BY <2>2
  <1>9. QED
    BY <1>1, <1>2, <1>3, <1>7, <1>8 DEF FormIInv, Rows

\* A new document, or a reservation released.
LEMMA FormOther ==
  ASSUME FormIInv,
         PostTransfer \/ PostReconciliation \/ DeleteReservation
  PROVE  /\ FormIInv' /\ UNCHANGED <<stock, receipts, resources, booked, brought, applied, patched,
                                     tx, overlapped>>
         /\ \/ doc' = doc
            \/ \E d \in Documents : /\ doc[d] = "NONE"
                                    /\ \/ doc' = [doc EXCEPT ![d] = "PENDING"]
                                       \/ doc' = [doc EXCEPT ![d] = "DRAFT"]
  <1>1. CASE PostTransfer \/ PostReconciliation
    <2>1. PICK d \in Documents, s \in {"PENDING", "DRAFT"} : /\ CreateDocument(d, s)
                                                             /\ \/ d \in Transfers /\ s = "PENDING"
                                                                \/ d \in Counts /\ s = "DRAFT"
      BY <1>1 DEF PostTransfer, PostReconciliation, CreateTransfer, CreateReconciliation, Documents
    <2>2. doc[d] = "NONE" /\ doc' = [doc EXCEPT ![d] = s]
          /\ UNCHANGED <<stock, receipts, reservations, resources, booked, brought, applied, patched,
                         tx, requests, overlapped>>
      BY <2>1 DEF CreateDocument
    <2>3. /\ doc' \in [Documents -> TransferStatuses \cup CountStatuses \cup {"NONE"}]
          /\ \A t \in Transfers : doc'[t] \in TransferStatuses \cup {"NONE"}
          /\ \A r \in Counts : doc'[r] \in CountStatuses \cup {"NONE"}
      <3>1. /\ doc \in [Documents -> TransferStatuses \cup CountStatuses \cup {"NONE"}]
            /\ \A t \in Transfers : doc[t] \in TransferStatuses \cup {"NONE"}
            /\ \A r \in Counts : doc[r] \in CountStatuses \cup {"NONE"}
        BY DEF FormIInv, InventoryTypeOK
      <3>2. Transfers \cap Counts = {}
        BY InventoryAssumption DEF InventoryAssumption
      <3>3. \/ d \in Transfers /\ s \in TransferStatuses
            \/ d \in Counts /\ s \in CountStatuses
        BY <2>1 DEF TransferStatuses, CountStatuses
      <3>4. QED
        BY <2>2, <3>1, <3>2, <3>3 DEF Documents
    <2>4. InventoryTypeOK'
      BY <2>2, <2>3 DEF FormIInv, InventoryTypeOK
    <2>5. QED
      BY <2>1, <2>2, <2>4 DEF FormIInv
  <1>2. CASE DeleteReservation
    <2>1. PICK i \in 1..Len(reservations) : Release(i)
      BY <1>2 DEF DeleteReservation
    <2>2. UNCHANGED <<stock, doc, receipts, resources, booked, brought, applied, patched, tx, overlapped>>
      BY <2>1 DEF Release
    <2>3. PICK R : R = [row : Nat, quantity : Int]
      OBVIOUS
    <2>4. reservations' \in Seq(R)
      <3>1. reservations \in Seq(R)
        BY <2>3 DEF FormIInv, InventoryTypeOK
      <3>2. PICK n \in Nat : n = Len(reservations)
        BY <3>1
      <3>3. i \in 1..n /\ i - 1 \in Nat /\ i + 1 \in Nat
        BY <3>2
      <3>4. PICK a \in Seq(R) : a = SubSeq(reservations, 1, i - 1)
        <4>1. PICK j \in Int : j = i - 1
          BY <3>3
        <4>2. \A k \in 1..j : reservations[k] \in R
          BY <3>1, <3>2, <3>3, <4>1
        <4>3. SubSeq(reservations, 1, j) \in Seq(R)
          BY ONLY j \in Int, <4>2, SubSeqProperties
        <4>4. QED
          BY <4>1, <4>3
      <3>5. PICK b \in Seq(R) : b = SubSeq(reservations, i + 1, n)
        <4>1. PICK j \in Int : j = i + 1
          BY <3>3
        <4>2. \A k \in j..n : reservations[k] \in R
          BY <3>1, <3>2, <3>3, <4>1
        <4>3. SubSeq(reservations, j, n) \in Seq(R)
          BY ONLY j \in Int, n \in Nat, <4>2, SubSeqProperties
        <4>4. QED
          BY <4>1, <4>3
      <3>6. reservations' = a \o b
        BY <2>1, <3>2, <3>4, <3>5 DEF Release
      <3>7. QED
        BY <3>6
    <2>5. requests' \in 0..MaxRequests
      <3>1. requests \in Nat /\ MaxRequests \in Nat /\ requests < MaxRequests /\ requests' = requests + 1
        BY <2>1, InventoryAssumption DEF FormIInv, InventoryTypeOK, InventoryAssumption, Release
      <3>2. QED
        BY <3>1
    <2>6. InventoryTypeOK'
      BY <2>2, <2>3, <2>4, <2>5 DEF FormIInv, InventoryTypeOK
    <2>7. QED
      BY <2>2, <2>6 DEF FormIInv
  <1>3. QED
    BY <1>1, <1>2

\* A step that is none of the service's.
LEMMA FormElse ==
  ASSUME FormIInv, UNCHANGED stockVars
  PROVE  FormIInv' /\ UNCHANGED <<stock, doc, receipts, resources, booked, brought, applied, patched,
                                  tx, overlapped>>
  <1>1. /\ UNCHANGED <<stock, doc, receipts, reservations, resources, booked, brought, applied,
                       patched, tx, requests, overlapped>>
    BY DEF stockVars, committedVars
  <1>2. InventoryTypeOK'
    BY <1>1 DEF FormIInv, InventoryTypeOK
  <1>3. QED
    BY <1>1, <1>2 DEF FormIInv

\* Initially.
LEMMA FormInit == ASSUME Init PROVE FormIInv
  <1>1. Opening \in Seq(Row)
    <2>1. Opening \in Seq(ProductInventoryCreate) /\ \A row \in ProductInventoryCreate : row \in Row
      BY InventoryAssumption DEF InventoryAssumption, ProductInventoryCreate
    <2>2. QED
      BY <2>1
  <1>2. <<>> \in Seq([row : Nat, quantity : Int]) /\ <<>> \in Seq(Resource)
    OBVIOUS
  <1>3. InventoryTypeOK
    <2>1. /\ doc \in [Documents -> TransferStatuses \cup CountStatuses \cup {"NONE"}]
          /\ \A t \in Transfers : doc[t] \in TransferStatuses \cup {"NONE"}
          /\ \A r \in Counts : doc[r] \in CountStatuses \cup {"NONE"}
      BY DEF Init, Documents
    <2>2. tx \in [Actors -> Tx]
      BY NoTxFacts DEF Init
    <2>3. /\ booked \in [Products -> Int] /\ brought \in [Receipts -> Nat]
          /\ applied \in [Documents -> Nat]
      BY DEF Init
    <2>4. requests \in 0..MaxRequests
      BY InventoryAssumption DEF Init, InventoryAssumption
    <2>5. QED
      BY <1>1, <1>2, <2>1, <2>2, <2>3, <2>4 DEF Init, InventoryTypeOK
  <1>4. \A x \in Actors : TxOK(tx[x], stock, resources)
    <2>1. Len(stock) \in Nat /\ Len(resources) \in Nat
      BY <1>3, CommittedFacts DEF InventoryTypeOK
    <2>2. TxOK(NoTx, stock, resources)
      BY <2>1, NoTxFacts, NoMoves DEF TxOK, Shape, Sited, StatusSet
    <2>3. QED
      BY <2>2 DEF Init
  <1>5. QED
    BY <1>3, <1>4 DEF FormIInv

\* A transaction commits after its last statement.
Done(t) == t.step = "ready" \/ (t.op = "sale" /\ t.step = "lines" /\ t.line > Len(Lines(t)))
Commits(x) == Apply(x) /\ Ends(x) /\ Done(tx[x])
Changes == PostTransfer \/ PostReconciliation \/ DeleteReservation

\* The ways the service can take a step.
LEMMA StepCases ==
  ASSUME [Next]_vars
  PROVE  \/ \E x \in Actors : Statement(x) \/ BeginsNew(x) \/ Commits(x) \/ Fails(x)
         \/ \E row \in NewRows : CreateRow(row)
         \/ Changes
         \/ UNCHANGED stockVars
  <1>1. ASSUME NEW c \in Calls, CommitRequest(c) PROVE c \in Actors /\ Commits(c)
    BY <1>1 DEF CommitRequest, Commits, Done, Actors
  <1>2. ASSUME NEW w \in Workers, CommitSale(w) PROVE w \in Actors /\ Commits(w)
    BY <1>2 DEF CommitSale, Commits, Done, Actors
  <1>3. ASSUME NEW c \in Calls, NewRequest(c) PROVE c \in Actors /\ BeginsNew(c)
    BY <1>3 DEF BeginsNew, Actors
  <1>4. ASSUME NEW w \in Workers, NEW p \in Partitions, NEW i \in Deliverable(p), SaleBegins(w, p, i)
        PROVE  w \in Actors /\ BeginsNew(w)
    BY <1>4 DEF BeginsNew, Actors
  <1>5. ASSUME UNCHANGED vars PROVE UNCHANGED stockVars
    BY <1>5 DEF vars
  <1>6. QED
    BY <1>1, <1>2, <1>3, <1>4, <1>5 DEF Next, PostInventory, Changes

\* The invariant on the form of transactions is inductive.
LEMMA FormStep == ASSUME FormIInv, [Next]_vars PROVE FormIInv'
  <1>1. ASSUME NEW x \in Actors, Statement(x) PROVE FormIInv'
    BY <1>1, StatementEffect, FormStatement
  <1>2. ASSUME NEW x \in Actors, BeginsNew(x) PROVE FormIInv'
    BY <1>2, Starts, FormBegins
  <1>3. ASSUME NEW x \in Actors, Commits(x) PROVE FormIInv'
    BY <1>3, FormCommit DEF Commits
  <1>4. ASSUME NEW x \in Actors, Fails(x) PROVE FormIInv'
    BY <1>4, FormFails
  <1>5. ASSUME NEW row \in NewRows, CreateRow(row) PROVE FormIInv'
    BY <1>5, FormCreateRow
  <1>6. ASSUME Changes PROVE FormIInv'
    BY <1>6, FormOther DEF Changes
  <1>7. ASSUME UNCHANGED stockVars PROVE FormIInv'
    BY <1>7, FormElse
  <1>8. QED
    BY <1>1, <1>2, <1>3, <1>4, <1>5, <1>6, <1>7, StepCases

\* The state is well-formed, and so is every open transaction: it refers to a sale,
\* document or receipt of its kind, is at a statement of its operation, and points at
\* rows, lines and resources that are there.
THEOREM WellFormed == Spec => []FormIInv
  <1>1. Init => FormIInv
    BY FormInit
  <1>2. FormIInv /\ [Next]_vars => FormIInv'
    BY FormStep
  <1>3. QED
    BY <1>1, <1>2, PTL DEF Spec

-----------------------------------------------------------------------------
(* Transfers and counts.  Without overlap the one transaction that is open  *)
(* still finds its document as it has read it.                              *)

Open(x) == tx[x] # NoTx
Alone == ~overlapped => \A x, y \in Actors : Open(x) /\ Open(y) => x = y

\* What a transaction has found of its document is so until it commits.
AsRead(t, of) ==
  /\ t.op = "transfer" => of[t.ref] \notin {"NONE", "DELIVERED", "CANCELLED"}
  /\ t.op = "approve" => of[t.ref] = "SUBMITTED"
  /\ t.op = "submit" => of[t.ref] = "DRAFT"
DocumentsIInv ==
  Alone /\ AppliedAsStated /\ (~overlapped => \A x \in Actors : AsRead(tx[x], doc))

\* The transaction that makes a statement, or commits, was open.
LEMMA IsOpen ==
  ASSUME FormIInv, NEW x \in Actors, Statement(x) \/ Commits(x)
  PROVE  Open(x)
  <1>1. CASE Statement(x)
    BY <1>1, StatementEffect, NoTxFacts DEF Open, Same
  <1>2. CASE Commits(x)
    BY <1>2, NoTxFacts DEF Open, Commits, Done
  <1>3. QED
    BY <1>1, <1>2

\* Transactions have not overlapped, and do not: there is one at most.
LEMMA AloneStep == ASSUME FormIInv, Alone, [Next]_vars PROVE Alone'
  <1>1. ASSUME NEW x \in Actors, Statement(x) PROVE Alone'
    <2>1. overlapped' = overlapped /\ Open(x) /\ \A y \in Actors \ {x} : tx'[y] = tx[y]
      BY <1>1, StatementEffect, FormStatement, IsOpen
    <2>2. QED
      BY <2>1 DEF Alone, Open
  <1>2. ASSUME NEW x \in Actors, BeginsNew(x) PROVE Alone'
    <2>1. overlapped' = (overlapped \/ \E y \in Actors \ {x} : tx[y] # NoTx)
          /\ \A y \in Actors \ {x} : tx'[y] = tx[y]
      BY <1>2, Starts, FormBegins DEF Begin
    <2>2. QED
      BY <2>1 DEF Alone, Open
  <1>3. ASSUME NEW x \in Actors, Commits(x) \/ Fails(x) PROVE Alone'
    <2>1. overlapped' = overlapped /\ tx'[x] = NoTx /\ \A y \in Actors \ {x} : tx'[y] = tx[y]
      BY <1>3, FormCommit, FormFails DEF Commits
    <2>2. QED
      BY <2>1 DEF Alone, Open
  <1>4. ASSUME (\E row \in NewRows : CreateRow(row)) \/ Changes \/ UNCHANGED stockVars PROVE Alone'
    <2>1. overlapped' = overlapped /\ tx' = tx
      BY <1>4, FormOther, FormElse DEF CreateRow, Changes
    <2>2. QED
      BY <2>1 DEF Alone, Open
  <1>5. QED
    BY <1>1, <1>2, <1>3, <1>4, StepCases

\* A commit of the only transaction.
LEMMA DocumentsCommit ==
  ASSUME FormIInv, DocumentsIInv, NEW x \in Actors, Commits(x), ~overlapped
  PROVE  /\ \A d \in Documents \ patched' :
              applied'[d] = IF doc'[d] \in {"DELIVERED", "APPROVED"} THEN 1 ELSE 0
         /\ \A y \in Actors : AsRead(tx'[y], doc')
  <1>1. PICK o \in Tx : o = tx[x] /\ TxOK(o, stock, resources) /\ AsRead(o, doc)
    BY TxFacts DEF DocumentsIInv
  <1>2. /\ doc' = IF o.status # "NONE" /\ o.ref # NoRef THEN [doc EXCEPT ![o.ref] = o.status] ELSE doc
        /\ applied' = IF o.op \in {"transfer", "approve"} THEN [applied EXCEPT ![o.ref] = @ + 1] ELSE applied
        /\ patched' = IF o.op = "mend" THEN patched \cup {o.ref} ELSE patched
    BY <1>1 DEF Commits, Apply
  <1>3. /\ doc \in [Documents -> TransferStatuses \cup CountStatuses \cup {"NONE"}]
        /\ \A t \in Transfers : doc[t] \in TransferStatuses \cup {"NONE"}
        /\ applied \in [Documents -> Nat]
    BY DEF FormIInv, InventoryTypeOK
  <1>4. \A d \in Documents \ patched : applied[d] = IF doc[d] \in {"DELIVERED", "APPROVED"} THEN 1 ELSE 0
    BY DEF DocumentsIInv, AppliedAsStated
  <1>5. \A y \in Actors : tx'[y] = NoTx
    <2>1. tx'[x] = NoTx /\ \A y \in Actors \ {x} : tx'[y] = tx[y]
      BY FormCommit DEF Commits
    <2>2. \A y \in Actors \ {x} : tx[y] = NoTx
      BY IsOpen DEF DocumentsIInv, Alone, Open
    <2>3. QED
      BY <2>1, <2>2
  <1>6. \A y \in Actors : AsRead(tx'[y], doc')
    BY <1>5, NoTxFacts DEF AsRead
  <1>7. NoRef \notin Documents
    BY InventoryAssumption DEF InventoryAssumption
  <1>8. Shape(o) /\ StatusSet(o) /\ Done(o)
    BY <1>1 DEF TxOK, Commits
  <1>9. ASSUME NEW d \in Documents \ patched'
        PROVE  applied'[d] = IF doc'[d] \in {"DELIVERED", "APPROVED"} THEN 1 ELSE 0
    <2>1. d \notin patched
      BY <1>2
    <2>2. CASE o.op = "transfer"
      <3>1. o.ref \in Documents /\ o.ref \in Transfers /\ o.step = "ready" /\ o.status = "DELIVERED"
        BY <1>8, <2>2, NoTxFacts DEF Shape, StatusSet, Done, Documents
      <3>2. doc' = [doc EXCEPT ![o.ref] = "DELIVERED"] /\ applied' = [applied EXCEPT ![o.ref] = @ + 1]
        BY <1>2, <1>7, <2>2, <3>1
      <3>3. doc[o.ref] \notin {"NONE", "DELIVERED", "APPROVED"}
        BY <1>1, <1>3, <2>2, <3>1 DEF AsRead, TransferStatuses
      <3>4. QED
        BY <1>3, <1>4, <2>1, <3>1, <3>2, <3>3
    <2>3. CASE o.op = "approve"
      <3>1. o.ref \in Documents /\ o.step = "ready" /\ o.status = "APPROVED"
        BY <1>8, <2>3, NoTxFacts DEF Shape, StatusSet, Done, Documents
      <3>2. doc' = [doc EXCEPT ![o.ref] = "APPROVED"] /\ applied' = [applied EXCEPT ![o.ref] = @ + 1]
        BY <1>2, <1>7, <2>3, <3>1
      <3>3. doc[o.ref] = "SUBMITTED"
        BY <1>1, <2>3 DEF AsRead
      <3>4. QED
        BY <1>3, <1>4, <2>1, <3>1, <3>2, <3>3
    <2>4. CASE o.op = "submit"
      <3>1. o.ref \in Documents /\ o.step = "ready" /\ o.status = "SUBMITTED"
        BY <1>8, <2>4, NoTxFacts DEF Shape, StatusSet, Done, Documents
      <3>2. doc' = [doc EXCEPT ![o.ref] = "SUBMITTED"] /\ applied' = applied
        BY <1>2, <1>7, <2>4, <3>1
      <3>3. doc[o.ref] = "DRAFT"
        BY <1>1, <2>4 DEF AsRead
      <3>4. QED
        BY <1>3, <1>4, <2>1, <3>1, <3>2, <3>3
    <2>5. CASE o.op = "mend"
      <3>1. d # o.ref /\ o.ref \in Documents
        BY <1>2, <1>8, <2>5, NoTxFacts DEF Shape, Documents
      <3>2. applied' = applied /\ doc'[d] = doc[d]
        BY <1>2, <1>3, <2>5, <3>1
      <3>3. QED
        BY <1>4, <2>1, <3>2
    <2>6. CASE o.op \notin {"transfer", "approve", "submit", "mend"}
      <3>1. o.status = "NONE" \/ o.ref = NoRef
        BY <1>8, <2>6, NoTxFacts DEF Shape, StatusSet
      <3>2. applied' = applied /\ doc' = doc
        BY <1>2, <2>6, <3>1
      <3>3. QED
        BY <1>4, <2>1, <3>2
    <2>7. QED
      BY <2>2, <2>3, <2>4, <2>5, <2>6
  <1>10. QED
    BY <1>6, <1>9

\* The invariant on documents is inductive.
LEMMA DocumentsStep ==
  ASSUME FormIInv, DocumentsIInv, [Next]_vars
  PROVE  DocumentsIInv'
  <1>0. Alone'
    BY AloneStep DEF DocumentsIInv
  <1>1. ASSUME ~overlapped'
        PROVE  /\ \A d \in Documents \ patched' :
                    applied'[d] = IF doc'[d] \in {"DELIVERED", "APPROVED"} THEN 1 ELSE 0
               /\ \A y \in Actors : AsRead(tx'[y], doc')
    <2> DEFINE Goal == /\ \A d \in Documents \ patched' :
                            applied'[d] = IF doc'[d] \in {"DELIVERED", "APPROVED"} THEN 1 ELSE 0
                       /\ \A y \in Actors : AsRead(tx'[y], doc')
    <2>1. ASSUME NEW x \in Actors, NEW n \in Tx, UNCHANGED <<doc, applied, patched>>,
                 tx'[x] = n, \A y \in Actors \ {x} : tx'[y] = tx[y],
                 ~overlapped, AsRead(n, doc)
          PROVE  Goal
      <3>1. \A y \in Actors : AsRead(tx'[y], doc')
        BY <2>1 DEF DocumentsIInv
      <3>2. QED
        BY <2>1, <3>1 DEF DocumentsIInv, AppliedAsStated
    <2>2. ASSUME NEW x \in Actors, Statement(x) PROVE Goal
      <3>1. PICK n \in Tx : Goes(x, n) /\ TxOK(n, stock, resources) /\ Same(tx[x], n)
        BY <2>2, StatementEffect
      <3>2. /\ UNCHANGED committedVars /\ overlapped' = overlapped /\ tx'[x] = n
            /\ \A y \in Actors \ {x} : tx'[y] = tx[y]
        BY <3>1, FormStatement
      <3>3. AsRead(n, doc) /\ ~overlapped
        BY <1>1, <3>1, <3>2 DEF DocumentsIInv, AsRead, Same
      <3>4. UNCHANGED <<doc, applied, patched>>
        BY <3>2 DEF committedVars
      <3> HIDE DEF Goal
      <3>5. QED
        BY ONLY n \in Tx, <2>1, <3>2, <3>3, <3>4
    <2>3. ASSUME NEW x \in Actors, BeginsNew(x) PROVE Goal
      <3>1. PICK n \in Tx : Begin(x, n) /\ TxOK(n, stock, resources) /\ Started(x, n)
        BY <2>3, Starts
      <3>2. UNCHANGED committedVars /\ requests' \in 0..MaxRequests
        BY <2>3, Starts
      <3>3. tx'[x] = n /\ \A y \in Actors \ {x} : tx'[y] = tx[y]
        BY <3>1, <3>2, FormBegins
      <3>4. AsRead(n, doc) /\ ~overlapped
        BY <1>1, <3>1 DEF Started, AsRead, Begin
      <3>5. UNCHANGED <<doc, applied, patched>>
        BY <3>2 DEF committedVars
      <3> HIDE DEF Goal
      <3>6. QED
        BY ONLY x \in Actors, n \in Tx, <2>1, <3>3, <3>4, <3>5
    <2>4. ASSUME NEW x \in Actors, Commits(x) PROVE Goal
      <3>1. ~overlapped
        BY <1>1, <2>4 DEF Commits, Ends
      <3>2. QED
        BY <2>4, <3>1, DocumentsCommit
    <2>5. ASSUME NEW x \in Actors, Fails(x) PROVE Goal
      <3>1. /\ UNCHANGED committedVars /\ overlapped' = overlapped /\ tx'[x] = NoTx
            /\ \A y \in Actors \ {x} : tx'[y] = tx[y]
        BY <2>5, FormFails
      <3>2. AsRead(NoTx, doc) /\ ~overlapped /\ NoTx \in Tx
        BY <1>1, <3>1, NoTxFacts DEF AsRead
      <3>3. UNCHANGED <<doc, applied, patched>>
        BY <3>1 DEF committedVars
      <3> HIDE DEF Goal
      <3>4. QED
        BY ONLY x \in Actors, <2>1, <3>1, <3>2, <3>3
    <2>6. ASSUME (\E row \in NewRows : CreateRow(row)) \/ UNCHANGED stockVars PROVE Goal
      <3>1. UNCHANGED <<doc, applied, patched, tx, overlapped>>
        BY <2>6, FormElse DEF CreateRow
      <3>2. QED
        BY <1>1, <3>1 DEF DocumentsIInv, AppliedAsStated
    <2>7. ASSUME Changes PROVE Goal
      <3>1. UNCHANGED <<applied, patched, tx, overlapped>>
        BY <2>7, FormOther DEF Changes
      <3>2. CASE doc' = doc
        BY <1>1, <3>1, <3>2 DEF DocumentsIInv, AppliedAsStated
      <3>3. CASE \E d \in Documents : /\ doc[d] = "NONE"
                                      /\ \/ doc' = [doc EXCEPT ![d] = "PENDING"]
                                         \/ doc' = [doc EXCEPT ![d] = "DRAFT"]
        <4>1. PICK d \in Documents, s \in {"PENDING", "DRAFT"} :
                doc[d] = "NONE" /\ doc' = [doc EXCEPT ![d] = s]
          BY <3>3
        <4>2. doc \in [Documents -> TransferStatuses \cup CountStatuses \cup {"NONE"}]
          BY DEF FormIInv, InventoryTypeOK
        <4>3. doc'[d] = s /\ \A e \in Documents \ {d} : doc'[e] = doc[e]
          BY <4>1, <4>2
        <4>4. \A e \in Documents \ patched' :
                applied'[e] = IF doc'[e] \in {"DELIVERED", "APPROVED"} THEN 1 ELSE 0
          BY <1>1, <3>1, <4>1, <4>3 DEF DocumentsIInv, AppliedAsStated
        <4>5. ASSUME NEW y \in Actors PROVE AsRead(tx'[y], doc')
          <5>1. PICK t \in Tx : t = tx[y] /\ TxOK(t, stock, resources) /\ AsRead(t, doc)
            BY <1>1, <3>1, TxFacts DEF DocumentsIInv
          <5>2. t.op \in {"transfer", "approve", "submit"} => t.ref \in Documents /\ t.ref # d
            BY <4>1, <5>1, NoTxFacts DEF TxOK, Shape, AsRead, Documents
          <5>3. AsRead(t, doc')
            BY <4>3, <5>1, <5>2 DEF AsRead
          <5>4. QED
            BY <3>1, <5>1, <5>3
        <4>6. QED
          BY <4>4, <4>5
      <3>4. QED
        BY <2>7, <3>2, <3>3, FormOther DEF Changes
    <2>8. QED
      BY <2>2, <2>3, <2>4, <2>5, <2>6, <2>7, StepCases
  <1>2. QED
    BY <1>0, <1>1 DEF DocumentsIInv, AppliedAsStated

\* Without overlap and without statuses set by hand, a transfer is moved, and a count
\* applied, exactly once and exactly when its status says so (complete_transfer,
\* approve_reconciliation).
THEOREM BookedAsStated == Spec => []AppliedAsStated
  <1>1. Init => FormIInv /\ DocumentsIInv
    <2> SUFFICES ASSUME Init PROVE FormIInv /\ DocumentsIInv
      OBVIOUS
    <2>1. FormIInv
      BY FormInit
    <2>2. Alone /\ \A x \in Actors : AsRead(tx[x], doc)
      BY NoTxFacts DEF Init, Alone, Open, AsRead
    <2>3. AppliedAsStated
      BY DEF Init, AppliedAsStated
    <2>4. QED
      BY <2>1, <2>2, <2>3 DEF DocumentsIInv
  <1>2. FormIInv /\ DocumentsIInv /\ [Next]_vars => (FormIInv /\ DocumentsIInv)'
    BY FormStep, DocumentsStep
  <1>3. DocumentsIInv => AppliedAsStated
    BY DEF DocumentsIInv
  <1>4. QED
    BY <1>1, <1>2, <1>3, PTL DEF Spec

-----------------------------------------------------------------------------
(* Receipts and the resources they register.  No two resources, and no two  *)
(* that open transactions are about to add, share an identity value.        *)

\* The index on identity values counts this resource.
Indexed(d) == d.name \in IdentityNames
Unique(goods) ==
  \A i, j \in 1..Len(goods) :
    Indexed(goods[i]) /\ Indexed(goods[j]) /\ goods[i].value = goods[j].value => i = j
Apart(goods, others) ==
  \A i \in 1..Len(goods), j \in 1..Len(others) :
    Indexed(goods[i]) /\ Indexed(others[j]) => goods[i].value # others[j].value

\* What a transaction registers: a receipt, when all is done, its serial numbers.
Registers(t) ==
  /\ t.op = "register" \/ (t.op = "receive" /\ t.step = "ready") \/ t.registered = <<>>
  /\ Unique(t.registered)
  /\ t.op = "register" => \A i \in 1..Len(t.registered) : t.registered[i].receipt = NoRef
  /\ t.op = "receive" /\ t.step = "ready" =>
       /\ \A i \in 1..Len(t.registered) :
            /\ t.registered[i].receipt = t.ref /\ t.registered[i].name = "SERIAL_NUMBER"
            /\ t.registered[i].value \in ReceiptOf[t.ref].serials
       /\ \A value \in ReceiptOf[t.ref].serials :
            \E i \in 1..Len(t.registered) : t.registered[i].value = value
Filing(t, goods, numbers) ==
  Registers(t) /\ Apart(t.registered, goods) /\ (t.op = "receive" => t.ref \notin numbers)
Distinct(t, u) ==
  Apart(t.registered, u.registered) /\ ~(t.op = "receive" /\ u.op = "receive" /\ t.ref = u.ref)

\* What is committed: a receipt's resources are those of a number on file, all
\* of them and no others.
Filed(goods, numbers) ==
  /\ Unique(goods)
  /\ \A d \in 1..Len(goods) :
       goods[d].receipt # NoRef =>
         /\ goods[d].receipt \in numbers /\ goods[d].name = "SERIAL_NUMBER"
         /\ goods[d].value \in ReceiptOf[goods[d].receipt].serials
  /\ \A g \in numbers : \A value \in ReceiptOf[g].serials :
       \E d \in 1..Len(goods) : goods[d].receipt = g /\ goods[d].value = value

ReceiptsIInv ==
  /\ Filed(resources, receipts)
  /\ \A g \in Receipts : brought[g] = IF g \in receipts THEN 1 ELSE 0
  /\ \A x \in Actors : Filing(tx[x], resources, receipts)
  /\ \A x, y \in Actors : x # y => Distinct(tx[x], tx[y])

\* A transaction that registers nothing.
LEMMA NothingFiled ==
  /\ \A goods : Apart(<<>>, goods) /\ Apart(goods, <<>>)
  /\ Unique(<<>>)
  /\ \A goods, numbers : Filing(NoTx, goods, numbers)
  /\ \A t : Distinct(NoTx, t) /\ Distinct(t, NoTx)
  <1>1. (\A goods : Apart(<<>>, goods) /\ Apart(goods, <<>>)) /\ Unique(<<>>)
    <2>1. Len(<<>>) = 0 /\ 1..0 = {}
      OBVIOUS
    <2>2. QED
      BY <2>1 DEF Apart, Unique
  <1>2. QED
    BY <1>1, NoTxFacts DEF Filing, Registers, Distinct

\* A step in which one transaction goes on, begins or is rolled back.
LEMMA ReceiptsKept ==
  ASSUME ReceiptsIInv, NEW x \in Actors, NEW n,
         UNCHANGED <<resources, receipts, brought>>,
         tx'[x] = n, \A y \in Actors \ {x} : tx'[y] = tx[y],
         Filing(n, resources, receipts), \A y \in Actors \ {x} : Distinct(n, tx[y])
  PROVE  ReceiptsIInv'
  <1>1. \A t, u : Distinct(t, u) => Distinct(u, t)
    BY DEF Distinct, Apart
  <1>2. \A y \in Actors : Filing(tx'[y], resources', receipts')
    BY DEF ReceiptsIInv
  <1>3. ASSUME NEW y \in Actors, NEW z \in Actors, y # z PROVE Distinct(tx'[y], tx'[z])
    <2>1. CASE y = x
      BY <1>3, <2>1
    <2>2. CASE z = x
      BY <1>1, <1>3, <2>2
    <2>3. CASE y # x /\ z # x
      BY <1>3, <2>3 DEF ReceiptsIInv
    <2>4. QED
      BY <2>1, <2>2, <2>3
  <1>4. Filed(resources', receipts') /\ \A g \in Receipts : brought'[g] = IF g \in receipts' THEN 1 ELSE 0
    BY DEF ReceiptsIInv
  <1>5. QED
    BY <1>2, <1>3, <1>4 DEF ReceiptsIInv

\* A transaction that is ready makes no more statements.
LEMMA StatementStep == \A x : Statement(x) => tx[x].step # "ready"
  BY DEF Statement, AdjustQuantity, LineRead, AtLine, LineSkipped, LinesApplied, SourceRead, Debit,
         CreditRead, Credit, CreditNewRow, CompleteTransfer, UpdateReconciliation, UpdateStatus, Reserve,
         MarkSold, RegisterSerials

\* The serial numbers of a receipt are registered: nobody has them, or is about to.
LEMMA ReceiptsRegister ==
  ASSUME FormIInv, ReceiptsIInv, NEW x \in Actors, RegisterSerials(x)
  PROVE  ReceiptsIInv'
  <1>1. PICK o \in Tx : o = tx[x] /\ TxOK(o, stock, resources) /\ Filing(o, resources, receipts)
    BY TxFacts DEF ReceiptsIInv
  <1>2. PICK n \in Tx :
          /\ Goes(x, n) /\ TxOK(n, stock, resources)
          /\ o.op = "receive" /\ o.ref \in Receipts /\ Same(o, n) /\ n.step = "ready"
          /\ \A value \in ReceiptOf[o.ref].serials : IdentityFree(x, value)
          /\ \E k \in Nat : \E listed \in Bijection(1..k, ReceiptOf[o.ref].serials) :
               /\ Len(n.registered) = k
               /\ \A i \in 1..k :
                    /\ n.registered[i].name = "SERIAL_NUMBER" /\ n.registered[i].value = listed[i]
                    /\ n.registered[i].receipt = o.ref
    BY <1>1, RegisterEffect
  <1>a. PICK k \in Nat : \E listed \in Bijection(1..k, ReceiptOf[o.ref].serials) :
          /\ Len(n.registered) = k
          /\ \A i \in 1..k :
               /\ n.registered[i].name = "SERIAL_NUMBER" /\ n.registered[i].value = listed[i]
               /\ n.registered[i].receipt = o.ref
    BY <1>2
  <1>3. PICK listed \in Bijection(1..k, ReceiptOf[o.ref].serials) :
          /\ Len(n.registered) = k
          /\ \A i \in 1..k :
               /\ n.registered[i].name = "SERIAL_NUMBER" /\ n.registered[i].value = listed[i]
               /\ n.registered[i].receipt = o.ref
    BY <1>a
  <1>4. /\ listed \in [1..k -> ReceiptOf[o.ref].serials]
        /\ \A i, j \in 1..k : listed[i] = listed[j] => i = j
        /\ \A value \in ReceiptOf[o.ref].serials : \E i \in 1..k : listed[i] = value
    BY DEF Bijection, Injection, Surjection, IsInjective
  <1>5. Registers(n)
    BY <1>2, <1>3, <1>4 DEF Registers, Unique, Same
  <1>6. Apart(n.registered, resources)
    BY <1>2, <1>3, <1>4 DEF Apart, IdentityFree, IdentityTaken, Indexed
  <1>7. ASSUME NEW y \in Actors \ {x} PROVE Distinct(n, tx[y])
    <2>1. Apart(n.registered, tx[y].registered)
      BY <1>2, <1>3, <1>4 DEF Apart, IdentityFree, IdentityTaken, Indexed
    <2>2. Distinct(o, tx[y])
      BY <1>1 DEF ReceiptsIInv
    <2>3. QED
      BY <1>2, <2>1, <2>2 DEF Distinct, Same
  <1>8. Filing(n, resources, receipts)
    BY <1>1, <1>2, <1>5, <1>6 DEF Filing, Same
  <1>9. /\ UNCHANGED committedVars /\ tx'[x] = n /\ \A y \in Actors \ {x} : tx'[y] = tx[y]
    BY <1>2, FormStatement
  <1>10. UNCHANGED <<resources, receipts, brought>>
    BY <1>9 DEF committedVars
  <1>11. QED
    BY <1>7, <1>8, <1>9, <1>10, ReceiptsKept

\* A transaction begins: a receipt with a number nobody has, resources with values
\* nobody has, each other included.
LEMMA ReceiptsBegin ==
  ASSUME FormIInv, ReceiptsIInv, NEW x \in Actors, BeginsNew(x)
  PROVE  ReceiptsIInv'
  <1>1. PICK n \in Tx : Begin(x, n) /\ TxOK(n, stock, resources) /\ Started(x, n)
    BY Starts
  <1>2. UNCHANGED committedVars /\ requests' \in 0..MaxRequests
    BY Starts
  <1>3. tx'[x] = n /\ \A y \in Actors \ {x} : tx'[y] = tx[y]
    BY <1>1, <1>2, FormBegins
  <1>4. UNCHANGED <<resources, receipts, brought>>
    BY <1>2 DEF committedVars
  <1>5. Filing(n, resources, receipts) /\ \A y \in Actors \ {x} : Distinct(n, tx[y])
    <2>1. CASE n.op # "register"
      <3>1. n.registered = <<>> /\ (n.op = "receive" => n.step = "credit" /\ n.ref \notin receipts
                                                         /\ NumberFree(x, n.ref))
        BY <1>1, <2>1 DEF Started
      <3>2. Filing(n, resources, receipts)
        BY <2>1, <3>1, NothingFiled DEF Filing, Registers
      <3>3. ASSUME NEW y \in Actors \ {x} PROVE Distinct(n, tx[y])
        BY <3>1, NothingFiled DEF Distinct, NumberFree
      <3>4. QED
        BY <3>2, <3>3
    <2>2. CASE n.op = "register"
      <3>1. PICK body \in Registrable :
              /\ n.registered = body
              /\ \A i \in 1..Len(body) : body[i].name \in IdentityNames =>
                   /\ IdentityFree(x, body[i].value)
                   /\ ~IdentityTaken(SubSeq(body, 1, i - 1), body[i].value)
        BY <1>1, <2>2 DEF Started
      <3>2. body \in Seq({d \in Resource : d.receipt = NoRef})
        BY InventoryAssumption DEF InventoryAssumption
      <3>3. Unique(body)
        <4>1. SUFFICES ASSUME NEW i \in 1..Len(body), NEW j \in 1..Len(body), i < j,
                              Indexed(body[i]), Indexed(body[j]), body[i].value = body[j].value
                       PROVE  FALSE
          BY <3>2 DEF Unique
        <4>2. PICK k \in Nat : k = j - 1 /\ i \in 1..k /\ \A m \in 1..k : m \in 1..Len(body)
          BY <3>2, <4>1
        <4>3. \A m \in 1..k : body[m] \in Resource
          BY <3>2, <4>2
        <4>4. /\ Len(SubSeq(body, 1, k)) = IF 1 <= k THEN k - 1 + 1 ELSE 0
              /\ \A m \in 1..(k - 1 + 1) : SubSeq(body, 1, k)[m] = body[1 + m - 1]
          BY <4>3, SubSeqProperties
        <4>5. i \in 1..Len(SubSeq(body, 1, k)) /\ SubSeq(body, 1, k)[i] = body[i]
          BY <4>2, <4>4
        <4>6. IdentityTaken(SubSeq(body, 1, k), body[j].value)
          BY <4>1, <4>5 DEF IdentityTaken, Indexed
        <4>7. QED
          BY <3>1, <4>1, <4>2, <4>6 DEF Indexed
      <3>4. Registers(n)
        BY <2>2, <3>1, <3>2, <3>3 DEF Registers
      <3>5. Apart(n.registered, resources)
        BY <3>1 DEF Apart, IdentityFree, IdentityTaken, Indexed
      <3>6. ASSUME NEW y \in Actors \ {x} PROVE Distinct(n, tx[y])
        <4>1. Apart(n.registered, tx[y].registered)
          BY <3>1 DEF Apart, IdentityFree, IdentityTaken, Indexed
        <4>2. QED
          BY <2>2, <4>1 DEF Distinct
      <3>7. QED
        BY <2>2, <3>4, <3>5, <3>6 DEF Filing
    <2>3. QED
      BY <2>1, <2>2
  <1>6. QED
    BY <1>3, <1>4, <1>5, ReceiptsKept

\* After a commit a resource is one that was there, or one that was registered.
LEMMA ResourceSplit ==
  ASSUME FormIInv, NEW x \in Actors, NEW o \in Tx, o = tx[x], ApplyResources(x)
  PROVE  \A e \in 1..Len(resources') :
           \/ /\ e \in 1..Len(resources)
              /\ resources'[e].name = resources[e].name /\ resources'[e].value = resources[e].value
              /\ resources'[e].receipt = resources[e].receipt
           \/ \E i \in 1..Len(o.registered) :
                e = Len(resources) + i /\ resources'[e] = o.registered[i]
  <1>1. PICK n \in Nat : n = Len(resources)
    BY CommittedFacts
  <1>2. PICK m \in Nat : m = Len(o.registered)
    BY DEF Tx
  <1>3. /\ Len(resources') = n + m
        /\ \A d \in 1..n :
             /\ resources'[d].name = resources[d].name /\ resources'[d].value = resources[d].value
             /\ resources'[d].receipt = resources[d].receipt
        /\ \A i \in 1..m : resources'[n + i] = o.registered[i]
    BY <1>1, <1>2, CommitResources
  <1>4. ASSUME NEW e \in 1..(n + m), e \notin 1..n
        PROVE  \E i \in 1..m : e = n + i /\ resources'[e] = o.registered[i]
    <2>1. PICK i \in Int : i = e - n
      OBVIOUS
    <2>2. i \in 1..m /\ e = n + i
      BY <1>4, <2>1
    <2>3. QED
      BY <1>3, <2>2
  <1>5. ASSUME NEW e \in 1..(n + m)
        PROVE  \/ /\ e \in 1..n
                  /\ resources'[e].name = resources[e].name /\ resources'[e].value = resources[e].value
                  /\ resources'[e].receipt = resources[e].receipt
               \/ \E i \in 1..m : e = n + i /\ resources'[e] = o.registered[i]
    BY <1>3, <1>4
  <1>6. QED
    BY <1>1, <1>2, <1>3, <1>5

\* A commit.
LEMMA ReceiptsCommit ==
  ASSUME FormIInv, ReceiptsIInv, NEW x \in Actors, Commits(x)
  PROVE  ReceiptsIInv'
  <1>1. PICK o \in Tx : o = tx[x] /\ TxOK(o, stock, resources) /\ Filing(o, resources, receipts)
    BY TxFacts DEF ReceiptsIInv
  <1>2. tx'[x] = NoTx /\ \A y \in Actors \ {x} : tx'[y] = tx[y]
    BY FormCommit DEF Commits
  <1>3. PICK new \in Seq(Resource) : new = o.registered
    BY DEF Tx
  <1>4. \A e \in 1..Len(resources') :
           \/ /\ e \in 1..Len(resources)
              /\ resources'[e].name = resources[e].name /\ resources'[e].value = resources[e].value
              /\ resources'[e].receipt = resources[e].receipt
           \/ \E i \in 1..Len(new) : e = Len(resources) + i /\ resources'[e] = new[i]
    BY <1>1, <1>3, ResourceSplit DEF Commits, Apply
  <1>5. /\ \A d \in 1..Len(resources) :
             /\ d \in 1..Len(resources')
             /\ resources'[d].name = resources[d].name /\ resources'[d].value = resources[d].value
             /\ resources'[d].receipt = resources[d].receipt
        /\ \A i \in 1..Len(new) : /\ Len(resources) + i \in 1..Len(resources')
                                  /\ resources'[Len(resources) + i] = new[i]
    <2>1. PICK n \in Nat : n = Len(resources)
      BY CommittedFacts
    <2>2. PICK m \in Nat : m = Len(new)
      OBVIOUS
    <2>3. /\ Len(resources') = n + m
          /\ \A d \in 1..n : /\ resources'[d].name = resources[d].name
                             /\ resources'[d].value = resources[d].value
                             /\ resources'[d].receipt = resources[d].receipt
          /\ \A i \in 1..m : resources'[n + i] = new[i]
      BY <1>1, <1>3, <2>1, <2>2, CommitResources DEF Commits, Apply
    <2>4. \A d \in 1..n : d \in 1..(n + m)
      OBVIOUS
    <2>5. \A i \in 1..m : n + i \in 1..(n + m)
      OBVIOUS
    <2>6. QED
      BY <2>1, <2>2, <2>3, <2>4, <2>5
  <1>6. Registers(o) /\ Unique(new) /\ Apart(new, resources) /\ Filed(resources, receipts)
    BY <1>1, <1>3 DEF Filing, Registers, ReceiptsIInv
  <1>7. Unique(resources')
    <2>1. SUFFICES ASSUME NEW e \in 1..Len(resources'), NEW f \in 1..Len(resources'),
                          Indexed(resources'[e]), Indexed(resources'[f]),
                          resources'[e].value = resources'[f].value
                   PROVE  e = f
      BY DEF Unique
    <2>2. Unique(resources)
      BY <1>6 DEF Filed
    <2>3. CASE e \in 1..Len(resources) /\ f \in 1..Len(resources)
      BY <1>4, <2>1, <2>2, <2>3 DEF Unique, Indexed
    <2>4. CASE e \notin 1..Len(resources) /\ f \notin 1..Len(resources)
      <3>1. PICK i \in 1..Len(new) : e = Len(resources) + i /\ resources'[e] = new[i]
        BY <1>4, <2>4
      <3>2. PICK j \in 1..Len(new) : f = Len(resources) + j /\ resources'[f] = new[j]
        BY <1>4, <2>4
      <3>3. i = j
        BY <1>6, <2>1, <3>1, <3>2 DEF Unique
      <3>4. QED
        BY <3>1, <3>2, <3>3
    <2>5. CASE e \notin 1..Len(resources) /\ f \in 1..Len(resources)
      <3>1. PICK i \in 1..Len(new) : resources'[e] = new[i]
        BY <1>4, <2>5
      <3>2. resources'[f].name = resources[f].name /\ resources'[f].value = resources[f].value
        BY <1>5, <2>5
      <3>3. QED
        BY <1>6, <2>1, <2>5, <3>1, <3>2 DEF Apart, Indexed
    <2>6. CASE e \in 1..Len(resources) /\ f \notin 1..Len(resources)
      <3>1. PICK i \in 1..Len(new) : resources'[f] = new[i]
        BY <1>4, <2>6
      <3>2. resources'[e].name = resources[e].name /\ resources'[e].value = resources[e].value
        BY <1>5, <2>6
      <3>3. QED
        BY <1>6, <2>1, <2>6, <3>1, <3>2 DEF Apart, Indexed
    <2>7. QED
      BY <2>3, <2>4, <2>5, <2>6
  <1>8. Shape(o) /\ Done(o)
    BY <1>1 DEF TxOK, Commits
  <1>9. IF o.op = "receive"
        THEN /\ o.step = "ready" /\ o.ref \in Receipts /\ o.ref \notin receipts
             /\ receipts' = receipts \cup {o.ref} /\ brought' = [brought EXCEPT ![o.ref] = @ + 1]
        ELSE receipts' = receipts /\ brought' = brought
    BY <1>1, <1>8, NoTxFacts DEF Commits, Apply, ApplyReceipt, Shape, Done, Filing
  <1>10. \A e \in 1..Len(resources') :
           resources'[e].receipt # NoRef =>
             /\ resources'[e].receipt \in receipts' /\ resources'[e].name = "SERIAL_NUMBER"
             /\ resources'[e].value \in ReceiptOf[resources'[e].receipt].serials
    <2>1. \A i \in 1..Len(new) : new[i].receipt # NoRef =>
            /\ o.op = "receive" /\ new[i].receipt = o.ref /\ new[i].name = "SERIAL_NUMBER"
            /\ new[i].value \in ReceiptOf[o.ref].serials
      <3>1. CASE new = <<>>
        BY <3>1
      <3>2. CASE o.op = "register"
        BY <1>3, <1>6, <3>2 DEF Registers
      <3>3. CASE o.op = "receive" /\ o.step = "ready"
        BY <1>3, <1>6, <3>3 DEF Registers
      <3>4. QED
        BY <1>3, <1>6, <3>1, <3>2, <3>3 DEF Registers
    <2>2. \A d \in 1..Len(resources) :
            resources[d].receipt # NoRef =>
              /\ resources[d].receipt \in receipts /\ resources[d].name = "SERIAL_NUMBER"
              /\ resources[d].value \in ReceiptOf[resources[d].receipt].serials
      BY <1>6 DEF Filed
    <2>3. receipts \subseteq receipts' /\ (o.op = "receive" => o.ref \in receipts')
      BY <1>9
    <2>4. ASSUME NEW e \in 1..Len(resources'), resources'[e].receipt # NoRef
          PROVE  /\ resources'[e].receipt \in receipts' /\ resources'[e].name = "SERIAL_NUMBER"
                 /\ resources'[e].value \in ReceiptOf[resources'[e].receipt].serials
      <3>1. CASE e \in 1..Len(resources) /\ resources'[e].name = resources[e].name
                 /\ resources'[e].value = resources[e].value
                 /\ resources'[e].receipt = resources[e].receipt
        BY <2>2, <2>3, <2>4, <3>1
      <3>2. CASE \E i \in 1..Len(new) : e = Len(resources) + i /\ resources'[e] = new[i]
        BY <2>1, <2>3, <2>4, <3>2
      <3>3. QED
        BY <1>4, <3>1, <3>2
    <2>5. QED
      BY <2>4
  <1>11. ASSUME NEW g \in receipts', NEW value \in ReceiptOf[g].serials
         PROVE  \E d \in 1..Len(resources') : resources'[d].receipt = g /\ resources'[d].value = value
    <2>1. CASE g \in receipts
      BY <1>5, <1>6, <2>1 DEF Filed
    <2>2. CASE g \notin receipts
      <3>1. o.op = "receive" /\ o.step = "ready" /\ g = o.ref
        BY <1>9, <2>2
      <3>2. PICK i \in 1..Len(new) : new[i].value = value /\ new[i].receipt = g
        BY <1>3, <1>6, <3>1 DEF Registers
      <3>3. QED
        BY <1>5, <3>2
    <2>3. QED
      BY <2>1, <2>2
  <1>12. ASSUME NEW g \in Receipts PROVE brought'[g] = IF g \in receipts' THEN 1 ELSE 0
    <2>1. brought \in [Receipts -> Nat] /\ brought[g] = IF g \in receipts THEN 1 ELSE 0
      BY DEF ReceiptsIInv, FormIInv, InventoryTypeOK
    <2>2. QED
      BY <1>9, <2>1
  <1>13. ASSUME NEW y \in Actors \ {x} PROVE Filing(tx[y], resources', receipts')
    <2>1. Filing(tx[y], resources, receipts) /\ Distinct(o, tx[y])
      BY <1>1 DEF ReceiptsIInv
    <2>2. Apart(tx[y].registered, resources')
      <3>1. Apart(tx[y].registered, resources) /\ Apart(new, tx[y].registered)
        BY <1>3, <2>1 DEF Distinct, Filing
      <3>2. SUFFICES ASSUME NEW i \in 1..Len(tx[y].registered), NEW e \in 1..Len(resources'),
                            Indexed(tx[y].registered[i]), Indexed(resources'[e])
                     PROVE  tx[y].registered[i].value # resources'[e].value
        BY DEF Apart
      <3>3. CASE e \in 1..Len(resources) /\ resources'[e].name = resources[e].name
                 /\ resources'[e].value = resources[e].value
        BY <3>1, <3>2, <3>3 DEF Apart, Indexed
      <3>4. CASE \E j \in 1..Len(new) : e = Len(resources) + j /\ resources'[e] = new[j]
        BY <3>1, <3>2, <3>4 DEF Apart
      <3>5. QED
        BY <1>4, <3>3, <3>4
    <2>3. tx[y].op = "receive" => tx[y].ref \notin receipts'
      BY <1>9, <2>1 DEF Distinct, Filing
    <2>4. QED
      BY <2>1, <2>2, <2>3 DEF Filing
  <1>14. \A y \in Actors : Filing(tx'[y], resources', receipts')
    BY <1>2, <1>13, NothingFiled
  <1>15. ASSUME NEW y \in Actors, NEW z \in Actors, y # z PROVE Distinct(tx'[y], tx'[z])
    BY <1>2, <1>15, NothingFiled DEF ReceiptsIInv
  <1>16. Filed(resources', receipts')
    BY <1>7, <1>10, <1>11 DEF Filed
  <1>17. QED
    BY <1>12, <1>14, <1>15, <1>16 DEF ReceiptsIInv

\* The invariant on receipts and resources is inductive.
LEMMA ReceiptsStep ==
  ASSUME FormIInv, ReceiptsIInv, [Next]_vars
  PROVE  ReceiptsIInv'
  <1>1. ASSUME NEW x \in Actors, Statement(x) PROVE ReceiptsIInv'
    <2>1. CASE RegisterSerials(x)
      BY <2>1, ReceiptsRegister
    <2>2. CASE ~RegisterSerials(x)
      <3>1. PICK n \in Tx :
              /\ Goes(x, n) /\ TxOK(n, stock, resources) /\ Same(tx[x], n)
              /\ n.registered = tx[x].registered /\ (n.op = "receive" => n.step # "ready")
        BY <1>1, <2>2, StatementEffect
      <3>2. tx[x].step # "ready" /\ Filing(tx[x], resources, receipts)
        BY <1>1, StatementStep DEF ReceiptsIInv
      <3>3. Filing(n, resources, receipts)
        BY <3>1, <3>2 DEF Filing, Registers, Same
      <3>4. \A y \in Actors \ {x} : Distinct(n, tx[y])
        BY <3>1 DEF ReceiptsIInv, Distinct, Same
      <3>5. UNCHANGED committedVars /\ tx'[x] = n /\ \A y \in Actors \ {x} : tx'[y] = tx[y]
        BY <3>1, FormStatement
      <3>6. UNCHANGED <<resources, receipts, brought>>
        BY <3>5 DEF committedVars
      <3>7. QED
        BY <3>3, <3>4, <3>5, <3>6, ReceiptsKept
    <2>3. QED
      BY <2>1, <2>2
  <1>2. ASSUME NEW x \in Actors, BeginsNew(x) PROVE ReceiptsIInv'
    BY <1>2, ReceiptsBegin
  <1>3. ASSUME NEW x \in Actors, Commits(x) PROVE ReceiptsIInv'
    BY <1>3, ReceiptsCommit
  <1>4. ASSUME NEW x \in Actors, Fails(x) PROVE ReceiptsIInv'
    <2>1. /\ UNCHANGED committedVars /\ tx'[x] = NoTx /\ \A y \in Actors \ {x} : tx'[y] = tx[y]
      BY <1>4, FormFails
    <2>2. UNCHANGED <<resources, receipts, brought>>
      BY <2>1 DEF committedVars
    <2>3. Filing(NoTx, resources, receipts) /\ \A y \in Actors \ {x} : Distinct(NoTx, tx[y])
      BY NothingFiled
    <2>4. QED
      BY <2>1, <2>2, <2>3, ReceiptsKept
  <1>5. ASSUME (\E row \in NewRows : CreateRow(row)) \/ Changes \/ UNCHANGED stockVars
        PROVE  ReceiptsIInv'
    <2>1. UNCHANGED <<resources, receipts, brought, tx>>
      BY <1>5, FormOther, FormElse DEF CreateRow, Changes
    <2>2. QED
      BY <2>1 DEF ReceiptsIInv
  <1>6. QED
    BY <1>1, <1>2, <1>3, <1>4, <1>5, StepCases

\* What is filed of a receipt are its serial numbers, which identify nothing else.
LEMMA FiledOnce ==
  ASSUME ReceiptsIInv, NEW g \in Receipts
  PROVE  /\ {resources[d].value : d \in RegisteredWith(g)} =
              IF g \in receipts THEN ReceiptOf[g].serials ELSE {}
         /\ \A d \in RegisteredWith(g) : Identified(resources[d].value) = {d}
  <1>1. Filed(resources, receipts) /\ g # NoRef
    BY InventoryAssumption DEF ReceiptsIInv, InventoryAssumption
  <1>2. \A d \in RegisteredWith(g) :
          /\ d \in 1..Len(resources) /\ g \in receipts
          /\ resources[d].name = "SERIAL_NUMBER" /\ resources[d].value \in ReceiptOf[g].serials
    BY <1>1 DEF RegisteredWith, Filed
  <1>3. g \in receipts => \A value \in ReceiptOf[g].serials :
          \E d \in RegisteredWith(g) : resources[d].value = value
    BY <1>1 DEF RegisteredWith, Filed
  <1>4. \A d \in RegisteredWith(g) : Identified(resources[d].value) = {d}
    BY <1>1, <1>2 DEF Identified, Filed, Unique, Indexed, IdentityNames
  <1>5. {resources[d].value : d \in RegisteredWith(g)} =
          IF g \in receipts THEN ReceiptOf[g].serials ELSE {}
    BY <1>2, <1>3
  <1>6. QED
    BY <1>4, <1>5

\* However often a receipt is posted, also at the same time, its number is booked at most
\* once and is on file exactly if it was; the resources registered with it then have its
\* serial numbers, and none else in the service, of any receipt or request, identifies
\* itself by one of them as IMEI or SERIAL_NUMBER.  A resource named SERIAL may have the
\* same value: no index covers it (receive_stock, uq_resource_identity).
THEOREM ReceiptsBookedOnce == Spec => []ReceivedOnce
  <1>1. Init => FormIInv /\ ReceiptsIInv
    <2> SUFFICES ASSUME Init PROVE FormIInv /\ ReceiptsIInv
      OBVIOUS
    <2>1. FormIInv
      BY FormInit
    <2>2. Len(resources) = 0 /\ 1..0 = {} /\ resources = <<>>
      BY DEF Init
    <2>3. Filed(resources, receipts)
      BY <2>2 DEF Init, Filed, Unique
    <2>4. QED
      BY <2>1, <2>3, NothingFiled DEF Init, ReceiptsIInv
  <1>2. FormIInv /\ ReceiptsIInv /\ [Next]_vars => (FormIInv /\ ReceiptsIInv)'
    BY FormStep, ReceiptsStep
  <1>3. ReceiptsIInv => ReceivedOnce
    BY FiledOnce DEF ReceivedOnce, ReceiptsIInv
  <1>4. QED
    BY <1>1, <1>2, <1>3, PTL DEF Spec

-----------------------------------------------------------------------------
(* Devices.  A sale has marked what it has looked up; what it looks up is   *)
(* every serial number of the lines that are behind it.                     *)

\* The rows the service started with are still there.
OpeningKept ==
  Len(Opening) <= Len(stock) /\ \A i \in 1..Len(Opening) : stock[i].product = Opening[i].product
Stocked(product) == \E i \in 1..Len(Opening) : Opening[i].product = product

LookedUp(t, value) ==
  \/ \E k \in 1..Len(Lines(t)) :
       k < t.line /\ Stocked(Lines(t)[k].product) /\ value \in Lines(t)[k].serials
  \/ t.step = "serials" /\ value \in SerialsOf(t) /\ value \notin t.todo
\* A serial number finds this resource, as an IMEI or as a SERIAL.
Finds(goods, d) ==
  \/ goods[d].name = "IMEI"
  \/ /\ goods[d].name = "SERIAL"
     /\ ~ \E e \in 1..Len(goods) : goods[e].name = "IMEI" /\ goods[e].value = goods[d].value
FoundSold(t, goods) ==
  t.op = "sale" =>
    \A d \in 1..t.known : LookedUp(t, goods[d].value) /\ Finds(goods, d) => d \in t.marked
DevicesIInv == OpeningKept /\ \A x \in Actors : FoundSold(tx[x], resources)

\* A transaction that has looked up no more.
LEMMA FoundSoldKept ==
  ASSUME NEW o \in Tx, NEW n \in Tx, NEW goods, FoundSold(o, goods), Same(o, n), o.marked \subseteq n.marked,
         n.op = "sale" => \A value : LookedUp(n, value) => LookedUp(o, value)
  PROVE  FoundSold(n, goods)
  BY DEF FoundSold, Same

\* From a line to the next, when its serial numbers are looked up or it has none, or when
\* it has no row; or to its serial numbers.
LEMMA LookedUpNext ==
  ASSUME NEW o \in Tx, NEW n \in Tx, o.op = "sale", o.ref \in SaleRefs, o.line <= Len(Lines(o)),
         Same(o, n), o.step # "serials",
         \/ Advance(o, n)
         \/ ToNextLine(o, n) /\ ~Stocked(Product(o)),
         NEW value, LookedUp(n, value)
  PROVE  LookedUp(o, value)
  <1>1. Lines(n) = Lines(o) /\ Lines(o) \in Seq(SaleLine) /\ SerialsOf(o) = Lines(o)[o.line].serials
    BY LinesFacts DEF Same, Lines
  <1>2. o.line \in Nat
    BY DEF Tx
  <1>3. CASE n.step = "serials" /\ n.todo = SerialsOf(o) /\ n.line = o.line
    <2>1. SerialsOf(n) = SerialsOf(o)
      BY <1>3 DEF SerialsOf, Same
    <2>2. QED
      BY <1>1, <1>3, <2>1 DEF LookedUp
  <1>4. CASE /\ n.step = "lines" /\ n.line = o.line + 1
             /\ SerialsOf(o) = {} \/ ~Stocked(Product(o))
    <2>1. PICK k \in 1..Len(Lines(o)) :
            k < n.line /\ Stocked(Lines(o)[k].product) /\ value \in Lines(o)[k].serials
      BY <1>1, <1>4 DEF LookedUp
    <2>2. k # o.line
      BY <1>1, <1>4, <2>1 DEF Product
    <2>3. k < o.line
      BY <1>1, <1>2, <1>4, <2>1, <2>2
    <2>4. QED
      BY <2>1, <2>3 DEF LookedUp
  <1>5. QED
    BY <1>3, <1>4 DEF Advance, ToNextLine

\* The devices of a number are marked.
LEMMA DevicesMarked ==
  ASSUME FormIInv, NEW x \in Actors, NEW o \in Tx, o = tx[x], TxOK(o, stock, resources),
         FoundSold(o, resources), MarkSold(x),
         NEW n \in Tx, NEW value \in o.todo, o.op = "sale", o.step = "serials", Same(o, n),
         n.marked = o.marked \cup Devices(value),
         \/ n.todo = o.todo \ {value} /\ n.step = "serials" /\ n.line = o.line
         \/ o.todo \ {value} = {} /\ ToNextLine(o, n)
  PROVE  FoundSold(n, resources)
  <1>1. Lines(n) = Lines(o) /\ Lines(o) \in Seq(SaleLine) /\ SerialsOf(o) = Lines(o)[o.line].serials
        /\ o.line \in Nat
    <2>1. o.ref \in SaleRefs
      BY NoTxFacts DEF TxOK, Shape
    <2>2. QED
      BY <2>1, LinesFacts DEF Same, Lines, Tx
  <1>2. ASSUME NEW v, LookedUp(n, v), v # value PROVE LookedUp(o, v)
    <2>1. CASE n.todo = o.todo \ {value} /\ n.step = "serials" /\ n.line = o.line
      <3>1. SerialsOf(n) = SerialsOf(o)
        BY <2>1 DEF SerialsOf, Same
      <3>2. QED
        BY <1>1, <1>2, <2>1, <3>1 DEF LookedUp
    <2>2. CASE o.todo \ {value} = {} /\ ToNextLine(o, n)
      <3>1. PICK k \in 1..Len(Lines(o)) :
              k < o.line + 1 /\ Stocked(Lines(o)[k].product) /\ v \in Lines(o)[k].serials
        BY <1>1, <1>2, <2>2 DEF LookedUp, ToNextLine
      <3>2. CASE k = o.line
        BY <1>1, <1>2, <2>2, <3>1, <3>2 DEF LookedUp
      <3>3. CASE k # o.line
        <4>1. k < o.line
          BY <1>1, <3>1, <3>3
        <4>2. QED
          BY <3>1, <4>1 DEF LookedUp
      <3>4. QED
        BY <3>2, <3>3
    <2>3. QED
      BY <2>1, <2>2
  <1>3. ASSUME NEW d \in 1..n.known, LookedUp(n, resources[d].value), Finds(resources, d)
        PROVE  d \in n.marked
    <2>1. d \in 1..o.known /\ d \in 1..Len(resources)
      <3>1. o.known \in Nat /\ o.known <= Len(resources) /\ Len(resources) \in Nat /\ n.known = o.known
        BY CommittedFacts DEF Tx, TxOK, Sited, Same
      <3>2. QED
        BY <3>1
    <2>2. CASE resources[d].value = value
      BY <1>3, <2>1, <2>2 DEF Finds, Devices, ResourcesNamed
    <2>3. CASE resources[d].value # value
      BY <1>2, <1>3, <2>1, <2>3 DEF FoundSold
    <2>4. QED
      BY <2>2, <2>3
  <1>4. QED
    BY <1>3 DEF FoundSold

\* Every statement keeps it so.
LEMMA DevicesStatement ==
  ASSUME FormIInv, DevicesIInv, NEW x \in Actors, Statement(x)
  PROVE  \E n \in Tx : Goes(x, n) /\ TxOK(n, stock, resources) /\ FoundSold(n, resources)
  <1>1. PICK o \in Tx : o = tx[x] /\ TxOK(o, stock, resources) /\ FoundSold(o, resources)
    BY TxFacts DEF DevicesIInv
  <1>2. CASE o.op # "sale"
    <2>1. PICK n \in Tx : Goes(x, n) /\ TxOK(n, stock, resources) /\ Same(o, n)
      BY <1>1, StatementEffect
    <2>2. FoundSold(n, resources)
      BY <1>2, <2>1 DEF FoundSold, Same
    <2>3. QED
      BY <2>1, <2>2
  <1>3. CASE o.op = "sale" /\ AdjustQuantity(x)
    <2>1. PICK n \in Tx : /\ Goes(x, n) /\ TxOK(n, stock, resources) /\ o.step = "read"
                          /\ Same(o, n) /\ SameGoods(o, n) /\ Advance(o, n)
      BY <1>1, <1>3, AdjustEffect
    <2>2. o.ref \in SaleRefs /\ o.line <= Len(Lines(o))
      BY <1>1, <1>3, <2>1, NoTxFacts DEF TxOK, Shape, Sited
    <2>3. \A value : LookedUp(n, value) => LookedUp(o, value)
      BY <1>3, <2>1, <2>2, LookedUpNext
    <2>4. QED
      BY <1>1, <2>1, <2>3, FoundSoldKept DEF SameGoods
  <1>4. CASE o.op = "sale" /\ LineRead(x)
    <2>1. PICK n \in Tx : /\ Goes(x, n) /\ TxOK(n, stock, resources) /\ Same(o, n) /\ SameGoods(o, n)
                          /\ n.step = "read" /\ n.line = o.line
      BY <1>1, <1>4, LineReadEffect
    <2>2. \A value : LookedUp(n, value) => LookedUp(o, value)
      BY <2>1 DEF LookedUp, Lines, Same
    <2>3. QED
      BY <1>1, <2>1, <2>2, FoundSoldKept DEF SameGoods
  <1>5. CASE o.op = "sale" /\ LineSkipped(x)
    <2>1. PICK n \in Tx : /\ Goes(x, n) /\ TxOK(n, stock, resources) /\ o.step = "lines"
                          /\ o.line <= Len(Lines(o)) /\ Same(o, n) /\ SameGoods(o, n)
                          /\ \/ RowsOf(Product(o)) = {} /\ ToNextLine(o, n)
                             \/ Advance(o, n)
      BY <1>1, <1>5, LineSkippedEffect
    <2>2. o.ref \in SaleRefs
      BY <1>1, <1>5, NoTxFacts DEF TxOK, Shape
    <2>3. RowsOf(Product(o)) = {} => ~Stocked(Product(o))
      <3>1. Len(stock) \in Nat /\ Len(Opening) \in Nat
        BY CommittedFacts, InventoryAssumption DEF InventoryAssumption
      <3>2. \A i \in 1..Len(Opening) : i \in 1..Len(stock) /\ stock[i].product = Opening[i].product
        BY <3>1 DEF DevicesIInv, OpeningKept
      <3>3. QED
        BY <3>2 DEF Stocked, RowsOf, Rows
    <2>4. \A value : LookedUp(n, value) => LookedUp(o, value)
      BY <1>5, <2>1, <2>2, <2>3, LookedUpNext
    <2>5. QED
      BY <1>1, <2>1, <2>4, FoundSoldKept DEF SameGoods
  <1>6. CASE MarkSold(x)
    <2>1. PICK n \in Tx, value \in o.todo :
           /\ Goes(x, n) /\ TxOK(n, stock, resources) /\ o.op = "sale" /\ o.step = "serials"
           /\ Same(o, n) /\ n.marked = o.marked \cup Devices(value)
           /\ \/ /\ o.todo \ {value} # {} /\ n.todo = o.todo \ {value}
                 /\ n.step = "serials" /\ n.line = o.line
              \/ o.todo \ {value} = {} /\ ToNextLine(o, n)
      BY <1>1, <1>6, MarkSoldEffect
    <2>2. FoundSold(n, resources)
      BY <1>1, <1>6, <2>1, DevicesMarked
    <2>3. QED
      BY <2>1, <2>2
  <1>7. CASE \/ LinesApplied(x) \/ SourceRead(x) \/ Debit(x) \/ CreditRead(x) \/ Credit(x)
             \/ CreditNewRow(x) \/ CompleteTransfer(x) \/ UpdateReconciliation(x) \/ Reserve(x) \/ RegisterSerials(x)
    <2>1. o.op # "sale"
      BY <1>1, <1>7, LinesAppliedEffect, SourceReadEffect, DebitEffect, CreditReadEffect, CreditEffect,
         CreditNewRowEffect, StatusEffect, ReserveEffect, RegisterEffect
    <2>2. QED
      BY <1>2, <2>1
  <1>8. QED
    BY <1>2, <1>3, <1>4, <1>5, <1>6, <1>7 DEF Statement

\* A handler call has looked nothing up when it begins.
LEMMA DevicesBegin ==
  ASSUME NEW x, NEW n \in Tx, Started(x, n), n.op = "sale" => n.ref \in SaleRefs, NEW goods
  PROVE  FoundSold(n, goods)
  <1>1. SUFFICES ASSUME n.op = "sale", NEW value, LookedUp(n, value) PROVE FALSE
    BY DEF FoundSold
  <1>2. n.line = 1 /\ n.step = "lines" /\ Lines(n) \in Seq(SaleLine)
    BY <1>1, LinesFacts DEF Started
  <1>3. Len(Lines(n)) \in Nat /\ \A k \in 1..Len(Lines(n)) : ~(k < 1)
    BY <1>2
  <1>4. QED
    BY <1>1, <1>2, <1>3 DEF LookedUp

\* What others commit makes no other device the one a number finds.
LEMMA DevicesLater ==
  ASSUME NEW t \in Tx, NEW goods, NEW later, FoundSold(t, goods),
         Len(goods) \in Nat, Len(later) \in Nat, Len(goods) <= Len(later), t.known <= Len(goods),
         \A d \in 1..Len(goods) : later[d].name = goods[d].name /\ later[d].value = goods[d].value
  PROVE  FoundSold(t, later)
  <1>1. SUFFICES ASSUME t.op = "sale", NEW d \in 1..t.known, LookedUp(t, later[d].value), Finds(later, d)
                 PROVE  d \in t.marked
    BY DEF FoundSold
  <1>2. d \in 1..Len(goods) /\ \A e \in 1..Len(goods) : e \in 1..Len(later)
    BY DEF Tx
  <1>3. LookedUp(t, goods[d].value) /\ Finds(goods, d)
    BY <1>1, <1>2 DEF Finds
  <1>4. QED
    BY <1>1, <1>3 DEF FoundSold

\* The invariant on devices is inductive.
LEMMA DevicesStep ==
  ASSUME FormIInv, DevicesIInv, [Next]_vars
  PROVE  DevicesIInv'
  <1>0. Len(Opening) \in Nat /\ Len(stock) \in Nat /\ Len(resources) \in Nat
    BY CommittedFacts, InventoryAssumption DEF InventoryAssumption
  <1>1. ASSUME NEW x \in Actors, NEW n \in Tx, UNCHANGED <<stock, resources>>, tx'[x] = n,
               \A y \in Actors \ {x} : tx'[y] = tx[y], FoundSold(n, resources)
        PROVE  DevicesIInv'
    <2>1. \A y \in Actors : FoundSold(tx'[y], resources')
      BY <1>1 DEF DevicesIInv
    <2>2. QED
      BY <1>1, <2>1 DEF DevicesIInv, OpeningKept
  <1>2. ASSUME NEW x \in Actors, Statement(x) PROVE DevicesIInv'
    <2>1. PICK n \in Tx : Goes(x, n) /\ TxOK(n, stock, resources) /\ FoundSold(n, resources)
      BY <1>2, DevicesStatement
    <2>2. UNCHANGED committedVars /\ tx'[x] = n /\ \A y \in Actors \ {x} : tx'[y] = tx[y]
      BY <2>1, FormStatement
    <2>3. UNCHANGED <<stock, resources>>
      BY <2>2 DEF committedVars
    <2>4. QED
      BY <1>1, <2>1, <2>2, <2>3
  <1>3. ASSUME NEW x \in Actors, BeginsNew(x) PROVE DevicesIInv'
    <2>1. PICK n \in Tx : Begin(x, n) /\ TxOK(n, stock, resources) /\ Started(x, n)
      BY <1>3, Starts
    <2>2. UNCHANGED committedVars /\ requests' \in 0..MaxRequests
      BY <1>3, Starts
    <2>3. tx'[x] = n /\ \A y \in Actors \ {x} : tx'[y] = tx[y]
      BY <2>1, <2>2, FormBegins
    <2>4. n.op = "sale" => n.ref \in SaleRefs
      BY <2>1, NoTxFacts DEF TxOK, Shape
    <2>5. FoundSold(n, resources)
      BY <2>1, <2>4, DevicesBegin
    <2>6. UNCHANGED <<stock, resources>>
      BY <2>2 DEF committedVars
    <2>7. QED
      BY <1>1, <2>3, <2>5, <2>6
  <1>4. ASSUME NEW x \in Actors, Commits(x) PROVE DevicesIInv'
    <2>1. PICK o \in Tx : o = tx[x] /\ TxOK(o, stock, resources)
      BY TxFacts
    <2>2. ApplyStock(x) /\ ApplyResources(x) /\ Apply(x) /\ Ends(x)
      BY <1>4 DEF Commits, Apply
    <2>3. PICK m \in Nat, k \in Nat : m = Len(o.made) /\ k = Len(o.registered)
      BY DEF Tx
    <2>4. Len(stock') = Len(stock) + m /\ \A r \in Rows : stock'[r].product = stock[r].product
      BY <2>1, <2>2, <2>3, CommitStock
    <2>5. OpeningKept'
      <3>1. \A i \in 1..Len(Opening) : i \in Rows
        BY <1>0 DEF DevicesIInv, OpeningKept, Rows
      <3>2. QED
        BY <1>0, <2>4, <3>1 DEF DevicesIInv, OpeningKept
    <2>6. /\ Len(resources') = Len(resources) + k
          /\ \A d \in 1..Len(resources) :
               resources'[d].name = resources[d].name /\ resources'[d].value = resources[d].value
      BY <2>1, <2>2, <2>3, CommitResources
    <2>7. Len(resources') \in Nat /\ Len(resources) <= Len(resources')
      BY <1>0, <2>3, <2>6
    <2>8. \A y \in Actors \ {x} : tx'[y] = tx[y]
      BY <2>2, FormCommit
    <2>9. tx'[x] = NoTx
      BY <2>2, FormCommit
    <2>10. ASSUME NEW y \in Actors PROVE FoundSold(tx'[y], resources')
      <3>1. CASE y = x
        BY <2>9, <3>1, NoTxFacts DEF FoundSold
      <3>2. CASE y # x
        <4>1. PICK t \in Tx : t = tx[y] /\ TxOK(t, stock, resources) /\ FoundSold(t, resources)
          BY TxFacts DEF DevicesIInv
        <4>2. t.known <= Len(resources)
          BY <4>1 DEF TxOK, Sited
        <4>3. FoundSold(t, resources')
          BY <1>0, <2>6, <2>7, <4>1, <4>2, DevicesLater
        <4>4. QED
          BY <2>8, <3>2, <4>1, <4>3
      <3>3. QED
        BY <3>1, <3>2
    <2>11. QED
      BY <2>5, <2>10 DEF DevicesIInv
  <1>5. ASSUME NEW x \in Actors, Fails(x) PROVE DevicesIInv'
    <2>1. UNCHANGED committedVars /\ tx'[x] = NoTx /\ \A y \in Actors \ {x} : tx'[y] = tx[y]
      BY <1>5, FormFails
    <2>2. FoundSold(NoTx, resources) /\ NoTx \in Tx /\ UNCHANGED <<stock, resources>>
      BY <2>1, NoTxFacts DEF FoundSold, committedVars
    <2>3. QED
      BY ONLY x \in Actors, <1>1, <2>1, <2>2
  <1>6. ASSUME NEW row \in NewRows, CreateRow(row) PROVE DevicesIInv'
    <2>1. Len(stock') = Len(stock) + 1 /\ \A r \in Rows : stock'[r] = stock[r]
      BY <1>6, FormCreateRow
    <2>2. UNCHANGED <<tx, resources>>
      BY <1>6 DEF CreateRow
    <2>3. \A i \in 1..Len(Opening) : i \in Rows
      BY <1>0 DEF DevicesIInv, OpeningKept, Rows
    <2>4. QED
      BY <1>0, <2>1, <2>2, <2>3 DEF DevicesIInv, OpeningKept
  <1>7. ASSUME Changes \/ UNCHANGED stockVars PROVE DevicesIInv'
    <2>1. UNCHANGED <<stock, resources, tx>>
      BY <1>7, FormOther, FormElse DEF Changes
    <2>2. QED
      BY <2>1 DEF DevicesIInv, OpeningKept
  <1>8. QED
    BY <1>2, <1>3, <1>4, <1>5, <1>6, <1>7, StepCases

\* A handler call that comes through ends with its commit.
LEMMA SaleCommits ==
  ASSUME FormIInv, [Next]_vars, NEW w \in Workers, handled' # handled, tx'[w] = NoTx, tx[w] # NoTx
  PROVE  CommitSale(w)
  <1>1. ~UNCHANGED vars
    BY DEF vars, streamVars
  <1>2. ASSUME NEW x \in Actors, Statement(x) \/ Fails(x) PROVE FALSE
    <2>1. CASE Statement(x)
      BY <2>1, StatementEffect DEF Goes, streamVars
    <2>2. CASE Fails(x)
      BY <2>2 DEF Fails, streamVars
    <2>3. QED
      BY <1>2, <2>1, <2>2
  <1>3. ASSUME NEW c \in Calls, NewRequest(c) PROVE FALSE
    <2>1. UNCHANGED <<streamVars, committedVars>>
      BY <1>3, Starts DEF BeginsNew, Actors
    <2>2. QED
      BY <2>1 DEF streamVars
  <1>4. ASSUME NEW c \in Calls, CommitRequest(c) PROVE FALSE
    BY <1>4 DEF CommitRequest, streamVars
  <1>5. ASSUME PostInventory \/ PostTransfer \/ PostReconciliation \/ DeleteReservation PROVE FALSE
    BY <1>5 DEF PostInventory, PostTransfer, PostReconciliation, DeleteReservation, CreateRow,
       CreateTransfer, CreateReconciliation, CreateDocument, Release, streamVars
  <1>6. ASSUME NEW v \in Workers, NEW p \in Partitions, NEW i \in Deliverable(p), SaleBegins(v, p, i)
        PROVE  FALSE
    BY <1>6 DEF SaleBegins, streamVars
  <1>7. ASSUME UNCHANGED stockVars PROVE FALSE
    BY <1>7 DEF stockVars
  <1>8. ASSUME NEW v \in Workers, CommitSale(v) PROVE v = w
    <2>1. v \in Actors /\ w \in Actors /\ Apply(v) /\ Ends(v)
      BY <1>8 DEF CommitSale, Actors
    <2>2. \A y \in Actors \ {v} : tx'[y] = tx[y]
      BY <2>1, FormCommit
    <2>3. QED
      BY <2>1, <2>2
  <1>9. QED
    BY <1>1, <1>2, <1>3, <1>4, <1>5, <1>6, <1>7, <1>8 DEF Next

\* Whatever else happens in between, also that transactions register devices or mark
\* them, each device a sale names is sold when its handler call comes through
\* (_handle_sell_out_event).
THEOREM NamedDevicesSold == Spec => SoldDevicesMarked
  <1>1. Init => FormIInv /\ DevicesIInv
    <2> SUFFICES ASSUME Init PROVE FormIInv /\ DevicesIInv
      OBVIOUS
    <2>1. FormIInv
      BY FormInit
    <2>2. Len(Opening) \in Nat
      BY InventoryAssumption DEF InventoryAssumption
    <2>3. OpeningKept
      BY <2>2 DEF Init, OpeningKept
    <2>4. \A x \in Actors : FoundSold(tx[x], resources)
      BY NoTxFacts DEF Init, FoundSold
    <2>5. QED
      BY <2>1, <2>3, <2>4 DEF DevicesIInv
  <1>2. FormIInv /\ DevicesIInv /\ [Next]_vars => (FormIInv /\ DevicesIInv)'
    BY FormStep, DevicesStep
  <1>3. ASSUME FormIInv, DevicesIInv, [Next]_vars, NEW w \in Workers,
               handled' # handled, tx'[w] = NoTx, tx[w] # NoTx,
               NEW d \in 1..tx[w].known, resources[d].value \in Named(w),
               \/ resources[d].name = "IMEI"
               \/ resources[d].name = "SERIAL" /\ ResourcesNamed("IMEI", resources[d].value) = {}
        PROVE  resources'[d].status = "SOLD"
    <2>1. CommitSale(w) /\ w \in Actors
      BY <1>3, SaleCommits DEF Actors
    <2>2. PICK o \in Tx : o = tx[w] /\ TxOK(o, stock, resources) /\ FoundSold(o, resources)
      BY <1>3, <2>1, TxFacts DEF DevicesIInv
    <2>3. o.op = "sale" /\ o.line > Len(Lines(o)) /\ o.ref \in SaleRefs
      BY <2>1, <2>2, NoTxFacts DEF CommitSale, TxOK, Shape
    <2>4. PICK value : value = resources[d].value
      OBVIOUS
    <2>5. PICK k \in 1..Len(Lines(o)) : Stocked(Lines(o)[k].product) /\ value \in Lines(o)[k].serials
      BY <1>3, <2>2, <2>4 DEF Named, Stocked
    <2>6. k < o.line
      <3>1. Lines(o) \in Seq(SaleLine) /\ o.line \in Nat
        BY <2>3, LinesFacts DEF Tx
      <3>2. PICK m \in Nat : m = Len(Lines(o))
        BY <3>1
      <3>3. QED
        BY <2>3, <3>1, <3>2
    <2>7. LookedUp(o, value)
      BY <2>5, <2>6 DEF LookedUp
    <2>8. Finds(resources, d)
      BY <1>3 DEF Finds, ResourcesNamed
    <2>9. d \in o.marked
      BY <1>3, <2>2, <2>3, <2>4, <2>7, <2>8 DEF FoundSold
    <2>10. d \in 1..Len(resources)
      BY <2>2, <2>9 DEF TxOK, Sited
    <2>11. ApplyResources(w)
      BY <2>1 DEF CommitSale, Apply
    <2>12. QED
      BY <1>3, <2>1, <2>2, <2>9, <2>10, <2>11, CommitResources
  <1>4. FormIInv /\ DevicesIInv /\ [Next]_vars =>
          [\A w \in Workers : handled' # handled /\ tx'[w] = NoTx /\ tx[w] # NoTx =>
             \A d \in 1..tx[w].known :
               /\ resources[d].value \in Named(w)
               /\ \/ resources[d].name = "IMEI"
                  \/ resources[d].name = "SERIAL" /\ ResourcesNamed("IMEI", resources[d].value) = {}
               => resources'[d].status = "SOLD"]_vars
    BY <1>3
  <1>5. QED
    BY <1>1, <1>2, <1>4, PTL DEF Spec, SoldDevicesMarked

-----------------------------------------------------------------------------
(* Quantities.  Without overlap the rows are as the open transaction has    *)
(* read them when it updates them.                                          *)

\* Committed at once, what a transaction has done leaves nothing below zero.
Fits(t, rows) ==
  /\ \A r \in DOMAIN t.moves : rows[r].quantity + t.moves[r] >= 0
  /\ \A i \in 1..Len(t.made) : t.made[i].quantity >= 0
\* What it has read and keeps is as it is, and what it has checked holds until it updates.
Held(t, rows) == \A r \in DOMAIN t.kept : t.kept[r] = rows[r].quantity
Checked(t, rows) ==
  /\ t.op \in {"adjust", "sale", "approve"} /\ t.step = "read" =>
       rows[t.row].quantity + Moved(t, t.row) + t.delta >= 0
  /\ t.op = "adjust" /\ t.step = "read" => t.moves = <<>>
  /\ t.op = "transfer" /\ t.step \in {"source", "debit"} => t.moves = <<>>
  /\ t.op = "transfer" /\ t.step = "debit" => rows[t.row].quantity >= TransferOf[t.ref].quantity
Covered(t, rows) == Fits(t, rows) /\ Held(t, rows) /\ Checked(t, rows)

InStock(rows) == \A r \in 1..Len(rows) : rows[r].quantity >= 0
CoveredIInv ==
  /\ Alone
  /\ ~overlapped => InStock(stock) /\ \A x \in Actors : Covered(tx[x], stock)

\* One update more that the row can bear.
LEMMA FitsPlus ==
  ASSUME NEW rows, NEW m \in Moves, NEW r \in Nat, NEW delta \in Int,
         \A q \in DOMAIN m \cup {r} : rows[q].quantity \in Int,
         \A q \in DOMAIN m : rows[q].quantity + m[q] >= 0,
         rows[r].quantity + (IF r \in DOMAIN m THEN m[r] ELSE 0) + delta >= 0
  PROVE  \A q \in DOMAIN Plus(m, r, delta) : rows[q].quantity + Plus(m, r, delta)[q] >= 0
  <1>1. PICK e : e = Plus(m, r, delta)
    OBVIOUS
  <1>2. DOMAIN e = DOMAIN m \cup {r} /\ \A q \in DOMAIN m : m[q] \in Int
    BY <1>1, PlusFacts
  <1>4. \A q \in DOMAIN m : q # r => e[q] = m[q]
    BY <1>1, PlusAt
  <1>5. e[r] = (IF r \in DOMAIN m THEN m[r] ELSE 0) + delta
    BY <1>1, PlusAt
  <1>3. ASSUME NEW q \in DOMAIN e PROVE rows[q].quantity + e[q] >= 0
    <2>1. CASE q = r
      <3>1. PICK have \in Int : have = rows[r].quantity
        OBVIOUS
      <3>2. PICK before \in Int : before = IF r \in DOMAIN m THEN m[r] ELSE 0
        BY <1>2
      <3>3. e[r] = before + delta /\ have + before + delta >= 0
        BY <1>5, <3>1, <3>2
      <3>4. QED
        BY <2>1, <3>1, <3>3
    <2>2. CASE q # r
      BY <1>2, <1>3, <1>4, <2>2
    <2>3. QED
      BY <2>1, <2>2
  <1>6. QED
    BY <1>1, <1>3

\* What is kept is kept, or is as it is.
LEMMA HeldKept ==
  ASSUME NEW o \in Tx, NEW n \in Tx, NEW rows, Held(o, rows),
         \A q \in DOMAIN n.kept : \/ n.kept[q] = rows[q].quantity
                                  \/ q \in DOMAIN o.kept /\ n.kept[q] = o.kept[q]
  PROVE  Held(n, rows)
  BY DEF Held

\* A statement that moves no stock.
LEMMA CoveredKept ==
  ASSUME NEW o \in Tx, NEW n \in Tx, NEW rows, Covered(o, rows), SameStock(o, n),
         Held(n, rows), Checked(n, rows)
  PROVE  Covered(n, rows)
  <1>1. Fits(n, rows)
    BY DEF Covered, Fits, SameStock
  <1>2. QED
    BY <1>1 DEF Covered

\* The rows a transaction has updated, and one it updates, hold numbers.
LEMMA RowNumbers ==
  ASSUME FormIInv, NEW o \in Tx, TxOK(o, stock, resources)
  PROVE  o.moves \in Moves /\ \A q \in DOMAIN o.moves : q \in Rows /\ stock[q].quantity \in Int
  BY CommittedFacts DEF TxOK, Sited, Tx

\* The update of a quantity.
LEMMA CoveredAdjust ==
  ASSUME FormIInv, NEW x \in Actors, Covered(tx[x], stock), AdjustQuantity(x)
  PROVE  \E n \in Tx : Goes(x, n) /\ TxOK(n, stock, resources) /\ Covered(n, stock)
  <1>1. PICK o \in Tx : o = tx[x] /\ TxOK(o, stock, resources) /\ Covered(o, stock)
    BY TxFacts
  <1>2. PICK n \in Tx :
           /\ Goes(x, n) /\ TxOK(n, stock, resources)
           /\ o.step = "read" /\ o.row \in Rows
           /\ Same(o, n) /\ n.made = o.made
           /\ n.moves = Plus(o.moves, o.row, o.delta)
           /\ Advance(o, n)
    BY <1>1, AdjustEffect
  <1>3. o.op \in {"adjust", "sale", "approve"}
    BY <1>1, <1>2, NoTxFacts DEF TxOK, Shape
  <1>5. PICK m \in Moves, r \in Nat, delta \in Int : m = o.moves /\ r = o.row /\ delta = o.delta
    BY DEF Tx
  <1>6. \A q \in DOMAIN m \cup {r} : stock[q].quantity \in Int
    BY <1>1, <1>2, <1>5, RowNumbers, CommittedFacts
  <1>7. \A q \in DOMAIN m : stock[q].quantity + m[q] >= 0
    BY <1>1, <1>5 DEF Covered, Fits
  <1>8. Moved(o, r) = (IF r \in DOMAIN m THEN m[r] ELSE 0)
    BY <1>5 DEF Moved
  <1>9. stock[r].quantity + (IF r \in DOMAIN m THEN m[r] ELSE 0) + delta >= 0
    BY <1>1, <1>2, <1>3, <1>5, <1>8 DEF Covered, Checked
  <1>10. \A q \in DOMAIN Plus(m, r, delta) : stock[q].quantity + Plus(m, r, delta)[q] >= 0
    BY ONLY m \in Moves, r \in Nat, delta \in Int, <1>6, <1>7, <1>9, FitsPlus
  <1>11. Fits(n, stock)
    BY <1>1, <1>2, <1>5, <1>10 DEF Covered, Fits
  <1>12. Held(n, stock)
    BY <1>1, <1>2 DEF Covered, Held, Same
  <1>13. Checked(n, stock)
    BY <1>2, <1>3 DEF Checked, Same, Advance, ToNextLine
  <1>14. QED
    BY <1>2, <1>11, <1>12, <1>13 DEF Covered

\* A credit, to a row that is there.
LEMMA CoveredCredit ==
  ASSUME FormIInv, InStock(stock), NEW x \in Actors, Covered(tx[x], stock), Credit(x)
  PROVE  \E n \in Tx : Goes(x, n) /\ TxOK(n, stock, resources) /\ Covered(n, stock)
  <1>1. PICK o \in Tx : o = tx[x] /\ TxOK(o, stock, resources) /\ Covered(o, stock)
    BY TxFacts
  <1>2. PICK n \in Tx :
           /\ Goes(x, n) /\ TxOK(n, stock, resources)
           /\ o.op \in {"transfer", "receive"} /\ o.step = "deposit" /\ o.row \in Rows
           /\ Same(o, n) /\ n.made = o.made
           /\ n.step = AfterCredit(o)
           /\ n.moves = Plus(o.moves, o.row, Incoming(o).quantity)
    BY <1>1, CreditEffect
  <1>3. (o.op = "transfer" /\ o.ref \in Transfers) \/ (o.op = "receive" /\ o.ref \in Receipts)
    BY <1>1, <1>2, AtCreditFacts
  <1>4. PICK m \in Moves, delta \in Nat, r \in Rows :
          m = o.moves /\ delta = Incoming(o).quantity /\ r = o.row
    BY <1>2, <1>3, IncomingFacts DEF Tx
  <1>5. \A q \in DOMAIN m \cup {r} : stock[q].quantity \in Int
    BY <1>1, <1>4, RowNumbers, CommittedFacts
  <1>6. \A q \in DOMAIN m : stock[q].quantity + m[q] >= 0
    BY <1>1, <1>4 DEF Covered, Fits
  <1>7. \A q \in DOMAIN m : m[q] \in Int
    BY <1>4, MovedFacts
  <1>8. stock[r].quantity >= 0 /\ r \in Nat
    BY CommittedFacts DEF InStock
  <1>9. stock[r].quantity + (IF r \in DOMAIN m THEN m[r] ELSE 0) + delta >= 0
    BY <1>5, <1>6, <1>7, <1>8
  <1>10. \A q \in DOMAIN Plus(m, r, delta) : stock[q].quantity + Plus(m, r, delta)[q] >= 0
    <2>1. delta \in Int
      OBVIOUS
    <2>2. QED
      BY ONLY m \in Moves, <2>1, <1>5, <1>6, <1>8, <1>9, FitsPlus
  <1>11. Fits(n, stock)
    BY <1>1, <1>2, <1>4, <1>10 DEF Covered, Fits
  <1>12. Held(n, stock)
    BY <1>1, <1>2 DEF Covered, Held, Same
  <1>13. Checked(n, stock)
    BY <1>2 DEF Checked, Same, AfterCredit
  <1>14. QED
    BY <1>2, <1>11, <1>12, <1>13 DEF Covered

\* A debit of what is there.
LEMMA CoveredDebit ==
  ASSUME FormIInv, NEW x \in Actors, Covered(tx[x], stock), Debit(x)
  PROVE  \E n \in Tx : Goes(x, n) /\ TxOK(n, stock, resources) /\ Covered(n, stock)
  <1>1. PICK o \in Tx : o = tx[x] /\ TxOK(o, stock, resources) /\ Covered(o, stock)
    BY TxFacts
  <1>2. PICK n \in Tx :
           /\ Goes(x, n) /\ TxOK(n, stock, resources)
           /\ o.op = "transfer" /\ o.step = "debit" /\ o.row \in Rows
           /\ Same(o, n) /\ n.made = o.made /\ n.step = "credit"
           /\ n.moves = Plus(o.moves, o.row, -TransferOf[o.ref].quantity)
    BY <1>1, DebitEffect
  <1>3. o.ref \in Transfers
    BY <1>1, <1>2, NoTxFacts DEF TxOK, Shape
  <1>4. PICK m \in Moves, r \in Nat, q \in Nat : m = o.moves /\ r = o.row /\ q = TransferOf[o.ref].quantity
    BY <1>3, DocumentFacts DEF Tx
  <1>5. m = <<>> /\ DOMAIN m = {} /\ stock[r].quantity >= q
    BY <1>1, <1>2, <1>4, NoMoves DEF Covered, Checked
  <1>6. PICK delta \in Int : delta = -q
    OBVIOUS
  <1>7. \A y \in DOMAIN m \cup {r} : stock[y].quantity \in Int
    BY <1>2, <1>4, <1>5, CommittedFacts
  <1>8. stock[r].quantity + (IF r \in DOMAIN m THEN m[r] ELSE 0) + delta >= 0
    BY <1>5, <1>6, <1>7
  <1>9. \A y \in DOMAIN m : stock[y].quantity + m[y] >= 0
    BY <1>5
  <1>10. \A y \in DOMAIN Plus(m, r, delta) : stock[y].quantity + Plus(m, r, delta)[y] >= 0
    BY ONLY m \in Moves, r \in Nat, delta \in Int, <1>7, <1>8, <1>9, FitsPlus
  <1>11. Fits(n, stock)
    BY <1>1, <1>2, <1>4, <1>6, <1>10 DEF Covered, Fits
  <1>12. Held(n, stock)
    BY <1>1, <1>2 DEF Covered, Held, Same
  <1>13. Checked(n, stock)
    BY <1>2 DEF Checked, Same
  <1>14. QED
    BY <1>2, <1>11, <1>12, <1>13 DEF Covered

\* Every statement of the only open transaction.
LEMMA CoveredStatement ==
  ASSUME FormIInv, InStock(stock), NEW x \in Actors, Covered(tx[x], stock), Statement(x)
  PROVE  \E n \in Tx : Goes(x, n) /\ TxOK(n, stock, resources) /\ Covered(n, stock)
  <1>0. PICK o \in Tx : o = tx[x] /\ TxOK(o, stock, resources) /\ Covered(o, stock)
    BY TxFacts
  <1>1. CASE AdjustQuantity(x)
    BY <1>1, CoveredAdjust
  <1>2. CASE LineRead(x)
    <2>1. PICK n \in Tx, r \in Rows :
           /\ Goes(x, n) /\ TxOK(n, stock, resources)
           /\ o.op \in {"sale", "approve"} /\ o.step = "lines"
           /\ o.line <= Len(Lines(o)) /\ Same(o, n) /\ SameStock(o, n)
           /\ n.step = "read" /\ n.row = r
           /\ r \in DOMAIN n.kept /\ n.delta = Change(o, n.kept[r] + Moved(o, r))
           /\ \A q \in DOMAIN n.kept : \/ n.kept[q] = stock[q].quantity
                                       \/ q \in DOMAIN o.kept /\ n.kept[q] = o.kept[q]
      BY <1>0, <1>2, LineReadEffect
    <2>2. (o.op = "sale" /\ o.ref \in SaleRefs) \/ (o.op = "approve" /\ o.ref \in Counts)
      BY <1>0, <2>1, NoTxFacts DEF TxOK, Shape
    <2>3. Held(n, stock)
      BY <1>0, <2>1, HeldKept DEF Covered
    <2>4. PICK q \in Int : q = stock[r].quantity + Moved(o, r) /\ q >= 0
      <3>1. stock[r].quantity \in Int /\ stock[r].quantity >= 0
        BY CommittedFacts DEF InStock
      <3>2. CASE r \in DOMAIN o.moves
        BY <1>0, <3>1, <3>2, MovedFacts DEF Covered, Fits
      <3>3. CASE r \notin DOMAIN o.moves
        BY <3>1, <3>3, MovedFacts
      <3>4. QED
        BY <3>2, <3>3
    <2>5. n.delta = Change(o, q)
      BY <2>1, <2>3, <2>4 DEF Held
    <2>6. q + n.delta >= 0
      BY <2>1, <2>2, <2>4, <2>5, ChangeFacts
    <2>7. Moved(n, r) = Moved(o, r)
      BY <2>1 DEF Moved, SameStock
    <2>8. Checked(n, stock)
      BY <2>1, <2>4, <2>6, <2>7 DEF Checked, Same
    <2>9. QED
      BY <1>0, <2>1, <2>3, <2>8, CoveredKept
  <1>3. CASE LineSkipped(x)
    <2>1. PICK n \in Tx :
           /\ Goes(x, n) /\ TxOK(n, stock, resources)
           /\ o.op \in {"sale", "approve"} /\ Same(o, n) /\ SameStock(o, n)
           /\ Advance(o, n) \/ ToNextLine(o, n)
           /\ \A q \in DOMAIN n.kept : \/ n.kept[q] = stock[q].quantity
                                       \/ q \in DOMAIN o.kept /\ n.kept[q] = o.kept[q]
      BY <1>0, <1>3, LineSkippedEffect
    <2>2. Held(n, stock)
      BY <1>0, <2>1, HeldKept DEF Covered
    <2>3. Checked(n, stock)
      BY <2>1 DEF Checked, Same, Advance, ToNextLine
    <2>4. QED
      BY <1>0, <2>1, <2>2, <2>3, CoveredKept
  <1>4. CASE LinesApplied(x) \/ CompleteTransfer(x) \/ UpdateReconciliation(x)
    <2>1. PICK n \in Tx :
           /\ Goes(x, n) /\ TxOK(n, stock, resources)
           /\ n.step \in {"status", "ready"} /\ n.kept = o.kept /\ SameStock(o, n)
      BY <1>0, <1>4, LinesAppliedEffect, StatusEffect DEF Same
    <2>2. Held(n, stock)
      BY <1>0, <2>1 DEF Covered, Held
    <2>3. Checked(n, stock)
      BY <2>1 DEF Checked
    <2>4. QED
      BY <1>0, <2>1, <2>2, <2>3, CoveredKept
  <1>5. CASE SourceRead(x)
    <2>1. PICK n \in Tx, r \in Rows :
           /\ Goes(x, n) /\ TxOK(n, stock, resources)
           /\ o.op = "transfer" /\ o.step = "source"
           /\ stock[r].quantity >= TransferOf[o.ref].quantity
           /\ Same(o, n) /\ SameStock(o, n) /\ n.step = "debit" /\ n.row = r
      BY <1>0, <1>5, SourceReadEffect
    <2>2. Checked(n, stock)
      BY <1>0, <2>1 DEF Checked, Covered, Same, SameStock
    <2>3. Held(n, stock)
      BY <1>0, <2>1 DEF Covered, Held, Same
    <2>4. QED
      BY <1>0, <2>1, <2>2, <2>3, CoveredKept
  <1>6. CASE Debit(x)
    BY <1>6, CoveredDebit
  <1>7. CASE Credit(x)
    BY <1>7, CoveredCredit
  <1>8. CASE CreditNewRow(x)
    <2>1. PICK n \in Tx, new \in Row :
           /\ Goes(x, n) /\ TxOK(n, stock, resources)
           /\ o.op \in {"transfer", "receive"} /\ o.step = "credit"
           /\ new.quantity = Incoming(o).quantity
           /\ Same(o, n) /\ n.moves = o.moves /\ n.step = AfterCredit(o) /\ n.made = <<new>>
      BY <1>0, <1>8, CreditNewRowEffect
    <2>2. (o.op = "transfer" /\ o.ref \in Transfers) \/ (o.op = "receive" /\ o.ref \in Receipts)
      BY <1>0, <2>1, AtCreditFacts
    <2>3. new.quantity >= 0
      BY <2>1, <2>2, IncomingFacts
    <2>4. Fits(n, stock)
      BY <1>0, <2>1, <2>3 DEF Covered, Fits
    <2>5. Held(n, stock)
      BY <1>0, <2>1 DEF Covered, Held, Same
    <2>6. Checked(n, stock)
      BY <2>1 DEF Checked, Same, AfterCredit
    <2>7. QED
      BY <2>1, <2>4, <2>5, <2>6 DEF Covered
  <1>9. CASE CreditRead(x)
    <2>1. PICK n \in Tx :
           /\ Goes(x, n) /\ TxOK(n, stock, resources)
           /\ o.op \in {"transfer", "receive"} /\ o.step = "credit"
           /\ Same(o, n) /\ SameStock(o, n) /\ n.step = "deposit"
      BY <1>0, <1>9, CreditReadEffect
    <2>2. Held(n, stock)
      BY <1>0, <2>1 DEF Covered, Held, Same
    <2>3. Checked(n, stock)
      BY <2>1 DEF Checked, Same
    <2>4. QED
      BY <1>0, <2>1, <2>2, <2>3, CoveredKept
  <1>10. CASE Reserve(x) \/ RegisterSerials(x)
    <2>1. PICK n \in Tx :
           /\ Goes(x, n) /\ TxOK(n, stock, resources)
           /\ o.op \in {"reserve", "receive"} /\ Same(o, n) /\ SameStock(o, n)
      BY <1>0, <1>10, ReserveEffect, RegisterEffect
    <2>2. o.step # "lines"
      BY <1>0, <2>1, NoTxFacts DEF TxOK, Shape
    <2>3. Held(n, stock)
      BY <1>0, <2>1, <2>2 DEF Covered, Held, Same
    <2>4. Checked(n, stock)
      BY <2>1 DEF Checked, Same
    <2>5. QED
      BY <1>0, <2>1, <2>3, <2>4, CoveredKept
  <1>11. CASE MarkSold(x)
    <2>1. PICK n \in Tx :
           /\ Goes(x, n) /\ TxOK(n, stock, resources)
           /\ o.op = "sale" /\ o.step = "serials" /\ Same(o, n) /\ SameStock(o, n)
           /\ n.step = "serials" \/ ToNextLine(o, n)
      BY <1>0, <1>11, MarkSoldEffect
    <2>2. Held(n, stock)
      BY <1>0, <2>1 DEF Covered, Held, Same
    <2>3. Checked(n, stock)
      BY <2>1 DEF Checked, Same, ToNextLine
    <2>4. QED
      BY <1>0, <2>1, <2>2, <2>3, CoveredKept
  <1>12. QED
    BY <1>1, <1>2, <1>3, <1>4, <1>5, <1>6, <1>7, <1>8, <1>9, <1>10, <1>11 DEF Statement

\* A transaction that has done nothing, whatever the rows.
LEMMA NothingCovered == \A rows : Covered(NoTx, rows)
  <1>1. /\ DOMAIN NoTx.moves = {} /\ NoTx.made = <<>> /\ Len(NoTx.made) = 0
        /\ NoTx.op = "none" /\ DOMAIN NoTx.kept = {}
    BY NoTxFacts, NoMoves
  <1>2. QED
    BY <1>1 DEF Covered, Fits, Held, Checked

\* A transaction that begins.
LEMMA CoveredBegins ==
  ASSUME FormIInv, InStock(stock), NEW x \in Actors, NEW n \in Tx, TxOK(n, stock, resources), Started(x, n)
  PROVE  Covered(n, stock)
  <1>0. Held(n, stock)
    BY NoMoves DEF Started, Held
  <1>1. CASE n.op = "patch"
    <2>1. n.row \in Rows /\ n.made = <<>>
      BY <1>1 DEF Started, TxOK, Sited, Rows
    <2>2. PICK q \in Nat : n.moves = Plus(<<>>, n.row, q - stock[n.row].quantity)
      <3>1. stock[n.row].quantity \in Nat
        BY <2>1, CommittedFacts DEF InStock
      <3>2. QED
        BY <1>1, <3>1 DEF Started
    <2>3. PICK m \in Moves, r \in Nat, have \in Int, delta \in Int :
            m = <<>> /\ r = n.row /\ have = stock[r].quantity /\ delta = q - have
      BY <2>1, NoMoves, CommittedFacts
    <2>4. DOMAIN m = {} /\ \A y \in DOMAIN m \cup {r} : stock[y].quantity \in Int
      BY <2>1, <2>3, NoMoves
    <2>5. stock[r].quantity + (IF r \in DOMAIN m THEN m[r] ELSE 0) + delta >= 0
      <3>1. r \notin DOMAIN m
        BY <2>4
      <3>2. delta = q - have /\ q \in Nat /\ have \in Int
        BY <2>3
      <3>3. have + 0 + delta >= 0
        BY ONLY <3>2
      <3>4. QED
        BY <2>3, <3>1, <3>3
    <2>6. \A y \in DOMAIN m \cup {r} : stock[y].quantity \in Int
      BY <2>4
    <2>7. \A y \in DOMAIN m : stock[y].quantity + m[y] >= 0
      BY <2>4
    <2>8. \A y \in DOMAIN Plus(m, r, delta) : stock[y].quantity + Plus(m, r, delta)[y] >= 0
      BY ONLY m \in Moves, r \in Nat, delta \in Int, <2>5, <2>6, <2>7, FitsPlus
    <2>9. Fits(n, stock)
      BY <2>1, <2>2, <2>3, <2>8 DEF Fits
    <2>10. QED
      BY <1>0, <1>1, <2>9 DEF Covered, Checked
  <1>2. CASE n.op # "patch"
    <2>1. n.moves = <<>> /\ DOMAIN n.moves = {} /\ n.made = <<>> /\ Len(n.made) = 0
      BY <1>2, NoMoves DEF Started
    <2>2. Fits(n, stock)
      BY <2>1 DEF Fits
    <2>3. ASSUME n.op = "adjust"
          PROVE  stock[n.row].quantity + Moved(n, n.row) + n.delta >= 0
      <3>1. Moved(n, n.row) = 0
        BY <2>1 DEF Moved
      <3>2. stock[n.row].quantity \in Int /\ n.delta \in Int
        BY <2>3, CommittedFacts DEF TxOK, Sited, Rows, Tx
      <3>3. stock[n.row].quantity + n.delta >= 0
        BY <2>3 DEF Started
      <3>4. QED
        BY ONLY <3>1, <3>2, <3>3
    <2>4. Checked(n, stock)
      BY <2>1, <2>3 DEF Checked, Started
    <2>5. QED
      BY <1>0, <2>2, <2>4 DEF Covered
  <1>3. QED
    BY <1>1, <1>2

\* The rows after a commit.
LEMMA InStockCommit ==
  ASSUME FormIInv, InStock(stock), NEW x \in Actors, Covered(tx[x], stock), ApplyStock(x)
  PROVE  InStock(stock')
  <1>1. PICK o \in Tx : o = tx[x] /\ Covered(o, stock)
    BY TxFacts
  <1>2. PICK n \in Nat, m \in Nat : n = Len(stock) /\ m = Len(o.made)
    BY CommittedFacts DEF Tx
  <1>3. /\ Len(stock') = n + m
        /\ \A r \in 1..n : stock'[r].quantity = stock[r].quantity + Moved(o, r)
        /\ \A i \in 1..m : stock'[n + i] = o.made[i]
    BY <1>1, <1>2, CommitStock DEF Rows
  <1>4. ASSUME NEW r \in 1..n PROVE stock'[r].quantity >= 0
    <2>1. CASE r \in DOMAIN o.moves
      BY <1>1, <1>3, <2>1, MovedFacts DEF Covered, Fits
    <2>2. CASE r \notin DOMAIN o.moves
      <3>1. Moved(o, r) = 0
        BY <2>2, MovedFacts
      <3>2. stock[r].quantity \in Int /\ stock[r].quantity >= 0
        BY <1>2, CommittedFacts DEF InStock
      <3>3. QED
        BY <1>3, <3>1, <3>2
    <2>3. QED
      BY <2>1, <2>2
  <1>5. ASSUME NEW r \in 1..(n + m), r \notin 1..n PROVE stock'[r].quantity >= 0
    <2>1. PICK i \in Int : i = r - n
      OBVIOUS
    <2>2. i \in 1..m /\ r = n + i
      BY <1>5, <2>1
    <2>3. stock'[r] = o.made[i]
      BY <1>3, <2>2
    <2>4. QED
      BY <1>1, <1>2, <2>2, <2>3 DEF Covered, Fits
  <1>6. QED
    BY <1>3, <1>4, <1>5 DEF InStock

\* More rows change nothing for a transaction.
LEMMA CoveredLater ==
  ASSUME FormIInv, NEW t \in Tx, TxOK(t, stock, resources), Covered(t, stock),
         NEW rows, \A r \in Rows : rows[r] = stock[r]
  PROVE  Covered(t, rows)
  <1>1. \A r \in DOMAIN t.moves : rows[r] = stock[r]
    BY RowNumbers
  <1>2. t.step \in {"read", "debit"} => rows[t.row] = stock[t.row]
    BY DEF TxOK, Sited, Rows
  <1>3. Fits(t, rows)
    BY <1>1 DEF Covered, Fits
  <1>4. Held(t, rows)
    BY DEF Covered, Held, TxOK, Sited, Rows
  <1>5. Checked(t, rows)
    BY <1>2 DEF Covered, Checked
  <1>6. QED
    BY <1>3, <1>4, <1>5 DEF Covered

\* The invariant on quantities is inductive.
LEMMA CoveredStep ==
  ASSUME FormIInv, CoveredIInv, [Next]_vars
  PROVE  CoveredIInv'
  <1>0. Alone'
    BY AloneStep DEF CoveredIInv
  <1> DEFINE Goal == InStock(stock') /\ \A y \in Actors : Covered(tx'[y], stock')
  <1>1. ASSUME ~overlapped' PROVE Goal
    <2>1. ASSUME NEW x \in Actors, NEW n \in Tx, UNCHANGED stock, tx'[x] = n,
                 \A y \in Actors \ {x} : tx'[y] = tx[y], ~overlapped, Covered(n, stock)
          PROVE  Goal
      BY <2>1 DEF CoveredIInv
    <2>2. ASSUME NEW x \in Actors, Statement(x) PROVE Goal
      <3>1. \E n \in Tx : Goes(x, n) /\ TxOK(n, stock, resources)
        BY <2>2, StatementEffect
      <3>2. ~overlapped
        BY <1>1, <3>1 DEF Goes
      <3>3. PICK n \in Tx : Goes(x, n) /\ TxOK(n, stock, resources) /\ Covered(n, stock)
        BY <2>2, <3>2, CoveredStatement DEF CoveredIInv
      <3>4. UNCHANGED committedVars /\ tx'[x] = n /\ \A y \in Actors \ {x} : tx'[y] = tx[y]
        BY <3>3, FormStatement
      <3>5. UNCHANGED stock
        BY <3>4 DEF committedVars
      <3> HIDE DEF Goal
      <3>6. QED
        BY <2>1, <3>2, <3>3, <3>4, <3>5
    <2>3. ASSUME NEW x \in Actors, BeginsNew(x) PROVE Goal
      <3>1. PICK n \in Tx : Begin(x, n) /\ TxOK(n, stock, resources) /\ Started(x, n)
        BY <2>3, Starts
      <3>2. UNCHANGED committedVars /\ requests' \in 0..MaxRequests
        BY <2>3, Starts
      <3>3. tx'[x] = n /\ \A y \in Actors \ {x} : tx'[y] = tx[y]
        BY <3>1, <3>2, FormBegins
      <3>4. ~overlapped
        BY <1>1, <3>1 DEF Begin
      <3>5. Covered(n, stock)
        BY <3>1, <3>4, CoveredBegins DEF CoveredIInv
      <3>6. UNCHANGED stock
        BY <3>2 DEF committedVars
      <3> HIDE DEF Goal
      <3>7. QED
        BY <2>1, <3>3, <3>4, <3>5, <3>6
    <2>4. ASSUME NEW x \in Actors, Commits(x) PROVE Goal
      <3>1. ApplyStock(x) /\ Apply(x) /\ Ends(x)
        BY <2>4 DEF Commits, Apply
      <3>2. ~overlapped
        BY <1>1, <3>1 DEF Ends
      <3>3. InStock(stock')
        BY <3>1, <3>2, InStockCommit DEF CoveredIInv
      <3>4. tx'[x] = NoTx /\ \A y \in Actors \ {x} : tx'[y] = tx[y]
        BY <3>1, FormCommit
      <3>5. \A y \in Actors \ {x} : tx[y] = NoTx
        BY <2>4, <3>2, IsOpen DEF CoveredIInv, Alone, Open
      <3>6. \A y \in Actors : tx'[y] = NoTx
        BY <3>4, <3>5
      <3>7. QED
        BY <3>3, <3>6, NothingCovered
    <2>5. ASSUME NEW x \in Actors, Fails(x) PROVE Goal
      <3>1. /\ UNCHANGED committedVars /\ overlapped' = overlapped /\ tx'[x] = NoTx
            /\ \A y \in Actors \ {x} : tx'[y] = tx[y]
        BY <2>5, FormFails
      <3>2. Covered(NoTx, stock) /\ ~overlapped /\ NoTx \in Tx
        BY <1>1, <3>1, NoTxFacts, NothingCovered
      <3>3. UNCHANGED stock
        BY <3>1 DEF committedVars
      <3> HIDE DEF Goal
      <3>4. QED
        BY ONLY x \in Actors, <2>1, <3>1, <3>2, <3>3
    <2>6. ASSUME NEW row \in NewRows, CreateRow(row) PROVE Goal
      <3>1. /\ Len(stock') = Len(stock) + 1 /\ stock'[Len(stock) + 1] = row /\ row.quantity \in Nat
            /\ \A r \in Rows : stock'[r] = stock[r]
        BY <2>6, FormCreateRow
      <3>2. UNCHANGED <<tx, overlapped>>
        BY <2>6 DEF CreateRow
      <3>3. InStock(stock')
        <4>1. PICK n \in Nat : n = Len(stock)
          BY CommittedFacts
        <4>2. \A r \in 1..n : stock[r].quantity >= 0
          BY <1>1, <3>2, <4>1 DEF CoveredIInv, InStock
        <4>3. \A r \in 1..(n + 1) : r \in 1..n \/ r = n + 1
          OBVIOUS
        <4>4. QED
          BY <3>1, <4>1, <4>2, <4>3 DEF InStock, Rows
      <3>4. ASSUME NEW y \in Actors PROVE Covered(tx'[y], stock')
        <4>1. PICK t \in Tx : t = tx[y] /\ TxOK(t, stock, resources) /\ Covered(t, stock)
          BY <1>1, <3>2, TxFacts DEF CoveredIInv
        <4>2. Covered(t, stock')
          BY <3>1, <4>1, CoveredLater
        <4>3. QED
          BY <3>2, <4>1, <4>2
      <3>5. QED
        BY <3>3, <3>4
    <2>7. ASSUME Changes \/ UNCHANGED stockVars PROVE Goal
      <3>1. UNCHANGED <<stock, tx, overlapped>>
        BY <2>7, FormOther, FormElse DEF Changes
      <3>2. QED
        BY <1>1, <3>1 DEF CoveredIInv
    <2>8. QED
      BY <2>2, <2>3, <2>4, <2>5, <2>6, <2>7, StepCases
  <1>2. QED
    BY <1>0, <1>1 DEF CoveredIInv

\* As long as transactions do not overlap, what they check before they update keeps every
\* quantity from being negative (adjust_stock, complete_transfer, _handle_sell_out_event,
\* approve_reconciliation).
THEOREM AloneNeverNegative == Spec => []NeverNegativeAlone
  <1>1. Init => FormIInv /\ CoveredIInv
    <2> SUFFICES ASSUME Init PROVE FormIInv /\ CoveredIInv
      OBVIOUS
    <2>1. FormIInv
      BY FormInit
    <2>2. Alone
      BY DEF Init, Alone, Open
    <2>3. InStock(stock)
      <3>1. stock = Opening /\ Opening \in Seq(ProductInventoryCreate)
        BY InventoryAssumption DEF Init, InventoryAssumption
      <3>2. QED
        BY <3>1 DEF InStock, ProductInventoryCreate
    <2>4. \A x \in Actors : Covered(tx[x], stock)
      BY NothingCovered DEF Init
    <2>5. QED
      BY <2>1, <2>2, <2>3, <2>4 DEF CoveredIInv
  <1>2. FormIInv /\ CoveredIInv /\ [Next]_vars => (FormIInv /\ CoveredIInv)'
    BY FormStep, CoveredStep
  <1>3. CoveredIInv => NeverNegativeAlone
    BY DEF CoveredIInv, NeverNegativeAlone, InStock, Rows
  <1>4. QED
    BY <1>1, <1>2, <1>3, PTL DEF Spec

-----------------------------------------------------------------------------
(* The books.  What a transaction does to the rows of a product is, when it *)
(* commits, what it books, whatever others have committed since it read:    *)
(* it adds to the rows, and never sets them.                                *)

\* What updates add to the rows of a product.
NetOf(m, p, rows) == SumFunction([r \in DOMAIN m |-> IF rows[r].product = p THEN m[r] ELSE 0])

\* A transaction before its last update has not done all that it books.
Due(t, rows) ==
  /\ t.made = <<>> \/ \E row \in Row : t.made = <<row>>
  /\ t.op \notin {"transfer", "receive"} => t.made = <<>>
  /\ t.op = "adjust" => t.moves = IF t.step = "read" THEN <<>> ELSE Plus(<<>>, t.row, t.delta)
  /\ t.op = "transfer" /\ t.step \in {"source", "debit"} => t.moves = <<>> /\ t.made = <<>>
  /\ t.op = "receive" /\ t.step \in {"credit", "deposit"} => t.moves = <<>> /\ t.made = <<>>
  /\ t.op = "transfer" /\ t.step = "debit" => rows[t.row].product = TransferOf[t.ref].product
  /\ t.op \in {"transfer", "receive"} /\ t.step = "deposit" =>
       rows[t.row].product = Incoming(t).product
  /\ t.op = "transfer" /\ t.step \in {"credit", "deposit"} =>
       /\ t.made = <<>>
       /\ \A p \in Products : NetOf(t.moves, p, rows) =
            IF TransferOf[t.ref].product = p THEN -TransferOf[t.ref].quantity ELSE 0
  /\ t.op = "transfer" /\ t.step \in {"status", "ready"} =>
       \A p \in Products : NetOf(t.moves, p, rows) + OnHand(t.made, p) = 0
  /\ t.op = "receive" /\ t.step \in {"register", "ready"} =>
       \A p \in Products : NetOf(t.moves, p, rows) + OnHand(t.made, p) =
         IF ReceiptOf[t.ref].product = p THEN ReceiptOf[t.ref].quantity ELSE 0
BooksIInv == StockConserved /\ \A x \in Actors : Due(tx[x], stock)

\* Updates of finitely many rows add up to a number.
LEMMA NetOfInt ==
  ASSUME NEW m \in Moves, IsFiniteSet(DOMAIN m), NEW p, NEW rows
  PROVE  NetOf(m, p, rows) \in Int
  <1>1. PICK f : f = [r \in DOMAIN m |-> IF rows[r].product = p THEN m[r] ELSE 0]
    OBVIOUS
  <1>2. DOMAIN f = DOMAIN m /\ \A r \in DOMAIN m : m[r] \in Int
    BY <1>1 DEF Moves
  <1>3. \A r \in DOMAIN f : f[r] \in Int
    BY <1>1, <1>2
  <1>4. IsFiniteSet(DOMAIN f)
    BY <1>2
  <1>5. SumFunction(f) \in Int
    BY <1>3, <1>4, SumFunctionInt
  <1>6. QED
    BY <1>1, <1>5 DEF NetOf

\* No update adds nothing.
LEMMA NetOfNone == \A p, rows : NetOf(<<>>, p, rows) = 0
  <1>1. SUFFICES ASSUME NEW p, NEW rows PROVE NetOf(<<>>, p, rows) = 0
    OBVIOUS
  <1>2. PICK f : f = [r \in DOMAIN <<>> |-> IF rows[r].product = p THEN <<>>[r] ELSE 0]
    OBVIOUS
  <1>3. DOMAIN f = {}
    BY <1>2, NoMoves
  <1>4. QED
    BY <1>2, <1>3, SumFunctionEmpty DEF NetOf

\* One update more adds what it adds.
LEMMA NetOfPlus ==
  ASSUME NEW m \in Moves, IsFiniteSet(DOMAIN m), NEW r \in Nat, NEW delta \in Int, NEW p, NEW rows
  PROVE  NetOf(Plus(m, r, delta), p, rows)
           = NetOf(m, p, rows) + (IF rows[r].product = p THEN delta ELSE 0)
  <1>1. PICK e : e = Plus(m, r, delta)
    OBVIOUS
  <1>2. DOMAIN e = DOMAIN m \cup {r}
    BY <1>1, PlusFacts
  <1>3. e[r] = (IF r \in DOMAIN m THEN m[r] ELSE 0) + delta
    BY <1>1, PlusAt
  <1>4. \A q \in DOMAIN m : q # r => e[q] = m[q]
    BY <1>1, PlusAt
  <1>5. \A q \in DOMAIN m : m[q] \in Int
    BY DEF Moves
  <1>6. PICK f : f = [q \in DOMAIN m |-> IF rows[q].product = p THEN m[q] ELSE 0]
    OBVIOUS
  <1>7. PICK g : g = [q \in DOMAIN e |-> IF rows[q].product = p THEN e[q] ELSE 0]
    OBVIOUS
  <1>8. DOMAIN f = DOMAIN m /\ DOMAIN g = DOMAIN f \cup {r} /\ IsFiniteSet(DOMAIN f)
    BY <1>2, <1>6, <1>7
  <1>9. \A q \in DOMAIN f : f[q] \in Int /\ (q # r => g[q] = f[q])
    BY <1>2, <1>4, <1>5, <1>6, <1>7
  <1>10. PICK add \in Int : add = IF rows[r].product = p THEN delta ELSE 0
    OBVIOUS
  <1>11. SumFunction(g) = SumFunction(f) + add
    <2>1. CASE r \notin DOMAIN f
      <3>1. \A q \in DOMAIN f : f[q] \in Int /\ g[q] = f[q]
        BY <1>9, <2>1
      <3>2. g[r] = add
        BY <1>3, <1>7, <1>8, <1>10, <2>1
      <3>3. g[r] \in Int
        BY <3>2
      <3>4. SumFunction(g) = SumFunction(f) + g[r]
        BY <1>8, <2>1, <3>1, <3>3, SumFunctionAdded
      <3>5. QED
        BY <3>2, <3>4
    <2>2. CASE r \in DOMAIN f
      <3>1. PICK U : U = DOMAIN f
        OBVIOUS
      <3>2. DOMAIN g = U /\ r \in U /\ IsFiniteSet(U) /\ IsFiniteSet(U \ {r})
        BY <1>8, <2>2, <3>1, FS_Subset
      <3>3. g[r] = f[r] + add /\ f[r] \in Int
        <4>1. m[r] \in Int /\ e[r] = m[r] + delta
          BY <1>3, <1>5, <1>8, <2>2
        <4>2. f[r] = (IF rows[r].product = p THEN m[r] ELSE 0)
              /\ g[r] = (IF rows[r].product = p THEN e[r] ELSE 0)
          BY <1>6, <1>7, <1>8, <2>2
        <4>3. QED
          BY <1>10, <4>1, <4>2
      <3>4. (\A q \in U : f[q] \in Int) /\ (\A q \in U : g[q] \in Int)
        <4>1. g[r] \in Int
          BY <1>10, <3>3
        <4>2. QED
          BY <1>9, <3>1, <3>3, <4>1
      <3>5. SumFunctionOnSet(f, U) = f[r] + SumFunctionOnSet(f, U \ {r})
        <4>1. IsFiniteSet(U)
          BY <3>2
        <4>2. \A q \in U : f[q] \in Int
          BY <3>4
        <4>3. PICK y \in U : y = r
          BY <3>2
        <4>4. SumFunctionOnSet(f, U) = f[y] + SumFunctionOnSet(f, U \ {y})
          BY ONLY <4>1, <4>2, y \in U, SumTakeOut
        <4>5. QED
          BY <4>3, <4>4
      <3>6. SumFunctionOnSet(g, U) = g[r] + SumFunctionOnSet(g, U \ {r})
        <4>1. IsFiniteSet(U)
          BY <3>2
        <4>2. \A q \in U : g[q] \in Int
          BY <3>4
        <4>3. PICK y \in U : y = r
          BY <3>2
        <4>4. SumFunctionOnSet(g, U) = g[y] + SumFunctionOnSet(g, U \ {y})
          BY ONLY <4>1, <4>2, y \in U, SumTakeOut
        <4>5. QED
          BY <4>3, <4>4
      <3>7. \A q \in U \ {r} : f[q] = g[q]
        BY <1>9, <3>1
      <3>8. SumFunctionOnSet(f, U \ {r}) = SumFunctionOnSet(g, U \ {r})
        BY <3>2, <3>7, SumSame
      <3>9. \A q \in U \ {r} : f[q] \in Int
        BY <3>4
      <3>10. SumFunctionOnSet(f, U \ {r}) \in Int
        BY <3>2, <3>9, SumInt
      <3>11. SumFunction(f) = SumFunctionOnSet(f, U) /\ SumFunction(g) = SumFunctionOnSet(g, U)
        BY <3>1, <3>2, SumFunctionIs
      <3>12. QED
        BY <3>3, <3>5, <3>6, <3>8, <3>10, <3>11
    <2>3. QED
      BY <2>1, <2>2
  <1>12. QED
    BY <1>1, <1>6, <1>7, <1>10, <1>11 DEF NetOf

\* Rows that keep their product count for the same.
LEMMA NetOfKept ==
  ASSUME NEW m, NEW p, NEW rows, NEW later, \A r \in DOMAIN m : later[r].product = rows[r].product
  PROVE  NetOf(m, p, later) = NetOf(m, p, rows)
  BY DEF NetOf

\* The quantity of rows is a number, and that of one row what it holds.
LEMMA OnHandFacts ==
  ASSUME NEW p
  PROVE  /\ \A rows \in Seq(Row) : OnHand(rows, p) \in Int
         /\ OnHand(<<>>, p) = 0
         /\ \A row \in Row : OnHand(<<row>>, p) = IF row.product = p THEN row.quantity ELSE 0
  <1>1. ASSUME NEW rows \in Seq(Row) PROVE OnHand(rows, p) \in Int
    <2>1. PICK f : f = [r \in 1..Len(rows) |-> IF rows[r].product = p THEN rows[r].quantity ELSE 0]
      OBVIOUS
    <2>2. DOMAIN f = 1..Len(rows) /\ IsFiniteSet(DOMAIN f)
      BY <2>1, FS_Interval
    <2>3. \A r \in DOMAIN f : f[r] \in Int
      <3>1. \A r \in 1..Len(rows) : rows[r] \in Row
        OBVIOUS
      <3>2. QED
        BY <2>1, <2>2, <3>1 DEF Row
    <2>4. SumFunction(f) \in Int
      BY <2>2, <2>3, SumFunctionInt
    <2>5. QED
      BY <2>1, <2>4 DEF OnHand
  <1>2. OnHand(<<>>, p) = 0
    <2>1. PICK f : f = [r \in 1..Len(<<>>) |-> IF <<>>[r].product = p THEN <<>>[r].quantity ELSE 0]
      OBVIOUS
    <2>2. DOMAIN f = {}
      BY <2>1
    <2>3. QED
      BY <2>1, <2>2, SumFunctionEmpty DEF OnHand
  <1>3. ASSUME NEW row \in Row
        PROVE  OnHand(<<row>>, p) = IF row.product = p THEN row.quantity ELSE 0
    <2>0. PICK rows : rows = <<row>>
      OBVIOUS
    <2>1. PICK f : f = [r \in 1..Len(rows) |-> IF rows[r].product = p THEN rows[r].quantity ELSE 0]
      OBVIOUS
    <2>2. Len(rows) = 1 /\ 1..1 = {1} /\ rows[1] = row
      BY <2>0
    <2>3. DOMAIN f = {1} /\ f[1] = (IF row.product = p THEN row.quantity ELSE 0)
      BY <2>1, <2>2
    <2>4. f[1] \in Int
      BY <2>3 DEF Row
    <2>5. SumFunction(f) = f[1]
      BY <2>3, <2>4, SumFunctionOne
    <2>6. QED
      BY <2>0, <2>1, <2>3, <2>5 DEF OnHand
  <1>4. QED
    BY <1>1, <1>2, <1>3

\* A row more.
LEMMA OnHandMore ==
  ASSUME NEW rows \in Seq(Row), NEW later \in Seq(Row), NEW p, Len(later) = Len(rows) + 1,
         \A r \in 1..Len(rows) : later[r].product = rows[r].product /\ later[r].quantity = rows[r].quantity
  PROVE  OnHand(later, p) = OnHand(rows, p) + (IF later[Len(rows) + 1].product = p
                                               THEN later[Len(rows) + 1].quantity ELSE 0)
  <1>1. PICK n \in Nat : n = Len(rows)
    OBVIOUS
  <1>2. PICK f : f = [r \in 1..n |-> IF rows[r].product = p THEN rows[r].quantity ELSE 0]
    OBVIOUS
  <1>3. PICK g : g = [r \in 1..(n + 1) |-> IF later[r].product = p THEN later[r].quantity ELSE 0]
    OBVIOUS
  <1>4. DOMAIN f = 1..n /\ DOMAIN g = 1..(n + 1)
    BY <1>2, <1>3
  <1>5. \A r \in 1..n : rows[r] \in Row
    BY <1>1
  <1>6. later[n + 1] \in Row
    BY <1>1
  <1>7. \A r \in 1..n : f[r] \in Int /\ g[r] = f[r]
    <2>1. SUFFICES ASSUME NEW r \in 1..n PROVE f[r] \in Int /\ g[r] = f[r]
      OBVIOUS
    <2>2. r \in 1..(n + 1) /\ rows[r].quantity \in Int
      BY <1>5 DEF Row
    <2>3. QED
      BY <1>1, <1>2, <1>3, <2>2
  <1>8. g[n + 1] = (IF later[n + 1].product = p THEN later[n + 1].quantity ELSE 0)
    BY <1>3
  <1>9. g[n + 1] \in Int
    BY <1>6, <1>8 DEF Row
  <1>10. SumFunctionOnSet(g, 1..(n + 1)) = SumFunctionOnSet(f, 1..n) + g[n + 1]
    BY ONLY n \in Nat, <1>7, <1>9, SumNext
  <1>11. SumFunction(g) = SumFunctionOnSet(g, 1..(n + 1)) /\ SumFunction(f) = SumFunctionOnSet(f, 1..n)
    BY <1>4, SumFunctionIs
  <1>12. OnHand(rows, p) = SumFunction(f)
    BY <1>1, <1>2 DEF OnHand
  <1>13. OnHand(later, p) = SumFunction(g)
    BY <1>1, <1>3 DEF OnHand
  <1>14. QED
    BY <1>1, <1>8, <1>10, <1>11, <1>12, <1>13

\* The rows there are, with what is added to them.
LEMMA OnHandMoved ==
  ASSUME NEW rows \in Seq(Row), NEW later \in Seq(Row), NEW p, Len(later) = Len(rows), NEW m \in Moves,
         DOMAIN m \subseteq 1..Len(rows),
         \A r \in 1..Len(rows) :
           /\ later[r].product = rows[r].product
           /\ later[r].quantity = rows[r].quantity + (IF r \in DOMAIN m THEN m[r] ELSE 0)
  PROVE  OnHand(later, p) = OnHand(rows, p) + NetOf(m, p, rows)
  <1>1. PICK n \in Nat : n = Len(rows)
    OBVIOUS
  <1>2. PICK U : U = 1..n
    OBVIOUS
  <1>3. PICK D : D = DOMAIN m
    OBVIOUS
  <1>4. IsFiniteSet(U) /\ D \subseteq U /\ IsFiniteSet(D)
    <2>1. IsFiniteSet(1..n)
      BY FS_Interval
    <2>2. D \subseteq U
      BY <1>1, <1>2, <1>3
    <2>3. IsFiniteSet(U)
      BY <1>2, <2>1
    <2>4. QED
      BY <2>2, <2>3, FS_Subset
  <1>5. PICK f : f = [r \in U |-> IF rows[r].product = p THEN rows[r].quantity ELSE 0]
    OBVIOUS
  <1>6. PICK h : h = [r \in U |-> IF later[r].product = p THEN later[r].quantity ELSE 0]
    OBVIOUS
  <1>7. PICK e : e = [r \in D |-> IF rows[r].product = p THEN m[r] ELSE 0]
    OBVIOUS
  <1>8. PICK g : g = [r \in U |-> IF r \in D THEN e[r] ELSE 0]
    OBVIOUS
  <1>9. \A r \in D : m[r] \in Int
    BY <1>3 DEF Moves
  <1>10. \A r \in D : e[r] \in Int
    BY <1>7, <1>9
  <1>11. \A r \in U : rows[r].quantity \in Int
    <2>1. \A r \in 1..Len(rows) : rows[r] \in Row
      OBVIOUS
    <2>2. QED
      BY <1>1, <1>2, <2>1 DEF Row
  <1>12. \A r \in U : f[r] \in Int /\ g[r] \in Int /\ h[r] = f[r] + g[r]
    <2>1. SUFFICES ASSUME NEW r \in U PROVE f[r] \in Int /\ g[r] \in Int /\ h[r] = f[r] + g[r]
      OBVIOUS
    <2>2. f[r] \in Int /\ g[r] \in Int
      BY <1>5, <1>8, <1>10, <1>11
    <2>3. h[r] = IF rows[r].product = p THEN rows[r].quantity + (IF r \in D THEN m[r] ELSE 0) ELSE 0
      BY <1>1, <1>2, <1>3, <1>6
    <2>4. CASE rows[r].product = p
      <3>1. f[r] = rows[r].quantity /\ h[r] = rows[r].quantity + (IF r \in D THEN m[r] ELSE 0)
        BY <1>5, <2>3, <2>4
      <3>2. g[r] = IF r \in D THEN m[r] ELSE 0
        BY <1>7, <1>8, <2>4
      <3>3. QED
        BY <2>2, <3>1, <3>2
    <2>5. CASE rows[r].product # p
      BY <1>5, <1>7, <1>8, <2>3, <2>5
    <2>6. QED
      BY <2>2, <2>4, <2>5
  <1>13. SumFunctionOnSet(h, U) = SumFunctionOnSet(f, U) + SumFunctionOnSet(g, U)
    BY ONLY <1>4, <1>12, SumPlus
  <1>14. SumFunctionOnSet(g, U) = SumFunctionOnSet(g, D)
    <2>1. IsFiniteSet(U)
      BY <1>4
    <2>2. D \subseteq U
      BY <1>4
    <2>3. \A r \in U : g[r] \in Int
      BY <1>12
    <2>4. \A r \in U \ D : g[r] = 0
      BY <1>8
    <2>5. QED
      BY ONLY <2>1, <2>2, <2>3, <2>4, SumWhere
  <1>15. SumFunctionOnSet(g, D) = SumFunctionOnSet(e, D)
    <2>1. \A r \in D : g[r] = e[r]
      BY <1>4, <1>8
    <2>2. QED
      BY <1>4, <2>1, SumSame
  <1>16. DOMAIN f = U /\ DOMAIN h = U /\ DOMAIN e = D
    BY <1>5, <1>6, <1>7
  <1>17. OnHand(rows, p) = SumFunctionOnSet(f, U)
    BY <1>1, <1>2, <1>5, <1>16, SumFunctionIs DEF OnHand
  <1>18. OnHand(later, p) = SumFunctionOnSet(h, U)
    BY <1>1, <1>2, <1>6, <1>16, SumFunctionIs DEF OnHand
  <1>19. NetOf(m, p, rows) = SumFunctionOnSet(e, D)
    BY <1>3, <1>7, <1>16, SumFunctionIs DEF NetOf
  <1>20. QED
    BY <1>13, <1>14, <1>15, <1>17, <1>18, <1>19

\* A transaction has updated finitely many rows.
LEMMA MovesFinite ==
  ASSUME FormIInv, NEW t \in Tx, TxOK(t, stock, resources)
  PROVE  t.moves \in Moves /\ DOMAIN t.moves \subseteq 1..Len(stock) /\ IsFiniteSet(DOMAIN t.moves)
  <1>1. t.moves \in Moves /\ DOMAIN t.moves \subseteq 1..Len(stock) /\ Len(stock) \in Nat
    BY CommittedFacts DEF TxOK, Sited, Tx
  <1>2. IsFiniteSet(1..Len(stock))
    BY <1>1, FS_Interval
  <1>3. QED
    BY <1>1, <1>2, FS_Subset

\* What a commit leaves of a product.
LEMMA OnHandCommit ==
  ASSUME FormIInv, NEW x \in Actors, NEW o \in Tx, o = tx[x], TxOK(o, stock, resources), ApplyStock(x),
         o.made = <<>> \/ \E row \in Row : o.made = <<row>>, NEW p
  PROVE  OnHand(stock', p) = OnHand(stock, p) + NetOf(o.moves, p, stock) + OnHand(o.made, p)
  <1>1. PICK n \in Nat : n = Len(stock)
    BY CommittedFacts
  <1>2. stock \in Seq(Row) /\ stock' \in Seq(Row) /\ Len(stock') = n + Len(o.made)
    BY <1>1, CommittedFacts, CommitStock
  <1>3. \A r \in 1..n : /\ stock'[r].product = stock[r].product
                        /\ stock'[r].quantity = stock[r].quantity + Moved(o, r)
    BY <1>1, CommitStock DEF Rows
  <1>4. PICK mid : mid = [r \in 1..n |-> stock'[r]]
    OBVIOUS
  <1>5. mid \in Seq(Row) /\ Len(mid) = n /\ \A r \in 1..n : mid[r] = stock'[r]
    <2>1. \A r \in 1..n : stock'[r] \in Row
      <3>1. PICK k \in Nat : k = Len(o.made)
        BY DEF Tx
      <3>2. \A r \in 1..n : r \in 1..(n + k)
        BY <3>1
      <3>3. \A r \in 1..Len(stock') : stock'[r] \in Row
        BY <1>2
      <3>4. QED
        BY <1>2, <3>1, <3>2, <3>3
    <2>2. mid \in [1..n -> Row]
      BY <1>4, <2>1
    <2>3. QED
      BY <1>4, <2>2
  <1>6. PICK m \in Moves : m = o.moves /\ DOMAIN m \subseteq 1..n
    BY <1>1, MovesFinite
  <1>7. \A r \in 1..n : /\ mid[r].product = stock[r].product
                        /\ mid[r].quantity = stock[r].quantity + (IF r \in DOMAIN m THEN m[r] ELSE 0)
    BY <1>3, <1>5, <1>6 DEF Moved
  <1>8. OnHand(mid, p) = OnHand(stock, p) + NetOf(m, p, stock)
    <2>1. Len(mid) = Len(stock) /\ stock \in Seq(Row) /\ mid \in Seq(Row)
      BY <1>1, <1>2, <1>5
    <2>2. DOMAIN m \subseteq 1..Len(stock)
      BY <1>1, <1>6
    <2>3. \A r \in 1..Len(stock) :
            /\ mid[r].product = stock[r].product
            /\ mid[r].quantity = stock[r].quantity + (IF r \in DOMAIN m THEN m[r] ELSE 0)
      BY <1>1, <1>7
    <2>4. QED
      BY ONLY m \in Moves, <2>1, <2>2, <2>3, OnHandMoved
  <1>9. OnHand(mid, p) \in Int /\ OnHand(<<>>, p) = 0
    BY <1>5, OnHandFacts
  <1>10. CASE o.made = <<>>
    <2>1. Len(stock') = n
      BY <1>2, <1>10
    <2>2. stock' = mid
      BY <1>2, <1>4, <1>5, <2>1
    <2>3. QED
      BY <1>6, <1>8, <1>9, <1>10, <2>2
  <1>11. ASSUME NEW row \in Row, o.made = <<row>>
         PROVE  OnHand(stock', p) = OnHand(stock, p) + NetOf(o.moves, p, stock) + OnHand(o.made, p)
    <2>1. Len(stock') = n + 1 /\ Len(o.made) = 1 /\ o.made[1] = row
      BY <1>2, <1>11
    <2>2. stock'[n + 1] = row
      BY <1>1, <2>1, CommitStock
    <2>3. \A r \in 1..Len(mid) : stock'[r].product = mid[r].product /\ stock'[r].quantity = mid[r].quantity
      BY <1>5
    <2>4. Len(stock') = Len(mid) + 1 /\ mid \in Seq(Row) /\ stock' \in Seq(Row)
      BY <1>2, <1>5, <2>1
    <2>5. PICK later \in Seq(Row) : later = stock'
      BY <1>2
    <2>6. OnHand(later, p) = OnHand(mid, p) + (IF later[Len(mid) + 1].product = p
                                                THEN later[Len(mid) + 1].quantity ELSE 0)
      BY <2>3, <2>4, <2>5, OnHandMore
    <2>7. OnHand(stock', p) = OnHand(mid, p) + (IF row.product = p THEN row.quantity ELSE 0)
      BY <1>5, <2>2, <2>5, <2>6
    <2>8. OnHand(o.made, p) = IF row.product = p THEN row.quantity ELSE 0
      BY <1>11, OnHandFacts
    <2>9. QED
      BY <1>6, <1>8, <2>7, <2>8
  <1>12. QED
    BY <1>10, <1>11

\* Every statement leaves due what the rest of the operation does.
LEMMA DueStatement ==
  ASSUME FormIInv, NEW x \in Actors, Due(tx[x], stock), Statement(x)
  PROVE  \E n \in Tx : Goes(x, n) /\ TxOK(n, stock, resources) /\ Due(n, stock)
  <1>0. PICK o \in Tx : o = tx[x] /\ TxOK(o, stock, resources) /\ Due(o, stock)
    BY TxFacts
  <1>1. CASE AdjustQuantity(x)
    <2>1. PICK n \in Tx :
           /\ Goes(x, n) /\ TxOK(n, stock, resources)
           /\ o.step = "read" /\ Same(o, n) /\ n.made = o.made
           /\ n.moves = Plus(o.moves, o.row, o.delta) /\ Advance(o, n)
      BY <1>0, <1>1, AdjustEffect
    <2>2. o.op \in {"adjust", "sale", "approve"}
      BY <1>0, <2>1, NoTxFacts DEF TxOK, Shape
    <2>3. o.op = "adjust" => n.moves = Plus(<<>>, n.row, n.delta) /\ n.step = "ready"
      BY <1>0, <2>1 DEF Due, Advance, ToNextLine
    <2>4. n.made = <<>> /\ n.op = o.op
      BY <1>0, <2>1, <2>2 DEF Due, Same
    <2>5. Due(n, stock)
      BY <2>2, <2>3, <2>4 DEF Due
    <2>6. QED
      BY <2>1, <2>5
  <1>2. CASE \/ LineRead(x) \/ LineSkipped(x) \/ LinesApplied(x) \/ Reserve(x) \/ MarkSold(x)
    <2>1. PICK n \in Tx :
           /\ Goes(x, n) /\ TxOK(n, stock, resources)
           /\ o.op \in {"sale", "approve", "reserve"} /\ Same(o, n) /\ SameStock(o, n)
      BY <1>0, <1>2, LineReadEffect, LineSkippedEffect, LinesAppliedEffect, ReserveEffect, MarkSoldEffect
    <2>2. Due(n, stock)
      BY <1>0, <2>1 DEF Due, Same, SameStock
    <2>3. QED
      BY <2>1, <2>2
  <1>3. CASE CompleteTransfer(x) \/ UpdateReconciliation(x) \/ RegisterSerials(x)
    <2>1. PICK n \in Tx :
           /\ Goes(x, n) /\ TxOK(n, stock, resources)
           /\ \/ o.op \in {"transfer", "approve", "submit"} /\ o.step = "status"
              \/ o.op = "receive" /\ o.step = "register"
           /\ Same(o, n) /\ SameStock(o, n) /\ n.step = "ready"
      BY <1>0, <1>3, StatusEffect, RegisterEffect
    <2>2. Due(n, stock)
      BY <1>0, <2>1 DEF Due, Same, SameStock
    <2>3. QED
      BY <2>1, <2>2
  <1>4. CASE SourceRead(x)
    <2>1. PICK n \in Tx, r \in Rows :
           /\ Goes(x, n) /\ TxOK(n, stock, resources)
           /\ o.op = "transfer" /\ o.step = "source"
           /\ stock[r].product = TransferOf[o.ref].product
           /\ Same(o, n) /\ SameStock(o, n) /\ n.step = "debit" /\ n.row = r
      BY <1>0, <1>4, SourceReadEffect
    <2>2. Due(n, stock)
      BY <1>0, <2>1 DEF Due, Same, SameStock
    <2>3. QED
      BY <2>1, <2>2
  <1>5. CASE Debit(x)
    <2>1. PICK n \in Tx :
           /\ Goes(x, n) /\ TxOK(n, stock, resources)
           /\ o.op = "transfer" /\ o.step = "debit" /\ o.row \in Rows
           /\ Same(o, n) /\ n.made = o.made /\ n.step = "credit"
           /\ n.moves = Plus(o.moves, o.row, -TransferOf[o.ref].quantity)
      BY <1>0, <1>5, DebitEffect
    <2>2. o.ref \in Transfers
      BY <1>0, <2>1, NoTxFacts DEF TxOK, Shape
    <2>0. PICK q \in Nat : q = TransferOf[o.ref].quantity
      BY <2>2, DocumentFacts
    <2>9. o.moves \in Moves /\ o.row \in Nat
      BY DEF Tx
    <2>8. PICK delta \in Int : delta = -q
      OBVIOUS
    <2>3. PICK m \in Moves, r \in Nat :
            m = o.moves /\ r = o.row /\ q = TransferOf[o.ref].quantity /\ delta = -q
      BY <2>0, <2>8, <2>9
    <2>4. m = <<>> /\ o.made = <<>> /\ stock[r].product = TransferOf[o.ref].product
      BY <1>0, <2>1, <2>3 DEF Due
    <2>5. ASSUME NEW p \in Products
          PROVE  NetOf(n.moves, p, stock) = IF TransferOf[n.ref].product = p THEN -TransferOf[n.ref].quantity ELSE 0
      <3>1. IsFiniteSet(DOMAIN m)
        BY <1>0, <2>3, MovesFinite
      <3>2. NetOf(Plus(m, r, delta), p, stock) = NetOf(m, p, stock) + (IF stock[r].product = p THEN delta ELSE 0)
        BY <3>1, NetOfPlus
      <3>3. NetOf(m, p, stock) = 0
        BY <2>4, NetOfNone
      <3>4. QED
        BY <2>1, <2>3, <2>4, <3>2, <3>3 DEF Same
    <2>6. Due(n, stock)
      BY <2>1, <2>4, <2>5 DEF Due, Same
    <2>7. QED
      BY <2>1, <2>6
  <1>6. ASSUME NEW n \in Tx, Goes(x, n), TxOK(n, stock, resources), Same(o, n),
               o.step \in {"credit", "deposit"}, n.step = AfterCredit(o), o.op \in {"transfer", "receive"},
               n.made = <<>> \/ \E row \in Row : n.made = <<row>>,
               \A p \in Products :
                 NetOf(n.moves, p, stock) + OnHand(n.made, p)
                   = NetOf(o.moves, p, stock) + (IF Incoming(o).product = p THEN Incoming(o).quantity ELSE 0)
        PROVE  Due(n, stock)
    <2>1. (o.op = "transfer" /\ o.ref \in Transfers) \/ (o.op = "receive" /\ o.ref \in Receipts)
      BY <1>0, <1>6, AtCreditFacts
    <2>2. PICK q \in Nat, item \in Products : q = Incoming(o).quantity /\ item = Incoming(o).product
      BY <2>1, IncomingFacts
    <2>3. CASE o.op = "transfer"
      <3>1. TransferOf[o.ref].product = item /\ TransferOf[o.ref].quantity = q
        BY <2>1, <2>2, <2>3, IncomingFacts
      <3>2. ASSUME NEW p \in Products PROVE NetOf(n.moves, p, stock) + OnHand(n.made, p) = 0
        <4>1. NetOf(o.moves, p, stock) = IF item = p THEN -q ELSE 0
          BY <1>0, <1>6, <2>3, <3>1 DEF Due
        <4>2. QED
          BY <1>6, <2>2, <4>1
      <3>3. QED
        BY <1>6, <2>3, <3>2 DEF Due, Same, AfterCredit
    <2>4. CASE o.op = "receive"
      <3>1. ReceiptOf[o.ref].product = item /\ ReceiptOf[o.ref].quantity = q
        BY <2>1, <2>2, <2>4, IncomingFacts
      <3>2. ASSUME NEW p \in Products
            PROVE  NetOf(n.moves, p, stock) + OnHand(n.made, p) = IF item = p THEN q ELSE 0
        <4>1. NetOf(o.moves, p, stock) = 0
          BY <1>0, <1>6, <2>4, NetOfNone DEF Due
        <4>2. QED
          BY <1>6, <2>2, <4>1
      <3>3. QED
        BY <1>6, <2>4, <3>1, <3>2 DEF Due, Same, AfterCredit
    <2>5. QED
      BY <1>6, <2>3, <2>4
  <1>7. ASSUME o.step \in {"credit", "deposit"}, o.op \in {"transfer", "receive"} PROVE o.made = <<>>
    BY <1>0, <1>7 DEF Due
  <1>8. CASE Credit(x)
    <2>0. PICK n \in Tx :
           /\ Goes(x, n) /\ TxOK(n, stock, resources)
           /\ o.op \in {"transfer", "receive"} /\ o.step = "deposit" /\ o.row \in Rows
           /\ Same(o, n) /\ n.made = o.made /\ n.step = AfterCredit(o)
           /\ n.moves = Plus(o.moves, o.row, Incoming(o).quantity)
      BY <1>0, <1>8, CreditEffect
    <2>1. PICK r \in Rows : r = o.row /\ stock[r].product = Incoming(o).product
      BY <1>0, <2>0 DEF Due
    <2>2. (o.op = "transfer" /\ o.ref \in Transfers) \/ (o.op = "receive" /\ o.ref \in Receipts)
      BY <1>0, <2>0, AtCreditFacts
    <2>3. PICK m \in Moves, q \in Nat : m = o.moves /\ q = Incoming(o).quantity
      BY <2>2, IncomingFacts DEF Tx
    <2>4. q \in Int /\ r \in Nat /\ IsFiniteSet(DOMAIN m)
      BY <1>0, <2>3, MovesFinite, CommittedFacts
    <2>5. ASSUME NEW p \in Products
          PROVE  NetOf(n.moves, p, stock) + OnHand(n.made, p)
                   = NetOf(o.moves, p, stock) + (IF Incoming(o).product = p THEN Incoming(o).quantity ELSE 0)
      <3>1. NetOf(Plus(m, r, q), p, stock) = NetOf(m, p, stock) + (IF stock[r].product = p THEN q ELSE 0)
        BY <2>4, NetOfPlus
      <3>2. OnHand(n.made, p) = 0
        BY <1>7, <2>0, OnHandFacts
      <3>3. NetOf(m, p, stock) \in Int
        BY <2>4, NetOfInt
      <3>4. QED
        BY <2>0, <2>1, <2>3, <3>1, <3>2, <3>3
    <2>6. QED
      BY <1>6, <1>7, <2>0, <2>5
  <1>9. CASE CreditNewRow(x)
    <2>1. PICK n \in Tx, new \in Row :
           /\ Goes(x, n) /\ TxOK(n, stock, resources)
           /\ o.op \in {"transfer", "receive"} /\ o.step = "credit"
           /\ new.product = Incoming(o).product /\ new.quantity = Incoming(o).quantity
           /\ Same(o, n) /\ n.moves = o.moves /\ n.step = AfterCredit(o) /\ n.made = <<new>>
      BY <1>0, <1>9, CreditNewRowEffect
    <2>2. ASSUME NEW p \in Products
          PROVE  NetOf(n.moves, p, stock) + OnHand(n.made, p)
                   = NetOf(o.moves, p, stock) + (IF Incoming(o).product = p THEN Incoming(o).quantity ELSE 0)
      BY <2>1, OnHandFacts
    <2>3. QED
      BY <1>6, <2>1, <2>2
  <1>10. CASE CreditRead(x)
    <2>1. PICK n \in Tx, r \in Rows :
           /\ Goes(x, n) /\ TxOK(n, stock, resources)
           /\ o.op \in {"transfer", "receive"} /\ o.step = "credit"
           /\ stock[r].product = Incoming(o).product
           /\ Same(o, n) /\ SameStock(o, n) /\ n.step = "deposit" /\ n.row = r
      BY <1>0, <1>10, CreditReadEffect
    <2>2. Incoming(n) = Incoming(o)
      BY <2>1 DEF Incoming, Same
    <2>3. Due(n, stock)
      BY <1>0, <2>1, <2>2 DEF Due, Same, SameStock
    <2>4. QED
      BY <2>1, <2>3
  <1>11. QED
    BY <1>1, <1>2, <1>3, <1>4, <1>5, <1>8, <1>9, <1>10 DEF Statement

\* A transaction begins with everything due.
LEMMA DueBegins ==
  ASSUME NEW x, NEW n \in Tx, Started(x, n), NEW rows
  PROVE  Due(n, rows)
  BY DEF Due, Started

\* What others commit changes no product.
LEMMA DueLater ==
  ASSUME FormIInv, NEW t \in Tx, TxOK(t, stock, resources), Due(t, stock),
         NEW later, \A r \in Rows : later[r].product = stock[r].product
  PROVE  Due(t, later)
  <1>1. \A p : NetOf(t.moves, p, later) = NetOf(t.moves, p, stock)
    <2>1. \A r \in DOMAIN t.moves : later[r].product = stock[r].product
      BY RowNumbers
    <2>2. QED
      BY <2>1, NetOfKept
  <1>2. t.step \in {"debit", "deposit"} => later[t.row].product = stock[t.row].product
    BY DEF TxOK, Sited, Rows
  <1>3. QED
    BY <1>1, <1>2 DEF Due

\* When it commits, a transaction has done what it books.
LEMMA DoneAsBooked ==
  ASSUME FormIInv, NEW o \in Tx, TxOK(o, stock, resources), Due(o, stock), Done(o), NEW p \in Products
  PROVE  NetOf(o.moves, p, stock) + OnHand(o.made, p) = ToBook(o, p)
  <1>1. CASE o.op = "transfer"
    <2>1. o.step = "ready"
      BY <1>1 DEF Done
    <2>2. QED
      BY <1>1, <2>1 DEF Due, ToBook
  <1>2. CASE o.op = "receive"
    <2>1. o.step = "ready"
      BY <1>2 DEF Done
    <2>2. QED
      BY <1>2, <2>1 DEF Due, ToBook
  <1>3. CASE o.op = "adjust"
    <2>1. o.made = <<>> /\ o.moves = Plus(<<>>, o.row, o.delta)
      BY <1>3 DEF Due, Done
    <2>2. PICK m \in Moves, r \in Nat, delta \in Int : m = <<>> /\ r = o.row /\ delta = o.delta
      BY NoMoves DEF Tx
    <2>3. IsFiniteSet(DOMAIN m)
      BY <2>2, NoMoves, FS_EmptySet
    <2>4. NetOf(Plus(m, r, delta), p, stock) = NetOf(m, p, stock) + (IF stock[r].product = p THEN delta ELSE 0)
      BY <2>3, NetOfPlus
    <2>5. NetOf(m, p, stock) = 0 /\ OnHand(o.made, p) = 0
      BY <2>1, <2>2, NetOfNone, OnHandFacts
    <2>6. ToBook(o, p) = IF stock[o.row].product = p THEN o.delta ELSE 0
      BY <1>3 DEF ToBook
    <2>7. QED
      BY <2>1, <2>2, <2>4, <2>5, <2>6
  <1>4. CASE o.op \notin {"transfer", "receive", "adjust"}
    <2>1. o.made = <<>>
      BY <1>4 DEF Due
    <2>2. OnHand(o.made, p) = 0
      BY <2>1, OnHandFacts
    <2>3. ToBook(o, p) = NetOf(o.moves, p, stock)
      BY <1>4 DEF ToBook, MovedOf, NetOf
    <2>4. NetOf(o.moves, p, stock) \in Int
      BY MovesFinite, NetOfInt
    <2>5. QED
      BY <2>2, <2>3, <2>4
  <1>5. QED
    BY <1>1, <1>2, <1>3, <1>4

\* A commit books what it adds.
LEMMA BooksCommit ==
  ASSUME FormIInv, BooksIInv, NEW x \in Actors, Commits(x)
  PROVE  BooksIInv'
  <1>1. PICK o \in Tx : o = tx[x] /\ TxOK(o, stock, resources) /\ Due(o, stock)
    BY TxFacts DEF BooksIInv
  <1>2. ApplyStock(x) /\ Apply(x) /\ Ends(x) /\ Done(o)
    BY <1>1 DEF Commits, Apply
  <1>3. booked' = [p \in Products |-> booked[p] + ToBook(o, p)]
    BY <1>1, <1>2 DEF Apply
  <1>4. ASSUME NEW p \in Products PROVE OnHand(stock', p) = OnHand(Opening, p) + booked'[p]
    <2>1. o.made = <<>> \/ \E row \in Row : o.made = <<row>>
      BY <1>1 DEF Due
    <2>2. OnHand(stock', p) = OnHand(stock, p) + NetOf(o.moves, p, stock) + OnHand(o.made, p)
      BY <1>1, <1>2, <2>1, OnHandCommit
    <2>3. NetOf(o.moves, p, stock) + OnHand(o.made, p) = ToBook(o, p)
      BY <1>1, <1>2, DoneAsBooked
    <2>4. OnHand(stock, p) = OnHand(Opening, p) + booked[p]
      BY DEF BooksIInv, StockConserved
    <2>5. booked'[p] = booked[p] + ToBook(o, p)
      BY <1>3
    <2>6. NetOf(o.moves, p, stock) \in Int
      BY <1>1, MovesFinite, NetOfInt
    <2>7. OnHand(stock, p) \in Int /\ OnHand(o.made, p) \in Int
      <3>1. stock \in Seq(Row) /\ o.made \in Seq(Row)
        BY CommittedFacts DEF Tx
      <3>2. QED
        BY <3>1, OnHandFacts
    <2>8. booked[p] \in Int
      BY DEF FormIInv, InventoryTypeOK
    <2>9. OnHand(Opening, p) \in Int
      <3>1. Opening \in Seq(ProductInventoryCreate) /\ ProductInventoryCreate \subseteq Row
        BY InventoryAssumption DEF InventoryAssumption, ProductInventoryCreate
      <3>2. Opening \in Seq(Row)
        BY <3>1
      <3>3. QED
        BY <3>2, OnHandFacts
    <2>10. QED
      BY <2>2, <2>3, <2>4, <2>5, <2>6, <2>7, <2>8, <2>9
  <1>5. \A r \in Rows : stock'[r].product = stock[r].product
    BY <1>1, <1>2, CommitStock
  <1>6. tx'[x] = NoTx /\ \A y \in Actors \ {x} : tx'[y] = tx[y]
    BY <1>2, FormCommit
  <1>7. ASSUME NEW y \in Actors PROVE Due(tx'[y], stock')
    <2>1. CASE y = x
      BY <1>6, <2>1, NoTxFacts DEF Due
    <2>2. CASE y # x
      <3>1. PICK t \in Tx : t = tx[y] /\ TxOK(t, stock, resources) /\ Due(t, stock)
        BY TxFacts DEF BooksIInv
      <3>2. PICK later : later = stock'
        OBVIOUS
      <3>3. \A r \in Rows : later[r].product = stock[r].product
        BY <1>5, <3>2
      <3>4. Due(t, later)
        BY <3>1, <3>3, DueLater
      <3>5. QED
        BY <1>6, <2>2, <3>1, <3>2, <3>4
    <2>3. QED
      BY <2>1, <2>2
  <1>8. QED
    BY <1>4, <1>7 DEF BooksIInv, StockConserved

\* A row that is created is booked.
LEMMA BooksCreateRow ==
  ASSUME FormIInv, BooksIInv, NEW row \in NewRows, CreateRow(row)
  PROVE  BooksIInv'
  <1>1. /\ FormIInv' /\ row \in Row /\ row.product \in Products /\ row.quantity \in Nat
        /\ Len(stock') = Len(stock) + 1 /\ stock'[Len(stock) + 1] = row
        /\ \A r \in Rows : stock'[r] = stock[r]
    BY FormCreateRow
  <1>2. booked' = [booked EXCEPT ![row.product] = @ + row.quantity] /\ tx' = tx
    BY DEF CreateRow
  <1>3. stock \in Seq(Row) /\ stock' \in Seq(Row) /\ booked \in [Products -> Int]
    BY <1>1 DEF FormIInv, InventoryTypeOK
  <1>4. ASSUME NEW p \in Products PROVE OnHand(stock', p) = OnHand(Opening, p) + booked'[p]
    <2>1. PICK later \in Seq(Row) : later = stock'
      BY <1>3
    <2>2. OnHand(later, p) = OnHand(stock, p) + (IF later[Len(stock) + 1].product = p
                                                THEN later[Len(stock) + 1].quantity ELSE 0)
      <3>1. Len(later) = Len(stock) + 1
        BY <1>1, <2>1
      <3>2. \A r \in 1..Len(stock) :
              later[r].product = stock[r].product /\ later[r].quantity = stock[r].quantity
        BY <1>1, <2>1 DEF Rows
      <3>3. QED
        BY ONLY later \in Seq(Row), <1>3, <3>1, <3>2, OnHandMore
    <2>3. OnHand(stock', p) = OnHand(stock, p) + (IF row.product = p THEN row.quantity ELSE 0)
      BY <1>1, <2>1, <2>2
    <2>4. OnHand(stock, p) = OnHand(Opening, p) + booked[p]
      BY DEF BooksIInv, StockConserved
    <2>5. booked'[p] = booked[p] + (IF row.product = p THEN row.quantity ELSE 0)
      BY <1>1, <1>2, <1>3
    <2>6. OnHand(Opening, p) \in Int /\ booked[p] \in Int
      <3>1. Opening \in Seq(ProductInventoryCreate) /\ ProductInventoryCreate \subseteq Row
        BY InventoryAssumption DEF InventoryAssumption, ProductInventoryCreate
      <3>2. Opening \in Seq(Row)
        BY <3>1
      <3>3. QED
        BY <1>3, <3>2, OnHandFacts
    <2>7. QED
      BY <1>1, <2>3, <2>4, <2>5, <2>6
  <1>5. ASSUME NEW y \in Actors PROVE Due(tx'[y], stock')
    <2>1. PICK t \in Tx : t = tx[y] /\ TxOK(t, stock, resources) /\ Due(t, stock)
      BY TxFacts DEF BooksIInv
    <2>2. PICK later : later = stock'
      OBVIOUS
    <2>3. \A r \in Rows : later[r].product = stock[r].product
      BY <1>1, <2>2
    <2>4. Due(t, later)
      BY <2>1, <2>3, DueLater
    <2>5. QED
      BY <1>2, <2>1, <2>2, <2>4
  <1>6. QED
    BY <1>4, <1>5 DEF BooksIInv, StockConserved

\* The invariant on the books is inductive.
LEMMA BooksStep ==
  ASSUME FormIInv, BooksIInv, [Next]_vars
  PROVE  BooksIInv'
  <1>1. ASSUME NEW x \in Actors, NEW n \in Tx, UNCHANGED <<stock, booked>>, tx'[x] = n,
               \A y \in Actors \ {x} : tx'[y] = tx[y], Due(n, stock)
        PROVE  BooksIInv'
    <2>1. \A y \in Actors : Due(tx'[y], stock')
      BY <1>1 DEF BooksIInv
    <2>2. QED
      BY <1>1, <2>1 DEF BooksIInv, StockConserved
  <1>2. ASSUME NEW x \in Actors, Statement(x) PROVE BooksIInv'
    <2>1. PICK n \in Tx : Goes(x, n) /\ TxOK(n, stock, resources) /\ Due(n, stock)
      BY <1>2, DueStatement DEF BooksIInv
    <2>2. UNCHANGED committedVars /\ tx'[x] = n /\ \A y \in Actors \ {x} : tx'[y] = tx[y]
      BY <2>1, FormStatement
    <2>3. UNCHANGED <<stock, booked>>
      BY <2>2 DEF committedVars
    <2>4. QED
      BY <1>1, <2>1, <2>2, <2>3
  <1>3. ASSUME NEW x \in Actors, BeginsNew(x) PROVE BooksIInv'
    <2>1. PICK n \in Tx : Begin(x, n) /\ TxOK(n, stock, resources) /\ Started(x, n)
      BY <1>3, Starts
    <2>2. UNCHANGED committedVars /\ requests' \in 0..MaxRequests
      BY <1>3, Starts
    <2>3. tx'[x] = n /\ \A y \in Actors \ {x} : tx'[y] = tx[y]
      BY <2>1, <2>2, FormBegins
    <2>4. Due(n, stock)
      BY <2>1, DueBegins
    <2>5. UNCHANGED <<stock, booked>>
      BY <2>2 DEF committedVars
    <2>6. QED
      BY <1>1, <2>3, <2>4, <2>5
  <1>4. ASSUME NEW x \in Actors, Commits(x) PROVE BooksIInv'
    BY <1>4, BooksCommit
  <1>5. ASSUME NEW x \in Actors, Fails(x) PROVE BooksIInv'
    <2>1. UNCHANGED committedVars /\ tx'[x] = NoTx /\ \A y \in Actors \ {x} : tx'[y] = tx[y]
      BY <1>5, FormFails
    <2>2. Due(NoTx, stock) /\ NoTx \in Tx /\ UNCHANGED <<stock, booked>>
      BY <2>1, NoTxFacts DEF Due, committedVars
    <2>3. QED
      BY ONLY x \in Actors, <1>1, <2>1, <2>2
  <1>6. ASSUME NEW row \in NewRows, CreateRow(row) PROVE BooksIInv'
    BY <1>6, BooksCreateRow
  <1>7. ASSUME Changes \/ UNCHANGED stockVars PROVE BooksIInv'
    <2>1. UNCHANGED <<stock, booked, tx>>
      BY <1>7, FormOther, FormElse DEF Changes
    <2>2. QED
      BY <2>1 DEF BooksIInv, StockConserved
  <1>8. QED
    BY <1>2, <1>3, <1>4, <1>5, <1>6, <1>7, StepCases

\* No update of a quantity is lost, none is done twice within a transaction, and a transfer
\* takes from a row what it brings to the other, however transactions interleave and
\* whichever fail (adjust_stock, complete_transfer, receive_stock).
THEOREM NothingLost == Spec => []StockConserved
  <1>1. Init => FormIInv /\ BooksIInv
    <2> SUFFICES ASSUME Init PROVE FormIInv /\ BooksIInv
      OBVIOUS
    <2>1. FormIInv
      BY FormInit
    <2>2. StockConserved
      <3>1. stock = Opening /\ stock \in Seq(Row)
        BY <2>1, CommittedFacts DEF Init
      <3>2. \A p \in Products : OnHand(stock, p) \in Int /\ booked[p] = 0
        BY <3>1, OnHandFacts DEF Init
      <3>3. QED
        BY <3>1, <3>2 DEF StockConserved
    <2>3. \A x \in Actors : Due(tx[x], stock)
      BY NoTxFacts DEF Init, Due
    <2>4. QED
      BY <2>1, <2>2, <2>3 DEF BooksIInv
  <1>2. FormIInv /\ BooksIInv /\ [Next]_vars => (FormIInv /\ BooksIInv)'
    BY FormStep, BooksStep
  <1>3. BooksIInv => StockConserved
    BY DEF BooksIInv
  <1>4. QED
    BY <1>1, <1>2, <1>3, PTL DEF Spec
=============================================================================
