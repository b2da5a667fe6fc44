------------------------------ MODULE InvoiceProofs ---------------------------
(***************************************************************************)
(* Proofs about Invoice, for any number of invoices, payment terms,        *)
(* accounts and ledger rows.  An invoice stands on its move because the    *)
(* move is posted in the step that issues it, and LedgerProofs shows that  *)
(* posted moves keep their lines; it is not left waiting because its       *)
(* workflow waits for all the lines of the move, whichever is reconciled   *)
(* last.                                                                   *)
(***************************************************************************)
EXTENDS Invoice, LedgerProofs

-----------------------------------------------------------------------------
(* What a step of the ledger leaves of the moves                           *)

\* A posted move of a journal that does not let it be cancelled stays as it is,
\* and a move stays in its journal for as long as it is there.
MovesOk ==
    \A m \in Move :
        /\ Is(m, "posted") /\ move[m].journal \notin UpdatePosted => move'[m] = move[m]
        /\ ~Is(m, "none") => move'[m].state = "none" \/ move'[m].journal = move[m].journal

\* The tables are three.
Tables(d) == d = [move |-> d.move, line |-> d.line, jp |-> d.jp]

\* Opening journal periods and changing lines leaves the moves alone.
LEMMA LineTables ==
    ASSUME NEW d, Tables(d)
    PROVE  /\ \A keys : Tables(Open(d, keys)) /\ Open(d, keys).move = d.move
           /\ \A rows : Tables([d EXCEPT !.line = rows]) /\ [d EXCEPT !.line = rows].move = d.move
           /\ \A l, row : Tables(Put(d, l, row)) /\ Put(d, l, row).move = d.move
<1>1. ASSUME NEW x, NEW y, NEW e, e = [move |-> d.move, line |-> x, jp |-> y]
      PROVE  Tables(e) /\ e.move = d.move
  BY <1>1 DEF Tables
<1>2. ASSUME NEW x PROVE [d EXCEPT !.jp = x] = [move |-> d.move, line |-> d.line, jp |-> x]
  BY DEF Tables
<1>3. ASSUME NEW x PROVE [d EXCEPT !.line = x] = [move |-> d.move, line |-> x, jp |-> d.jp]
  BY DEF Tables
<1>4. ASSUME NEW l, NEW row
      PROVE  [d EXCEPT !.line[l] = row]
               = [move |-> d.move, line |-> [d.line EXCEPT ![l] = row], jp |-> d.jp]
  BY DEF Tables
<1>5. ASSUME NEW keys PROVE Tables(Open(d, keys)) /\ Open(d, keys).move = d.move
  BY <1>1, <1>2 DEF Open
<1>6. ASSUME NEW rows
      PROVE  Tables([d EXCEPT !.line = rows]) /\ [d EXCEPT !.line = rows].move = d.move
  BY <1>1, <1>3
<1>7. ASSUME NEW l, NEW row PROVE Tables(Put(d, l, row)) /\ Put(d, l, row).move = d.move
  <2> DEFINE x == [d.line EXCEPT ![l] = row]
             e == Put(d, l, row)
  <2>1. e = [move |-> d.move, line |-> x, jp |-> d.jp]
    BY <1>4 DEF Put
  <2> HIDE DEF e, x
  <2>2. Tables(e) /\ e.move = d.move
    BY <1>1, <2>1
  <2> QED BY <2>2 DEF e
<1> QED BY <1>5, <1>6, <1>7

\* validate leaves the moves alone.
LEMMA ValidateMoves ==
    ASSUME NEW d, Tables(d), NEW m
    PROVE  Validate(d, m).move = d.move
<1>1. \A ids, st : Restate(d, m, ids, st).move = d.move
  BY LineTables DEF Restate
<1>2. Centralise(d, m).move = d.move
  BY LineTables DEF Centralise
<1> QED BY <1>1, <1>2 DEF Validate

\* So does what is saved after a change of lines.
LEMMA SavedMoves ==
    ASSUME NEW d, Tables(d), NEW m, Save(d, m)
    PROVE  move' = d.move
BY ValidateMoves DEF Save, Commit

\* The tables of a request.
LEMMA DbTables == Tables(Db) /\ Db.move = move
BY DEF Tables, Db

\* The moves after a change of lines that is validated.
LEMMA LineMoves ==
    ASSUME NEW l, NEW m, NEW k, NEW x, NEW a,
           \/ NewLine(m, k, x, a) \/ WriteLine(l, x) \/ WriteLineMove(l, m) \/ DeleteLine(l)
    PROVE  move' = move
<1> DEFINE o(keys) == Open(Db, keys)
<1>1. \A keys : Tables(o(keys)) /\ o(keys).move = move
  BY LineTables, DbTables
<1>2. CASE NewLine(m, k, x, a)
  <2> DEFINE row == NewRow(m, k, x, a, "normal", "draft")
  <2>1. Save(Put(o({k}), Some(Free(Db)), row), m)
    BY <1>2 DEF NewLine
  <2> HIDE DEF row
  <2> QED BY <1>1, <2>1, LineTables, SavedMoves
<1>3. ASSUME NEW e, NEW row, NEW keys, NEW n, e = [o(keys) EXCEPT !.line[l] = row], Save(e, n)
      PROVE  move' = move
  <2>1. e = Put(o(keys), l, row)
    BY <1>3 DEF Put
  <2> QED BY <1>1, <1>3, <2>1, LineTables, SavedMoves
<1>4. CASE WriteLine(l, x)
  BY <1>3, <1>4 DEF WriteLine
<1>5. CASE WriteLineMove(l, m)
  BY <1>3, <1>5 DEF WriteLineMove
<1>6. CASE DeleteLine(l)
  BY <1>3, <1>6 DEF DeleteLine
<1> QED BY <1>2, <1>4, <1>5, <1>6

\* Putting a row of a move.
LEMMA MoveTables ==
    ASSUME NEW d, Tables(d), NEW n, NEW row
    PROVE  /\ Tables([d EXCEPT !.move[n] = row])
           /\ [d EXCEPT !.move[n] = row].move = [d.move EXCEPT ![n] = row]
<1> DEFINE x == [d.move EXCEPT ![n] = row]
           e == [d EXCEPT !.move[n] = row]
<1>1. e = [move |-> x, line |-> d.line, jp |-> d.jp]
  BY DEF Tables
<1> HIDE DEF x, e
<1>2. e.move = x /\ e.line = d.line /\ e.jp = d.jp
  BY <1>1
<1>3. Tables(e)
  BY <1>1, <1>2 DEF Tables
<1> QED BY <1>2, <1>3 DEF e, x

\* A step that changes one move.
LEMMA OneMove ==
    ASSUME IInv, NEW n \in Move, NEW row, move' = [move EXCEPT ![n] = row],
           \/ Is(n, "none")
           \/ /\ Is(n, "draft") \/ move[n].journal \in UpdatePosted
              /\ row.state = "none" \/ row.journal = move[n].journal
    PROVE  MovesOk
<1>1. \A m \in Move : move'[m] = IF m = n THEN row ELSE move[m]
  BY DbIs DEF IInv, IsDb
<1> QED BY <1>1 DEF MovesOk, Is

\* The steps of the ledger.
LEMMA StepMoves ==
    ASSUME IInv, [Next]_vars
    PROVE  MovesOk
<1>0. Tables(Db) /\ Db.move = move /\ move \in [Move -> MoveRow]
  BY DbTables, DbIs DEF IInv, IsDb
<1>1. ASSUME move' = move PROVE MovesOk
  BY <1>1 DEF MovesOk
<1>2. ASSUME NEW n \in Move, NEW j, NEW p, NewMove(n, j, p) PROVE MovesOk
  <2> DEFINE row == [state |-> "draft", journal |-> j, period |-> p]
  <2>1. Is(n, "none") /\ Commit([Db EXCEPT !.move[n] = row])
    BY <1>2 DEF NewMove
  <2> HIDE DEF row
  <2>2. move' = [move EXCEPT ![n] = row]
    BY <1>0, <2>1, MoveTables DEF Commit
  <2> QED BY <2>1, <2>2, OneMove
<1>3. ASSUME NEW n \in Move, NEW p, WriteMovePeriod(n, p) PROVE MovesOk
  <2> DEFINE row == [move[n] EXCEPT !.period = p]
             d == [Db EXCEPT !.move[n] = row]
  <2>1. Is(n, "draft") /\ Save(d, n)
    BY <1>0, <1>3 DEF WriteMovePeriod
  <2>2. row.journal = move[n].journal
    BY <1>0 DEF MoveRow
  <2> HIDE DEF row
  <2>3. Tables(d) /\ d.move = [move EXCEPT ![n] = row]
    BY <1>0, MoveTables
  <2> HIDE DEF d
  <2>4. move' = [move EXCEPT ![n] = row]
    BY <2>1, <2>3, SavedMoves
  <2> QED BY <2>1, <2>2, <2>4, OneMove
<1>4. ASSUME NEW n \in Move, DeleteMove(n) PROVE MovesOk
  <2>1. \A m \in Move : move'[m] = IF m = n THEN NoMove ELSE move[m]
    BY <1>4, DeletedSound, DbIs DEF DeleteMove, IInv, Sound, Commit
  <2>2. Is(n, "draft")
    BY <1>4 DEF DeleteMove
  <2> QED BY <2>1, <2>2, NoRows DEF MovesOk, Is
<1>5. ASSUME NEW n \in Move, NEW d, Tables(d), d.move = move, NEW st,
             Commit([d EXCEPT !.move[n].state = st]),
             Is(n, "draft") \/ move[n].journal \in UpdatePosted
      PROVE  MovesOk
  <2> DEFINE row == [move[n] EXCEPT !.state = st]
  <2>1. Commit([d EXCEPT !.move[n] = row])
    BY <1>0, <1>5
  <2>2. row.journal = move[n].journal
    BY <1>0 DEF MoveRow
  <2> HIDE DEF row
  <2>3. move' = [move EXCEPT ![n] = row]
    <3> DEFINE e == [d EXCEPT !.move[n] = row]
    <3>1. Commit(e) /\ e.move = [d.move EXCEPT ![n] = row]
      BY <1>5, <2>1, MoveTables
    <3> HIDE DEF e
    <3> QED BY <1>5, <3>1 DEF Commit
  <2> QED BY <1>5, <2>2, <2>3, OneMove
<1>6. ASSUME NEW n \in Move, ButtonValidate(n) PROVE MovesOk
  <2> DEFINE e == Validate(Db, n)
  <2>1. Tables(e) /\ e.move = move
    <3>1. IsDb(e)
      BY <1>6, ValidateOk DEF ButtonValidate, IInv
    <3> QED BY <1>0, <3>1, ValidateMoves DEF IsDb, Tables
  <2>2. Is(n, "draft") /\ \E st : Commit([e EXCEPT !.move[n].state = st])
    BY <1>6 DEF ButtonValidate
  <2> HIDE DEF e
  <2> QED BY <1>5, <2>1, <2>2
<1>7. ASSUME NEW n \in Move, ButtonCancel(n) PROVE MovesOk
  BY <1>0, <1>5, <1>7 DEF ButtonCancel
<1>8. ASSUME NEW ids, NEW r, Commit(Marked(Db, ids, r)) PROVE MovesOk
  BY <1>0, <1>1, <1>8, LineTables DEF Marked, Commit
<1>9. ASSUME NEW ids, NEW r, NEW n \in Move, NEW j, NEW p, ReconcileWriteOff(ids, r, n, j, p)
      PROVE  MovesOk
  <2> DEFINE o == Open(Db, {<<j, p>>})
             row == [state |-> "draft", journal |-> j, period |-> p]
             d == [o EXCEPT !.move[n] = row]
  <2>1. /\ Is(n, "none")
        /\ \E l, k, lr, kr, s : Commit(Marked(Put(Put(d, l, lr), k, kr), s, r))
    BY <1>9 DEF ReconcileWriteOff
  <2>2. Tables(o) /\ o.move = move
    BY <1>0, LineTables
  <2> HIDE DEF o, row
  <2>3. Tables(d) /\ d.move = [move EXCEPT ![n] = row]
    BY <2>2, MoveTables
  <2> HIDE DEF d
  <2>4. move' = d.move
    <3>1. PICK l, k, lr, kr, s : Commit(Marked(Put(Put(d, l, lr), k, kr), s, r))
      BY <2>1
    <3> DEFINE e == Put(Put(d, l, lr), k, kr)
    <3>2. Tables(e) /\ e.move = d.move
      BY <2>3, LineTables
    <3> HIDE DEF e
    <3> QED BY <3>1, <3>2, LineTables DEF Marked, Commit, e
  <2> QED BY <2>1, <2>3, <2>4, OneMove
<1> QED BY <1>1, <1>2, <1>3, <1>4, <1>6, <1>7, <1>8, <1>9, LineMoves
        DEF Next, vars, Reconcile, Unreconcile, ClosePeriod, DeleteJournalPeriod

-----------------------------------------------------------------------------
(* Entries the code makes                                                  *)

\* The amounts of the lines of an entry, and what it takes to be one.
Figures(rows) == [k \in DOMAIN rows |-> rows[k][1]]
IsEntry(rows) ==
    rows \in Seq(Int \X Account) /\ SumFunctionOnSet(Figures(rows), DOMAIN rows) = 0

\* Where there is room the lines go to rows of their own that were free.
LEMMA SlotsAre ==
    ASSUME NEW d, NEW n \in Nat, Cardinality(Free(d)) >= n
    PROVE  /\ Slots(d, n) \in [1..n -> Free(d)]
           /\ \A h, k \in 1..n : Slots(d, n)[h] = Slots(d, n)[k] => h = k
<1> DEFINE c == Cardinality(Free(d))
<1>1. Free(d) \in SUBSET Line
  BY DEF Free, LinesOf
<1>2. c \in Nat /\ ExistsBijection(1..c, Free(d))
  BY <1>1, LedgerAssumption, FS_Subset, FS_CardinalityType
<1> HIDE DEF c
<1>3. PICK b \in [1..c -> Free(d)] : \A h, k \in 1..c : b[h] = b[k] => h = k
  BY <1>2 DEF ExistsBijection, Bijection, Injection, IsInjective
<1>4. 1..n \subseteq 1..c
  BY <1>2 DEF c
<1> DEFINE s == [k \in 1..n |-> b[k]]
<1>5. s \in Injection(1..n, Free(d))
  BY <1>3, <1>4 DEF Injection, IsInjective
<1>6. Slots(d, n) \in Injection(1..n, Free(d))
  BY <1>5 DEF Slots
<1> QED BY <1>6 DEF Injection, IsInjective

\* The lines of rows are at distinct free rows of d, and in e they are all that
\* has changed but for the move itself.
Slotted(d, e, at, m, j, p, rows) ==
    /\ IsDb(e)
    /\ e.move[m] = [state |-> "draft", journal |-> j, period |-> p]
    /\ \A x \in Move \ {m} : e.move[x] = d.move[x]
    /\ \A l \in Line : ~(\E k \in DOMAIN rows : at[k] = l) => e.line[l] = d.line[l]
    /\ \A k \in DOMAIN rows : at[k] \in Line /\ d.line[at[k]].move = None
    /\ \A h, k \in DOMAIN rows : at[h] = at[k] => h = k
    /\ \A k \in DOMAIN rows :
          /\ e.line[at[k]].move = m /\ e.line[at[k]].amount = rows[k][1]
          /\ e.line[at[k]].rec = None /\ e.line[at[k]].account = rows[k][2]
          /\ e.line[at[k]].state = "valid" /\ KeyOf(e.line[at[k]]) = <<j, p>>

\* What entering a move leaves of the tables, and the lines of the move.
LEMMA EnteredRows ==
    ASSUME NEW d, Sound(d), NEW m \in Move, NEW j \in Journal, NEW p \in Period,
           NEW rows \in Seq(Int \X Account), MayEnter(d, m, j, p, rows)
    PROVE  Slotted(d, Entered(d, m, j, p, rows), Slots(d, Len(rows)), m, j, p, rows)
<1> DEFINE at == Slots(d, Len(rows))
           new == [state |-> "draft", journal |-> j, period |-> p]
           moves == [d.move EXCEPT ![m] = new]
           o == Open(d, {<<j, p>>})
           c == [o EXCEPT !.move = moves]
           given(l) == rows[CHOOSE k \in DOMAIN rows : at[k] = l]
           lines == [l \in Line |->
                        IF \E k \in DOMAIN rows : at[k] = l
                        THEN NewRow(m, <<j, p>>, given(l)[1], given(l)[2], "normal", "valid")
                        ELSE d.line[l]]
           e == [c EXCEPT !.line = lines]
<1>1. IsDb(d) /\ d.move \in [Move -> MoveRow]
  BY DEF Sound, IsDb
<1>2. /\ DOMAIN rows = 1..Len(rows) /\ Len(rows) \in Nat
      /\ \A k \in DOMAIN rows : rows[k] \in Int \X Account
  OBVIOUS
<1>3. /\ \A k \in DOMAIN rows : at[k] \in Line /\ d.line[at[k]].move = None
      /\ \A h, k \in DOMAIN rows : at[h] = at[k] => h = k
  BY <1>2, SlotsAre DEF MayEnter, Free, LinesOf
<1>4. IsDb(o) /\ o.move = d.move /\ o.line = d.line
  BY <1>1, OpenIsDb
<1>5. moves \in [Move -> MoveRow] /\ moves[m] = new /\ new \in MoveRow
      /\ KeyOf(new) = <<j, p>> /\ \A x \in Move \ {m} : moves[x] = d.move[x]
  BY <1>1 DEF MoveRow, KeyOf
<1>6. c = [o EXCEPT !.move[m] = new]
  <2> HIDE DEF o, new
  <2> QED BY <1>4
<1>7. e = Entered(d, m, j, p, rows)
  BY <1>6 DEF Entered
<1> HIDE DEF at, o, moves, new
<1>8. IsDb(c) /\ c.move = moves /\ c.line = d.line
  BY <1>4, <1>5, MovesIsDb
<1> HIDE DEF c
<1>9. ASSUME NEW k \in DOMAIN rows
      PROVE  /\ IsLine(lines[at[k]]) /\ lines[at[k]].move = m /\ lines[at[k]].rec = None
             /\ lines[at[k]].state = "valid" /\ lines[at[k]].amount = rows[k][1]
             /\ lines[at[k]].account = rows[k][2] /\ KeyOf(lines[at[k]]) = <<j, p>>
  <2> DEFINE x == rows[k][1]
             a == rows[k][2]
             row == NewRow(m, <<j, p>>, x, a, "normal", "valid")
  <2>1. (CHOOSE h \in DOMAIN rows : at[h] = at[k]) = k
    BY <1>3
  <2>2. lines[at[k]] = row
    BY <1>3, <2>1
  <2>3. x \in Int /\ a \in Account
    BY <1>2
  <2>4. <<j, p>> \in SomeKey
    BY DEF SomeKey
  <2> HIDE DEF lines, x, a
  <2>5. /\ IsLine(row) /\ row.move = m /\ row.state = "valid" /\ row.rec = None
        /\ row.amount = x /\ row.account = a /\ KeyOf(row) = <<j, p>>
    BY <2>3, <2>4, NewRowIsLine
  <2> HIDE DEF row
  <2> QED BY <2>2, <2>5 DEF x, a
<1>10. ASSUME NEW l \in Line
       PROVE  ~(\E k \in DOMAIN rows : at[k] = l) => lines[l] = d.line[l]
  OBVIOUS
<1>11. lines = [l \in Line |-> lines[l]]
  OBVIOUS
<1> HIDE DEF lines
<1>12. \A l \in Line : IsLine(lines[l])
  BY <1>1, <1>9, <1>10 DEF IsDb
<1>13. IsDb(e) /\ e.move = moves /\ e.line = lines
  BY <1>8, <1>11, <1>12, LinesIsDb
<1> HIDE DEF e
<1>14. Slotted(d, e, at, m, j, p, rows)
  BY <1>3, <1>5, <1>9, <1>10, <1>13 DEF Slotted, new
<1> QED BY <1>7, <1>14 DEF at

\* What the code gets when it enters rows as move m: sound tables, in which m
\* has just the lines given, all valid and open, and nothing else has changed.
Books(d, e, m, j, p, rows) ==
    /\ Sound(e)
    /\ d.move[m].state = "none"
    /\ e.move[m] = [state |-> "draft", journal |-> j, period |-> p]
    /\ \A x \in Move \ {m} : e.move[x] = d.move[x]
    /\ \A l \in Line : d.line[l].move # None => e.line[l] = d.line[l]
    /\ \A l \in Line : e.line[l].move # d.line[l].move => e.line[l].move = m
    /\ \A l \in LinesOf(e, m) : e.line[l].state = "valid" /\ e.line[l].rec = None
    /\ Sum(e, Due(e, m)) =
          SumFunctionOnSet(Figures(rows), {k \in DOMAIN rows : rows[k][2] = Receivable})

\* An entry that balances keeps the invariant of the ledger.
LEMMA EnteredBooks ==
    ASSUME NEW d, Sound(d), NEW m \in Move, NEW j \in Journal, NEW p \in Period,
           NEW rows, IsEntry(rows), MayEnter(d, m, j, p, rows)
    PROVE  Books(d, Entered(d, m, j, p, rows), m, j, p, rows)
<1> DEFINE e == Entered(d, m, j, p, rows)
           at == Slots(d, Len(rows))
           new == [state |-> "draft", journal |-> j, period |-> p]
           L == DOMAIN rows
<1>0. rows \in Seq(Int \X Account) /\ SumFunctionOnSet(Figures(rows), L) = 0
  BY DEF IsEntry
<1>b. /\ IsDb(d) /\ d.move \in [Move -> MoveRow] /\ m # None
      /\ d.move[m].state = "none" /\ \A l \in Line : d.line[l].move # m
  BY LedgerAssumption DEF Sound, IsDb, Keyed, MayEnter
<1>c. /\ IsFiniteSet(L) /\ \A k \in L : Figures(rows)[k] = rows[k][1] /\ rows[k][1] \in Int
  <2>1. L = 1..Len(rows) /\ Len(rows) \in Nat /\ \A k \in L : rows[k] \in Int \X Account
    BY <1>0
  <2> QED BY <2>1, FS_Interval DEF Figures
<1>d. Slotted(d, e, at, m, j, p, rows)
  BY <1>0, EnteredRows
<1> HIDE DEF e, at, L
<1>a. /\ IsDb(e) /\ e.move[m] = new
      /\ \A x \in Move \ {m} : e.move[x] = d.move[x]
      /\ \A l \in Line : ~(\E k \in L : at[k] = l) => e.line[l] = d.line[l]
      /\ \A k \in L : at[k] \in Line /\ d.line[at[k]].move = None
      /\ \A h, k \in L : at[h] = at[k] => h = k
      /\ \A k \in L : /\ e.line[at[k]].move = m /\ e.line[at[k]].amount = rows[k][1]
                      /\ e.line[at[k]].rec = None /\ e.line[at[k]].account = rows[k][2]
                      /\ e.line[at[k]].state = "valid" /\ KeyOf(e.line[at[k]]) = <<j, p>>
  BY <1>d DEF Slotted, L
<1>1. e.move[m] = new /\ \A x \in Move \ {m} : e.move[x] = d.move[x]
  BY <1>a
<1>2. \A l \in Line : d.line[l].move # None => e.line[l] = d.line[l]
  BY <1>a
<1>3. \A l \in Line : e.line[l].move # d.line[l].move => e.line[l].move = m
  BY <1>a
<1>4. LinesOf(e, m) = {at[k] : k \in L}
  BY <1>a, <1>b DEF LinesOf
<1>5. \A l \in LinesOf(e, m) : /\ e.line[l].state = "valid" /\ e.line[l].rec = None
                               /\ KeyOf(e.line[l]) = <<j, p>>
  BY <1>4, <1>a
<1>6. ASSUME NEW K \in SUBSET L
      PROVE  Sum(e, {at[k] : k \in K}) = SumFunctionOnSet(Figures(rows), K)
  <2> DEFINE g == [l \in Line |-> e.line[l].amount]
             f == Figures(rows)
             img == {at[k] : k \in K}
  <2>1. IsFiniteSet(K) /\ IsFiniteSet(img)
    <3>1. img \in SUBSET Line
      BY <1>a
    <3> HIDE DEF img
    <3> QED BY <1>c, <3>1, FS_Subset, LedgerAssumption
  <2>2. \A h, k \in K : at[h] = at[k] => h = k
    BY <1>a
  <2>3. \A k \in K : f[k] \in Int /\ g[at[k]] = f[k]
    BY <1>a, <1>c
  <2> HIDE DEF f, g
  <2>4. SumFunctionOnSet(g, {at[k] : k \in K}) = SumFunctionOnSet(f, K)
    BY <2>1, <2>2, <2>3, SumImage
  <2> QED BY <2>4 DEF Sum, f, g
<1>7. Balanced(e, m)
  BY <1>0, <1>4, <1>6 DEF Balanced, L
<1>8. Sum(e, Due(e, m)) = SumFunctionOnSet(Figures(rows), {k \in L : rows[k][2] = Receivable})
  <2> DEFINE K == {k \in L : rows[k][2] = Receivable}
  <2>1. Due(e, m) = {at[k] : k \in K}
    BY <1>4, <1>a, <1>b DEF Due
  <2>2. K \in SUBSET L
    OBVIOUS
  <2> HIDE DEF K
  <2>3. Sum(e, {at[k] : k \in K}) = SumFunctionOnSet(Figures(rows), K)
    BY <1>6, <2>2
  <2> QED BY <2>1, <2>3 DEF K
<1>9. \A l \in Line : d.line[l].move \in Move \cup {None}
  BY <1>b, RowOf
<1>10. FixedBut(e, None)
  <2> SUFFICES ASSUME NEW l \in Line, e.line[l].move # None
               PROVE  e.line[l].state = "valid" \/ Loose(e, l)
    BY DEF FixedBut
  <2>1. CASE e.line[l].move = m
    BY <1>5, <2>1 DEF LinesOf
  <2>2. CASE e.line[l].move # m
    <3>1. e.line[l] = d.line[l] /\ d.line[l].move \in Move \ {m}
      BY <1>2, <1>3, <1>9, <2>2
    <3>2. d.line[l].state = "valid" \/ Loose(d, l)
      BY <3>1, <2>2 DEF Sound, FixedBut
    <3> QED BY <1>1, <3>1, <3>2 DEF Loose
  <2> QED BY <2>1, <2>2
<1>11. Keyed(e)
  <2>1. KeyOf(new) = <<j, p>> /\ <<j, p>> \in Key /\ new.state # "none"
    BY DEF KeyOf, Key
  <2> HIDE DEF new
  <2>2. \A x \in Move : e.move[x].state # "none" => KeyOf(e.move[x]) \in Key
    BY <1>1, <2>1 DEF Sound, Keyed
  <2>3. ASSUME NEW l \in Line, e.line[l].move # None
        PROVE  KeyOf(e.line[l]) \in Key /\ e.move[e.line[l].move].state # "none"
    <3>1. CASE e.line[l].move = m
      BY <1>1, <1>5, <2>1, <3>1 DEF LinesOf
    <3>2. CASE e.line[l].move # m
      <4>1. e.line[l] = d.line[l] /\ d.line[l].move \in Move \ {m}
        BY <1>2, <1>3, <1>9, <2>3, <3>2
      <4> QED BY <1>1, <2>3, <4>1 DEF Sound, Keyed
    <3> QED BY <3>1, <3>2
  <2> QED BY <2>2, <2>3 DEF Keyed
<1>12. ASSUME NEW x \in Move PROVE Even(e, x)
  <2>1. CASE x = m
    BY <1>5, <1>7, <2>1 DEF Even
  <2>2. CASE x # m
    <3>1. \A l \in Line : /\ e.line[l].move = x <=> d.line[l].move = x
                          /\ d.line[l].move = x => e.line[l] = d.line[l]
      BY <1>2, <1>3, <2>2, LedgerAssumption
    <3> QED BY <1>b, <3>1, SameRows DEF Sound
  <2> QED BY <2>1, <2>2
<1>13. Sound(e)
  BY <1>a, <1>10, <1>11, <1>12 DEF Sound
<1> QED BY <1>b, <1>1, <1>2, <1>3, <1>5, <1>8, <1>13 DEF Books, e, L

-----------------------------------------------------------------------------
(* What a step may do to the ledger                                        *)

\* A step that keeps the ledger's invariant, and the posted moves that cannot be
\* cancelled with their lines.
LedgerOk ==
    /\ IInv' /\ MovesOk
    /\ \A m \in Move : Is(m, "posted") /\ move[m].journal \notin UpdatePosted => Kept(m)

\* From d to e moves are only added, with their lines.
Grown(d, e) ==
    /\ Sound(e)
    /\ \A x \in Move : d.move[x].state # "none" => e.move[x] = d.move[x]
    /\ \A l \in Line : d.line[l].move # None => e.line[l] = d.line[l]
    /\ \A l \in Line : e.line[l].move # d.line[l].move =>
          e.line[l].move \in Move /\ d.move[e.line[l].move].state = "none"

\* Entering a move adds it.
LEMMA BooksGrow ==
    ASSUME NEW d, NEW e, NEW m \in Move, NEW j, NEW p, NEW rows, Books(d, e, m, j, p, rows)
    PROVE  Grown(d, e)
BY DEF Books, Grown

\* One move after another.
LEMMA GrownTwice ==
    ASSUME NEW d, NEW e, NEW f, Grown(d, e), Grown(e, f)
    PROVE  Grown(d, f)
<1>1. ASSUME NEW l \in Line, f.line[l].move # d.line[l].move
      PROVE  f.line[l].move \in Move /\ d.move[f.line[l].move].state = "none"
  <2>1. CASE e.line[l].move = d.line[l].move
    BY <1>1, <2>1 DEF Grown
  <2>2. CASE e.line[l].move # d.line[l].move
    <3>1. e.line[l].move \in Move /\ d.move[e.line[l].move].state = "none"
      BY <2>2 DEF Grown
    <3>2. f.line[l] = e.line[l]
      BY <3>1, LedgerAssumption DEF Grown
    <3> QED BY <3>1, <3>2
  <2> QED BY <2>1, <2>2
<1>2. \A x \in Move : d.move[x].state # "none" => f.move[x] = d.move[x]
  BY DEF Grown
<1>3. \A l \in Line : d.line[l].move # None => f.line[l] = d.line[l]
  BY DEF Grown
<1> QED BY <1>1, <1>2, <1>3 DEF Grown

\* A step that adds moves and lines, and changes nothing of those there are
\* but their reconciliations.
LEMMA GrownStep ==
    ASSUME IInv', \A x \in Move : ~Is(x, "none") => move'[x] = move[x],
           \A l \in Line : line[l].move # None =>
              /\ line'[l].move = line[l].move /\ line'[l].state = line[l].state
              /\ line'[l].amount = line[l].amount /\ line'[l].account = line[l].account
              /\ line'[l].journal = line[l].journal /\ line'[l].period = line[l].period,
           \A l \in Line : line'[l].move # line[l].move =>
              line'[l].move \in Move /\ Is(line'[l].move, "none")
    PROVE  LedgerOk
<1>1. MovesOk
  BY DEF MovesOk, Is
<1>2. ASSUME NEW m \in Move, Is(m, "posted") PROVE Kept(m)
  BY <1>2, LedgerAssumption DEF Kept, Is
<1> QED BY <1>1, <1>2 DEF LedgerOk

\* Moves are added and lines reconciled.
LEMMA GrownMarked ==
    ASSUME IInv, NEW e, Grown(Db, e), NEW ids, NEW r \in Rec,
           \A l \in Line : l \in ids => e.line[l].state = "valid",
           Commit(Marked(e, ids, r))
    PROVE  LedgerOk
<1> DEFINE f == Marked(e, ids, r)
<1>1. /\ Sound(f) /\ f.move = e.move
      /\ \A l \in Line :
            /\ f.line[l].move = e.line[l].move /\ f.line[l].state = e.line[l].state
            /\ f.line[l].amount = e.line[l].amount /\ f.line[l].account = e.line[l].account
            /\ f.line[l].journal = e.line[l].journal /\ f.line[l].period = e.line[l].period
  BY MarkedIsDb DEF Grown, Sound
<1>2. Commit(f)
  OBVIOUS
<1> HIDE DEF f
<1>3. IInv'
  BY <1>1, <1>2, Committed DEF Sound
<1>4. move' = e.move /\ line' = f.line
  BY <1>1, <1>2 DEF Commit
<1>5. \A x \in Move : ~Is(x, "none") => move'[x] = move[x]
  BY <1>4, DbIs DEF Grown, Is
<1>6. \A l \in Line : line[l].move # None => e.line[l] = line[l]
  BY DbIs DEF Grown
<1>7. \A l \in Line : line'[l].move # line[l].move =>
         line'[l].move \in Move /\ Is(line'[l].move, "none")
  BY <1>1, <1>4, DbIs DEF Grown, Is
<1> QED BY <1>1, <1>3, <1>4, <1>5, <1>6, <1>7, GrownStep

\* The places of two lines, and of the second of them.
LEMMA SmallSets == IsFiniteSet({1, 2}) /\ IsFiniteSet({2})
<1> DEFINE a == 1..2
           b == 2..2
<1>1. {1, 2} = a /\ {2} = b
  OBVIOUS
<1>2. IsFiniteSet(a) /\ IsFiniteSet(b)
  <2>1. \A x, y \in Int : IsFiniteSet(x..y)
    BY FS_Interval
  <2>2. 1 \in Int /\ 2 \in Int
    OBVIOUS
  <2> QED BY <2>1, <2>2, Zenon
<1> HIDE DEF a, b
<1> QED BY <1>1, <1>2

\* Two lines that cancel out.
LEMMA TwoRows ==
    ASSUME NEW u \in Int, NEW v \in Int, u + v = 0, NEW a \in Account, NEW b \in Account
    PROVE  IsEntry(<<<<u, a>>, <<v, b>>>>)
<1> DEFINE rows == <<<<u, a>>, <<v, b>>>>
           f == Figures(rows)
<1>1. rows \in Seq(Int \X Account) /\ DOMAIN rows = {1, 2}
  OBVIOUS
<1>2. f[1] = u /\ f[2] = v
  BY <1>1 DEF Figures
<1>3. {1, 2} \ {1} = {2} /\ {2} \ {2} = {}
  OBVIOUS
<1>4. IsFiniteSet({1, 2}) /\ IsFiniteSet({2})
  BY SmallSets
<1> HIDE DEF rows, f
<1>5. SumFunctionOnSet(f, {1, 2}) = f[1] + SumFunctionOnSet(f, {1, 2} \ {1})
  <2>1. \A x \in {1, 2} : f[x] \in Int
    BY <1>2
  <2> QED BY <1>4, <2>1, SumRemove
<1>6. SumFunctionOnSet(f, {2}) = f[2] + SumFunctionOnSet(f, {2} \ {2})
  <2>1. \A x \in {2} : f[x] \in Int
    BY <1>2
  <2> QED BY <1>4, <2>1, SumRemove
<1>7. SumFunctionOnSet(f, {}) = 0
  BY SumEmpty
<1>8. SumFunctionOnSet(f, {1, 2}) = 0
  BY <1>2, <1>3, <1>5, <1>6, <1>7
<1>9. SumFunctionOnSet(Figures(rows), DOMAIN rows) = 0
  BY <1>1, <1>8 DEF f
<1>10. IsEntry(rows)
  BY <1>1, <1>9 DEF IsEntry
<1> QED BY <1>10 DEF rows

\* The payment, with or without a rest to write off.
LEMMA PayLedger ==
    ASSUME IInv, NEW i \in Invoice, NEW x \in PayAmounts, NEW r \in Rec, NEW j \in Journal,
           NEW o \in Journal, NEW p \in Period, NEW m \in Move, NEW n \in Move,
           Pay(i, x, r, j, o, p, m, n)
    PROVE  LedgerOk
<1> DEFINE sign == IF Total(i) > 0 THEN -1 ELSE 1
           rows == <<<<sign * x, Receivable>>, <<-sign * x, Counter>>>>
           d == Entered(Db, m, j, p, rows)
           due == PaymentLines(Db, i)
           ids == due \cup Due(d, m)
           w == Sum(d, ids)
           rest == <<<<-w, Receivable>>, <<w, WriteOff>>>>
           e == Entered(d, n, o, p, rest)
<1>1. /\ MayReconcile(due) \/ due = {}
      /\ MayEnter(Db, m, j, p, rows)
      /\ \/ Commit(Marked(d, ids, r))
         \/ MayEnter(d, n, o, p, rest) /\ Commit(Marked(e, ids \cup Due(e, n), r))
  BY DEF Pay
<1>2. Receivable \in Account /\ Counter \in Account /\ WriteOff \in Account
  BY InvoiceAssumption, LedgerAssumption
<1>3. IsEntry(rows)
  <2>1. sign * x \in Int /\ -sign * x \in Int /\ sign * x + (-sign * x) = 0
    <3>1. x \in Int
      BY InvoiceAssumption
    <3>2. sign = -1 \/ sign = 1
      OBVIOUS
    <3> HIDE DEF sign
    <3> QED BY <3>1, <3>2
  <2> HIDE DEF sign
  <2> QED BY <1>2, <2>1, TwoRows
<1> HIDE DEF rows
<1>4. Books(Db, d, m, j, p, rows)
  BY <1>1, <1>3, EnteredBooks DEF IInv, Sound
<1> HIDE DEF d
<1>5. Grown(Db, d)
  BY <1>4, BooksGrow
<1>6. \A l \in Line : l \in due => line[l].move # None /\ line[l].state = "valid"
  BY <1>1 DEF MayReconcile
<1>7. ids \in SUBSET Line /\ \A l \in Line : l \in ids =>
         d.line[l].move # None /\ d.line[l].state = "valid"
  <2>1. ids \in SUBSET Line
    BY DEF PaymentLines, Due, LinesOf
  <2>2. \A l \in Line : l \in due => d.line[l] = line[l]
    BY <1>5, <1>6, DbIs DEF Grown
  <2>3. \A l \in Due(d, m) : d.line[l].move # None /\ d.line[l].state = "valid"
    BY <1>4, LedgerAssumption DEF Due, LinesOf, Books
  <2> HIDE DEF due
  <2> QED BY <1>6, <2>1, <2>2, <2>3
<1> HIDE DEF ids
<1>8. CASE Commit(Marked(d, ids, r))
  BY <1>5, <1>7, <1>8, GrownMarked
<1>9. CASE MayEnter(d, n, o, p, rest) /\ Commit(Marked(e, ids \cup Due(e, n), r))
  <2>1. Sound(d)
    BY <1>5 DEF Grown
  <2>2. IsEntry(rest)
    <3>1. w \in Int
      BY <1>7, <2>1, SumIsInt DEF Sound
    <3> HIDE DEF w
    <3>2. -w \in Int /\ -w + w = 0
      BY <3>1
    <3> QED BY <1>2, <3>1, <3>2, TwoRows
  <2> HIDE DEF rest
  <2>3. Books(d, e, n, o, p, rest)
    BY <1>9, <2>1, <2>2, EnteredBooks
  <2> HIDE DEF e
  <2>4. Grown(d, e) /\ Grown(Db, e)
    BY <1>5, <2>3, BooksGrow, GrownTwice
  <2>5. \A l \in Line : l \in ids \cup Due(e, n) => e.line[l].state = "valid"
    <3>1. \A l \in Line : l \in ids => e.line[l] = d.line[l]
      BY <1>7, <2>4 DEF Grown
    <3>2. \A l \in Due(e, n) : e.line[l].state = "valid"
      BY <2>3 DEF Due, LinesOf, Books
    <3> QED BY <1>7, <3>1, <3>2
  <2> QED BY <1>9, <2>4, <2>5, GrownMarked
<1> QED BY <1>1, <1>8, <1>9

-----------------------------------------------------------------------------
(* The entry of an invoice                                                 *)

\* It balances, and what is due of it is the total.
LEMMA InvoiceEntry ==
    ASSUME NEW i \in Invoice
    PROVE  LET rows == EntryRows(i)
           IN  /\ IsEntry(rows)
               /\ SumFunctionOnSet(Figures(rows), {k \in DOMAIN rows : rows[k][2] = Receivable})
                    = Total(i)
<1> DEFINE parts == Parts[i]
           n == Len(parts)
           rows == EntryRows(i)
           f == Figures(rows)
           S == 1..n
           all == 1..(n + 1)
<1>1. parts \in Seq(Int) /\ n \in Nat /\ DOMAIN parts = S
  BY InvoiceAssumption
<1>2. Receivable \in Account /\ Counter \in Account /\ Counter # Receivable
  BY InvoiceAssumption, LedgerAssumption
<1>3. Total(i) = SumFunctionOnSet(parts, S)
  BY <1>1 DEF Total, SumFunction
<1>4. IsFiniteSet(S) /\ IsFiniteSet(all)
  <2>1. \A x, y \in Int : IsFiniteSet(x..y)
    BY FS_Interval
  <2>2. 1 \in Int /\ n \in Int /\ n + 1 \in Int
    BY <1>1
  <2> QED BY <2>1, <2>2, Zenon
<1>5. \A k \in S : parts[k] \in Int
  BY <1>1
<1>6. Total(i) \in Int
  BY <1>3, <1>4, <1>5, SumInt
<1>7. /\ DOMAIN rows = all
      /\ \A k \in all : rows[k] = IF k <= n THEN <<parts[k], Receivable>>
                                  ELSE <<-Total(i), Counter>>
  BY DEF EntryRows
<1>8. rows \in Seq(Int \X Account)
  <2>1. ASSUME NEW k \in all PROVE rows[k] \in Int \X Account
    <3>1. k <= n => parts[k] \in Int
      BY <1>1, <1>5
    <3>2. -Total(i) \in Int
      BY <1>6
    <3> HIDE DEF rows, all, n, parts
    <3> QED BY <1>2, <1>7, <3>1, <3>2
  <2>2. rows = [k \in all |-> rows[k]] /\ n + 1 \in Nat
    BY <1>1, <1>7 DEF EntryRows
  <2> HIDE DEF rows
  <2> QED BY <2>1, <2>2
<1>9. /\ \A k \in S : f[k] = parts[k]
      /\ f[n + 1] = -Total(i)
      /\ {k \in DOMAIN rows : rows[k][2] = Receivable} = S
  <2>1. \A k \in all : f[k] = rows[k][1]
    BY <1>7 DEF Figures
  <2>2. \A k \in S : k \in all /\ k <= n
    BY <1>1
  <2>3. n + 1 \in all /\ ~(n + 1 <= n)
    BY <1>1
  <2>4. \A k \in all : k <= n => k \in S
    BY <1>1
  <2> HIDE DEF f, rows, S, all, n, parts
  <2>5. \A k \in S : rows[k] = <<parts[k], Receivable>>
    BY <1>7, <2>2
  <2>6. rows[n + 1] = <<-Total(i), Counter>>
    BY <1>7, <2>3
  <2>7. \A k \in all : rows[k][2] = Receivable => k <= n
    BY <1>2, <1>7
  <2>8. {k \in DOMAIN rows : rows[k][2] = Receivable} = S
    BY <1>7, <2>2, <2>4, <2>5, <2>7
  <2> QED BY <2>1, <2>2, <2>3, <2>5, <2>6, <2>8
<1>10. n + 1 \in all /\ all \ {n + 1} = S
  BY <1>1
<1> HIDE DEF f, rows, S, all, n, parts
<1>11. SumFunctionOnSet(f, S) = Total(i)
  BY <1>3, <1>4, <1>9, SumEqual
<1>12. SumFunctionOnSet(f, all) = 0
  <2>1. \A k \in all : f[k] \in Int
    BY <1>5, <1>6, <1>9, <1>10
  <2>2. SumFunctionOnSet(f, all) = f[n + 1] + SumFunctionOnSet(f, all \ {n + 1})
    BY <1>4, <1>10, <2>1, SumRemove
  <2> QED BY <1>6, <1>9, <1>10, <1>11, <2>2
<1>13. IsEntry(rows)
  BY <1>7, <1>8, <1>12 DEF IsEntry, f
<1> QED BY <1>9, <1>11, <1>13 DEF f, rows

-----------------------------------------------------------------------------
(* Invoices and their moves                                                *)

Issued(i) == InState(i, {"proforma", "open", "paid"})
Firm(i) == JournalOf[i] \notin UpdatePosted
InvoiceRow ==
    [state : {"none", "draft", "proforma", "open", "paid", "cancel"},
     move : Move \cup {None}, wait : SUBSET Line]

\* What MoveStands says of the move of an issued invoice.
Standing(d, m, t) ==
    /\ m # None /\ d.move[m].state = "posted"
    /\ \A l \in LinesOf(d, m) : d.line[l].state = "valid"
    /\ Sum(d, Due(d, m)) = t

\* One invoice: what its move is, and what its workflow waits for.
InvoiceOk(i) ==
    LET m == invoice[i].move
    IN  /\ invoice[i] \in InvoiceRow
        /\ InState(i, {"none", "draft", "cancel"}) => m = None
        /\ m # None => ~Is(m, "none") /\ move[m].journal = JournalOf[i]
        /\ Issued(i) /\ Firm(i) => Standing(Db, m, Total(i))
        /\ Waits(i) /\ Firm(i) => invoice[i].wait = Due(Db, m) /\ ~TestPaid(Db, i)

\* No move is of two invoices.
Own == \A i, k \in Invoice : invoice[i].move = invoice[k].move => i = k \/ invoice[i].move = None

\* The inductive invariant.
BookInv ==
    /\ IInv
    /\ DOMAIN invoice = Invoice /\ invoice = [i \in Invoice |-> invoice[i]]
    /\ \A i \in Invoice : InvoiceOk(i)
    /\ Own

\* A move that stands is not changed by what the ledger does.
LEMMA StandsStill ==
    ASSUME IInv, LedgerOk, NEW m \in Move, NEW t, Standing(Db, m, t),
           move[m].journal \notin UpdatePosted
    PROVE  /\ Standing(Db', m, t) /\ move'[m] = move[m]
           /\ LinesOf(Db', m) = LinesOf(Db, m) /\ Due(Db', m) = Due(Db, m)
<1>1. move'[m] = move[m] /\ Kept(m) /\ Is(m, "posted")
  BY DbIs DEF LedgerOk, MovesOk, Standing, Is
<1>2. Db'.line = line' /\ Db'.move = move'
  BY DEF Db
<1>3. LinesOf(Db', m) = LinesOf(Db, m)
  BY <1>1, <1>2, DbIs DEF Kept, LinesOf
<1>4. Due(Db', m) = Due(Db, m)
  BY <1>1, <1>2, <1>3, DbIs DEF Kept, LinesOf, Due
<1>5. Sum(Db', Due(Db, m)) = Sum(Db, Due(Db, m))
  <2> DEFINE f == [l \in Line |-> line[l].amount]
             g == [l \in Line |-> line'[l].amount]
             S == Due(Db, m)
  <2>1. S \in SUBSET Line /\ \A l \in S : line[l].move = m
    BY DbIs DEF Due, LinesOf
  <2>2. IsFiniteSet(S)
    BY <2>1, LedgerAssumption, FS_Subset
  <2>3. \A l \in S : g[l] = f[l]
    BY <1>1, <2>1 DEF Kept
  <2> HIDE DEF f, g, S
  <2>4. SumFunctionOnSet(g, S) = SumFunctionOnSet(f, S)
    BY <2>2, <2>3, SumEqual
  <2> QED BY <1>2, <2>4, DbIs DEF Sum, f, g, S
<1>6. move'[m].state = "posted" /\ m # None
  BY <1>1, LedgerAssumption DEF Is
<1>7. \A l \in LinesOf(Db', m) : line'[l].state = "valid"
  BY <1>1, <1>3, DbIs DEF Kept, LinesOf, Standing
<1> QED BY <1>1, <1>2, <1>3, <1>4, <1>5, <1>6, <1>7 DEF Standing

\* What makes an invoice right after a step.
LEMMA RightAfter ==
    ASSUME NEW i \in Invoice, NEW st, NEW m, NEW wait,
           invoice'[i] = [state |-> st, move |-> m, wait |-> wait],
           invoice'[i] \in InvoiceRow,
           st \in {"none", "draft", "cancel"} => m = None,
           m # None => move'[m].state # "none" /\ move'[m].journal = JournalOf[i],
           st \in {"proforma", "open", "paid"} /\ Firm(i) => Standing(Db', m, Total(i)),
           st \in {"proforma", "open"} /\ Firm(i) =>
              /\ wait = Due(Db', m)
              /\ wait = {} \/ \E l \in wait : line'[l].rec = None
    PROVE  InvoiceOk(i)'
<1>1. invoice'[i].state = st /\ invoice'[i].move = m /\ invoice'[i].wait = wait
  OBVIOUS
<1>2. Db'.line = line'
  BY DEF Db
<1>3. (Waits(i)' /\ Firm(i)) => invoice'[i].wait = Due(Db', m) /\ ~TestPaid(Db, i)'
  BY <1>1, <1>2 DEF Waits, TestPaid, PaymentLines
<1> QED BY <1>1, <1>3 DEF InvoiceOk, InState, Issued, Firm, Is, Waits

\* An invoice nothing is done with, nor with its move.
LEMMA LeftAlone ==
    ASSUME IInv, LedgerOk, NEW i \in Invoice, InvoiceOk(i), invoice'[i] = invoice[i],
           invoice[i].move # None =>
              /\ move'[invoice[i].move].state # "none"
              /\ \A l \in Line : line[l].move = invoice[i].move => line'[l].rec = line[l].rec
    PROVE  InvoiceOk(i)'
<1> DEFINE st == invoice[i].state
           m == invoice[i].move
           wait == invoice[i].wait
<1>1. /\ invoice[i] = [state |-> st, move |-> m, wait |-> wait]
      /\ invoice[i] \in InvoiceRow /\ m \in Move \cup {None} /\ wait \in SUBSET Line
  BY DEF InvoiceOk, InvoiceRow
<1>2. /\ st \in {"none", "draft", "cancel"} => m = None
      /\ m # None => move[m].state # "none" /\ move[m].journal = JournalOf[i]
      /\ st \in {"proforma", "open", "paid"} /\ Firm(i) => Standing(Db, m, Total(i))
      /\ st \in {"proforma", "open"} /\ Firm(i) => wait = Due(Db, m) /\ ~TestPaid(Db, i)
  BY DEF InvoiceOk, InState, Issued, Waits, Is
<1>3. m # None => move'[m].state # "none" /\ move'[m].journal = JournalOf[i]
  BY <1>1, <1>2 DEF LedgerOk, MovesOk, Is
<1>4. ASSUME st \in {"proforma", "open", "paid"}, Firm(i)
      PROVE  Standing(Db', m, Total(i)) /\ Due(Db', m) = Due(Db, m) /\ m # None
  <2>1. Standing(Db, m, Total(i)) /\ m \in Move /\ move[m].journal = JournalOf[i]
    BY <1>1, <1>2, <1>4 DEF Standing
  <2> HIDE DEF m
  <2> QED BY <1>4, <2>1, StandsStill DEF Firm, Standing
<1>5. ASSUME st \in {"proforma", "open"}, Firm(i)
      PROVE  wait = Due(Db', m) /\ (wait = {} \/ \E l \in wait : line'[l].rec = None)
  <2>1. wait = Due(Db, m) /\ (wait = {} \/ \E l \in wait : line[l].rec = None)
    BY <1>2, <1>5, DbIs DEF TestPaid, PaymentLines
  <2>2. \A l \in wait : l \in Line /\ line[l].move = m
    BY <2>1, DbIs DEF Due, LinesOf
  <2> QED BY <1>4, <1>5, <2>1, <2>2
<1> HIDE DEF st, m, wait
<1> QED BY <1>1, <1>2, <1>3, <1>4, <1>5, RightAfter

\* An invoice that follows what is done with the entries: when the last of the
\* lines it waits for is reconciled, its workflow is told of it.
LEMMA Follows ==
    ASSUME IInv, LedgerOk, NEW i \in Invoice, InvoiceOk(i), Follow
    PROVE  InvoiceOk(i)'
<1> DEFINE reconciled == {l \in Line : line[l].rec = None /\ line'[l].rec # None}
           old == invoice[i].move
           st == IF PaidBy(i, After, reconciled) THEN "paid" ELSE invoice[i].state
           m == IF old # None /\ move'[old].state = "none" THEN None ELSE old
           wait == {l \in invoice[i].wait : line'[l].move # None}
<1>0. invoice'[i] = [state |-> st, move |-> m, wait |-> wait]
  BY DEF Follow
<1>1. /\ invoice[i].state \in {"none", "draft", "proforma", "open", "paid", "cancel"}
      /\ old \in Move \cup {None} /\ invoice[i].wait \in SUBSET Line
      /\ (st = "paid" /\ Waits(i)) \/ st = invoice[i].state
  BY DEF InvoiceOk, InvoiceRow, PaidBy
<1>2. /\ invoice[i].state \in {"none", "draft", "cancel"} => old = None
      /\ old # None => move[old].state # "none" /\ move[old].journal = JournalOf[i]
      /\ Issued(i) /\ Firm(i) => Standing(Db, old, Total(i))
      /\ Waits(i) /\ Firm(i) => invoice[i].wait = Due(Db, old) /\ ~TestPaid(Db, i)
  BY DEF InvoiceOk, InState, Is
<1>3. m # None => m = old /\ move'[m].state # "none" /\ move'[m].journal = JournalOf[i]
  BY <1>1, <1>2 DEF LedgerOk, MovesOk, Is
<1>4. ASSUME st \in {"proforma", "open", "paid"}, Firm(i)
      PROVE  /\ m = old /\ Standing(Db', old, Total(i)) /\ Due(Db', old) = Due(Db, old)
             /\ LinesOf(Db', old) = LinesOf(Db, old) /\ old \in Move
  <2>1. Issued(i)
    BY <1>1, <1>4 DEF Issued, InState, Waits
  <2>2. Standing(Db, old, Total(i)) /\ old \in Move /\ move[old].journal = JournalOf[i]
    BY <1>1, <1>2, <1>4, <2>1 DEF Standing
  <2>3. m = old <=> ~(old # None /\ move'[old].state = "none")
    BY <2>2, LedgerAssumption
  <2> HIDE DEF old, m
  <2>4. /\ Standing(Db', old, Total(i)) /\ Due(Db', old) = Due(Db, old)
        /\ LinesOf(Db', old) = LinesOf(Db, old)
    BY <1>4, <2>2, StandsStill DEF Firm
  <2>5. move'[old].state = "posted"
    BY <2>4 DEF Standing, Db
  <2> QED BY <2>2, <2>3, <2>4, <2>5
<1>5. ASSUME st \in {"proforma", "open"}, Firm(i)
      PROVE  wait = Due(Db', m) /\ (wait = {} \/ \E l \in wait : line'[l].rec = None)
  <2>1. Waits(i) /\ ~PaidBy(i, After, reconciled)
    BY <1>1, <1>5 DEF Waits
  <2>2. /\ invoice[i].wait = Due(Db, old)
        /\ Due(Db, old) = {} \/ \E l \in Due(Db, old) : line[l].rec = None
    BY <1>2, <1>5, <2>1, DbIs DEF TestPaid, PaymentLines
  <2>3. wait = Due(Db, old)
    <3>1. \A l \in Due(Db, old) : l \in LinesOf(Db', old)
      BY <1>4, <1>5 DEF Due
    <3>2. \A l \in LinesOf(Db', old) : line'[l].move = old /\ old # None
      BY <1>4, <1>5, LedgerAssumption DEF LinesOf, Db
    <3> QED BY <2>2, <3>1, <3>2
  <2>4. ASSUME wait # {}, \A l \in wait : line'[l].rec # None
        PROVE  FALSE
    <3>1. PICK l \in wait : line[l].rec = None
      BY <2>2, <2>3, <2>4
    <3>2. l \in reconciled /\ l \in invoice[i].wait
      BY <1>1, <2>4, <3>1
    <3>3. PaymentLines(After, i) = wait /\ After.line = line'
      <4>1. After = Db'
        BY DEF After, Db
      <4> HIDE DEF wait
      <4> QED BY <1>4, <1>5, <2>3, <4>1 DEF PaymentLines, Db
    <3>4. TestPaid(After, i)
      BY <2>4, <3>3 DEF TestPaid
    <3> QED BY <2>1, <3>2, <3>4 DEF PaidBy
  <2> QED BY <1>4, <1>5, <2>3, <2>4
<1>6. /\ st \in {"none", "draft", "proforma", "open", "paid", "cancel"}
      /\ m \in Move \cup {None} /\ wait \in SUBSET Line
      /\ st \in {"none", "draft", "cancel"} => m = None
  BY <1>1, <1>2
<1> HIDE DEF reconciled, old, st, m, wait
<1>7. invoice'[i] \in InvoiceRow
  BY <1>0, <1>6 DEF InvoiceRow
<1>8. st \in {"proforma", "open", "paid"} /\ Firm(i) => Standing(Db', m, Total(i))
  BY <1>4
<1> QED BY <1>0, <1>3, <1>5, <1>6, <1>7, <1>8, RightAfter

-----------------------------------------------------------------------------
(* The steps                                                               *)

\* A step of the ledger, or none.
LEMMA LedgerStepOk ==
    ASSUME IInv, [Next]_vars
    PROVE  LedgerOk
<1>1. StepOk /\ MovesOk
  BY NextOk, StepMoves
<1> QED BY <1>1 DEF StepOk, LedgerOk, Is

\* All invoices follow the ledger.
LEMMA AllFollow ==
    ASSUME BookInv, LedgerOk, Follow
    PROVE  BookInv'
<1>1. \A i \in Invoice : InvoiceOk(i)'
  BY Follows DEF BookInv
<1>2. DOMAIN invoice' = Invoice /\ invoice' = [i \in Invoice |-> invoice'[i]]
  BY DEF Follow
<1>3. \A i \in Invoice : invoice'[i].move \in {invoice[i].move, None}
  BY DEF Follow
<1>4. Own'
  BY <1>3 DEF BookInv, Own
<1> QED BY <1>1, <1>2, <1>4 DEF BookInv, LedgerOk

\* One invoice is written, and the moves of the others are left alone.
LEMMA OneInvoice ==
    ASSUME BookInv, LedgerOk, NEW i \in Invoice, NEW row, invoice' = [invoice EXCEPT ![i] = row],
           InvoiceOk(i)',
           \A k \in Invoice \ {i} : invoice[k].move # None =>
              /\ invoice[k].move # row.move
              /\ move'[invoice[k].move].state # "none"
              /\ \A l \in Line : line[l].move = invoice[k].move => line'[l].rec = line[l].rec
    PROVE  BookInv'
<1>1. /\ DOMAIN invoice' = Invoice /\ invoice' = [k \in Invoice |-> invoice'[k]]
      /\ invoice'[i] = row /\ \A k \in Invoice \ {i} : invoice'[k] = invoice[k]
  BY DEF BookInv
<1>2. ASSUME NEW k \in Invoice \ {i} PROVE InvoiceOk(k)'
  BY <1>1, LeftAlone DEF BookInv
<1>3. Own'
  <2> SUFFICES ASSUME NEW h \in Invoice, NEW k \in Invoice, invoice'[h].move = invoice'[k].move,
                      h # k
               PROVE  invoice'[h].move = None
    BY DEF Own
  <2>1. CASE h = i \/ k = i
    BY <1>1, <2>1
  <2>2. CASE h # i /\ k # i
    BY <1>1, <2>2 DEF BookInv, Own
  <2> QED BY <2>1, <2>2
<1> QED BY <1>1, <1>2, <1>3 DEF BookInv, LedgerOk

\* One invoice is written, and nothing else.
LEMMA OnlyInvoice ==
    ASSUME BookInv, UNCHANGED vars, NEW i \in Invoice, NEW row,
           invoice' = [invoice EXCEPT ![i] = row], row.move \in {invoice[i].move, None}, InvoiceOk(i)'
    PROVE  BookInv'
<1>1. LedgerOk
  BY LedgerStepOk DEF BookInv
<1>2. move' = move /\ line' = line
  BY DEF vars
<1>3. ASSUME NEW k \in Invoice \ {i}, invoice[k].move # None
      PROVE  invoice[k].move # row.move /\ move'[invoice[k].move].state # "none"
  <2>1. invoice[k].move # row.move
    BY <1>3 DEF BookInv, Own
  <2>2. ~Is(invoice[k].move, "none")
    BY <1>3 DEF BookInv, InvoiceOk
  <2> QED BY <1>2, <2>1, <2>2 DEF Is
<1> QED BY <1>1, <1>2, <1>3, OneInvoice

\* An invoice without a move: a new one, one that is deleted, and one that
\* is cancelled or draft.
LEMMA WithoutMove ==
    ASSUME NEW i \in Invoice, NEW st \in {"none", "draft", "cancel"},
           DOMAIN invoice = Invoice, Becomes(i, st, None, {})
    PROVE  InvoiceOk(i)'
<1>1. invoice'[i] = [state |-> st, move |-> None, wait |-> {}]
  BY DEF Becomes
<1>2. invoice'[i] \in InvoiceRow
  BY <1>1 DEF InvoiceRow
<1> QED BY <1>1, <1>2, RightAfter

\* create, unlink and action_cancel_draft.
LEMMA NoMoveOk ==
    ASSUME BookInv, NEW i \in Invoice, NewInvoice(i) \/ DeleteInvoice(i) \/ CancelDraft(i)
    PROVE  BookInv'
<1>1. PICK st \in {"none", "draft"} : Becomes(i, st, None, {})
  BY DEF NewInvoice, DeleteInvoice, CancelDraft
<1>2. InvoiceOk(i)'
  BY <1>1, WithoutMove DEF BookInv
<1>3. UNCHANGED vars
  BY DEF NewInvoice, DeleteInvoice, CancelDraft
<1> DEFINE row == [state |-> st, move |-> None, wait |-> {}]
<1>4. invoice' = [invoice EXCEPT ![i] = row] /\ row.move = None
  BY <1>1 DEF Becomes
<1> HIDE DEF row
<1> QED BY <1>2, <1>3, <1>4, OnlyInvoice

\* write: the workflow finds the invoice paid.
LEMMA WriteInvoiceOk ==
    ASSUME BookInv, NEW i \in Invoice, WriteInvoice(i)
    PROVE  BookInv'
<1> DEFINE m == invoice[i].move
           row == [state |-> "paid", move |-> m, wait |-> {}]
<1>1. Waits(i) /\ UNCHANGED vars /\ invoice' = [invoice EXCEPT ![i] = row]
  BY DEF WriteInvoice, Becomes
<1>2. /\ m \in Move \cup {None}
      /\ m # None => move[m].state # "none" /\ move[m].journal = JournalOf[i]
      /\ Firm(i) => Standing(Db, m, Total(i))
  BY <1>1 DEF BookInv, InvoiceOk, InvoiceRow, Is, Issued, Waits, InState
<1>3. row.move = m /\ invoice'[i] = row /\ row \in InvoiceRow
  <2> HIDE DEF m
  <2> QED BY <1>1, <1>2 DEF BookInv, InvoiceRow
<1>4. Db' = Db /\ move' = move
  BY <1>1 DEF Db, vars
<1> HIDE DEF m
<1>5. InvoiceOk(i)'
  <2>1. Firm(i) => Standing(Db', m, Total(i))
    BY <1>2, <1>4
  <2>2. m # None => move'[m].state # "none" /\ move'[m].journal = JournalOf[i]
    BY <1>2, <1>4
  <2>3. invoice'[i] = [state |-> "paid", move |-> m, wait |-> {}]
    BY <1>3
  <2>4. invoice'[i] \in InvoiceRow
    BY <1>3
  <2> HIDE DEF row
  <2> QED BY <2>1, <2>2, <2>3, <2>4, RightAfter
<1> HIDE DEF row
<1> QED BY <1>1, <1>3, <1>5, OnlyInvoice DEF m

\* An invoice that stands on a move.
LEMMA StandsOk ==
    ASSUME NEW i \in Invoice, NEW st \in {"proforma", "open"}, NEW m \in Move, NEW d, Db' = d,
           DOMAIN invoice = Invoice, Stands(i, st, m, d),
           move'[m].state # "none", move'[m].journal = JournalOf[i],
           Firm(i) => Standing(Db', m, Total(i))
    PROVE  InvoiceOk(i)' /\ \E row : row.move = m /\ invoice' = [invoice EXCEPT ![i] = row]
<1> DEFINE due == Due(d, m)
           paid == due # {} /\ \A l \in due : d.line[l].rec # None
           to == IF paid THEN "paid" ELSE st
           wait == IF paid THEN {} ELSE due
           row == [state |-> to, move |-> m, wait |-> wait]
<1>1. invoice' = [invoice EXCEPT ![i] = row]
  BY DEF Stands, Becomes
<1>2. due \in SUBSET Line /\ Db'.line = line' /\ Due(Db', m) = due
  BY DEF Due, LinesOf, Db
<1>3. to \in {"proforma", "open", "paid"} /\ wait \in SUBSET Line
  BY <1>2
<1>4. to \in {"proforma", "open"} =>
         /\ wait = Due(Db', m)
         /\ wait = {} \/ \E l \in wait : line'[l].rec = None
  BY <1>2
<1> HIDE DEF due, paid, to, wait
<1>5. invoice'[i] = row /\ row.move = m /\ row \in InvoiceRow
  BY <1>1, <1>3 DEF InvoiceRow
<1>6. InvoiceOk(i)'
  <2>1. invoice'[i] = [state |-> to, move |-> m, wait |-> wait] /\ invoice'[i] \in InvoiceRow
    BY <1>5
  <2>2. to \in {"none", "draft", "cancel"} => m = None
    BY <1>3
  <2> HIDE DEF row
  <2> QED BY <1>4, <2>1, <2>2, RightAfter
<1> QED BY <1>1, <1>5, <1>6

\* Posting a move whose lines are valid.
LEMMA PostedSound ==
    ASSUME NEW c, Sound(c), NEW n \in Move, c.move[n].state # "none",
           \A l \in LinesOf(c, n) : c.line[l].state = "valid"
    PROVE  LET d == [c EXCEPT !.move[n].state = "posted"]
           IN  /\ Sound(d) /\ d.line = c.line
               /\ d.move[n] = [c.move[n] EXCEPT !.state = "posted"]
               /\ \A x \in Move \ {n} : d.move[x] = c.move[x]
<1> DEFINE moves == [c.move EXCEPT ![n].state = "posted"]
           d == [c EXCEPT !.move = moves]
<1>1. c.move \in [Move -> MoveRow] /\ IsDb(c)
  BY DEF Sound, IsDb
<1>2. /\ moves \in [Move -> MoveRow] /\ moves[n] = [c.move[n] EXCEPT !.state = "posted"]
      /\ \A x \in Move \ {n} : moves[x] = c.move[x]
  BY <1>1 DEF MoveRow
<1>3. IsDb(d) /\ d.move = moves /\ d.line = c.line
  BY <1>1, <1>2, MovesIsDb
<1>4. d = [c EXCEPT !.move[n].state = "posted"]
  <2>1. c = [move |-> c.move, line |-> c.line, jp |-> c.jp]
    BY <1>1 DEF IsDb
  <2> QED BY <2>1
<1>5. moves[n].state = "posted" /\ KeyOf(moves[n]) = KeyOf(c.move[n])
  BY <1>1 DEF MoveRow, KeyOf
<1> HIDE DEF moves, d
<1>6. FixedBut(d, None)
  <2> SUFFICES ASSUME NEW l \in Line, c.line[l].move # None
               PROVE  c.line[l].state = "valid" \/ Loose(d, l)
    BY <1>3 DEF FixedBut
  <2>1. c.line[l].move \in Move
    BY <1>1, RowOf
  <2>2. CASE c.line[l].move = n
    BY <2>2 DEF LinesOf
  <2>3. CASE c.line[l].move # n
    <3>1. d.move[c.line[l].move] = c.move[c.line[l].move]
      BY <1>2, <1>3, <2>1, <2>3
    <3> QED BY <1>3, <3>1 DEF Sound, FixedBut, Loose
  <2> QED BY <2>2, <2>3
<1>7. Keyed(d)
  <2>1. \A x \in Move : /\ KeyOf(moves[x]) = KeyOf(c.move[x])
                        /\ moves[x].state # "none" <=> c.move[x].state # "none"
    BY <1>2, <1>5
  <2>2. \A l \in Line : c.line[l].move \in Move \cup {None}
    BY <1>1, RowOf
  <2> QED BY <1>3, <2>1, <2>2 DEF Sound, Keyed
<1>8. \A x \in Move : Even(d, x)
  BY <1>1, <1>3, SameRows DEF Sound
<1> QED BY <1>2, <1>3, <1>4, <1>6, <1>7, <1>8 DEF Sound

\* action_move_create: the move of an invoice is posted, and due in full.
LEMMA MoveCreated ==
    ASSUME IInv, NEW i \in Invoice, NEW m \in Move, NEW p \in Period, NEW d,
           MayEnter(Db, m, JournalOf[i], p, EntryRows(i)),
           d = [Entered(Db, m, JournalOf[i], p, EntryRows(i)) EXCEPT !.move[m].state = "posted"],
           Commit(d)
    PROVE  /\ LedgerOk /\ Db' = d /\ Is(m, "none")
           /\ move'[m].state = "posted" /\ move'[m].journal = JournalOf[i]
           /\ \A x \in Move : ~Is(x, "none") => move'[x] = move[x]
           /\ \A l \in Line : line[l].move # None => line'[l] = line[l]
           /\ Standing(Db', m, Total(i))
<1> DEFINE j == JournalOf[i]
           rows == EntryRows(i)
           e == Entered(Db, m, j, p, rows)
<1>1. j \in Journal
  BY InvoiceAssumption
<1>2. /\ IsEntry(rows)
      /\ SumFunctionOnSet(Figures(rows), {k \in DOMAIN rows : rows[k][2] = Receivable}) = Total(i)
  BY InvoiceEntry
<1> HIDE DEF j, rows
<1>3. Books(Db, e, m, j, p, rows)
  BY <1>1, <1>2, EnteredBooks DEF IInv, Sound, j, rows
<1>4. d = [e EXCEPT !.move[m].state = "posted"]
  BY DEF j, rows
<1> HIDE DEF e
<1>5. /\ Sound(e) /\ Grown(Db, e) /\ Is(m, "none")
      /\ e.move[m] = [state |-> "draft", journal |-> j, period |-> p]
      /\ \A x \in Move \ {m} : e.move[x] = move[x]
      /\ \A l \in LinesOf(e, m) : e.line[l].state = "valid"
      /\ Sum(e, Due(e, m)) = Total(i)
  BY <1>2, <1>3, BooksGrow, DbIs DEF Books, Is
<1>6. /\ Sound(d) /\ d.line = e.line /\ d.move[m] = [e.move[m] EXCEPT !.state = "posted"]
      /\ \A x \in Move \ {m} : d.move[x] = e.move[x]
  <2>1. e.move[m].state # "none"
    BY <1>5
  <2> DEFINE c == [e EXCEPT !.move[m].state = "posted"]
  <2>2. /\ Sound(c) /\ c.line = e.line /\ c.move[m] = [e.move[m] EXCEPT !.state = "posted"]
        /\ \A x \in Move \ {m} : c.move[x] = e.move[x]
    BY <1>5, <2>1, PostedSound
  <2>3. d = c
    BY <1>4
  <2> HIDE DEF c
  <2> QED BY <2>2, <2>3
<1>7. d.move[m].state = "posted" /\ d.move[m].journal = j
  BY <1>5, <1>6
<1>8. IInv' /\ Db' = d
  BY <1>6, Committed DEF Sound, IsDb, Db, Commit
<1>9. move' = d.move /\ line' = e.line
  BY <1>6 DEF Commit
<1>10. \A x \in Move : ~Is(x, "none") => move'[x] = move[x]
  BY <1>5, <1>6, <1>9 DEF Is
<1>11. \A l \in Line : line[l].move # None => line'[l] = line[l]
  BY <1>5, <1>9, DbIs DEF Grown
<1>12. LedgerOk
  <2>1. \A l \in Line : line'[l].move # line[l].move =>
           line'[l].move \in Move /\ Is(line'[l].move, "none")
    BY <1>5, <1>9, DbIs DEF Grown, Is
  <2> QED BY <1>8, <1>10, <1>11, <2>1, GrownStep
<1>13. Standing(d, m, Total(i))
  <2>1. LinesOf(d, m) = LinesOf(e, m) /\ m # None
    BY <1>6, LedgerAssumption DEF LinesOf
  <2>2. Due(d, m) = Due(e, m)
    BY <1>6, <2>1 DEF Due
  <2>3. Sum(d, Due(e, m)) = Sum(e, Due(e, m))
    BY <1>6 DEF Sum
  <2> QED BY <1>5, <1>6, <1>7, <2>1, <2>2, <2>3 DEF Standing
<1> QED BY <1>5, <1>7, <1>8, <1>9, <1>10, <1>11, <1>12, <1>13 DEF j

\* To proforma or open.
LEMMA IssueOk ==
    ASSUME BookInv, NEW i \in Invoice, NEW st \in {"proforma", "open"}, NEW m \in Move,
           NEW p \in Period, Issue(i, st, m, p)
    PROVE  BookInv'
<1>1. CASE invoice[i].move # None
  <2> DEFINE n == invoice[i].move
  <2>1. Stands(i, st, n, Db) /\ UNCHANGED vars /\ InState(i, {"draft", "proforma"})
    BY <1>1 DEF Issue, InState
  <2>2. /\ n \in Move /\ InState(i, {"proforma"})
        /\ move[n].state # "none" /\ move[n].journal = JournalOf[i]
        /\ Firm(i) => Standing(Db, n, Total(i))
    <3>1. InvoiceOk(i) /\ n # None
      BY <1>1 DEF BookInv
    <3>2. InState(i, {"proforma"}) /\ Issued(i)
      BY <2>1, <3>1 DEF InvoiceOk, InState, Issued
    <3> QED BY <3>1, <3>2 DEF InvoiceOk, InvoiceRow, Is
  <2>3. Db' = Db /\ move' = move
    BY <2>1 DEF Db, vars
  <2> HIDE DEF n
  <2>4. Firm(i) => Standing(Db', n, Total(i))
    BY <2>2, <2>3
  <2>5. PICK row : InvoiceOk(i)' /\ row.move = n /\ invoice' = [invoice EXCEPT ![i] = row]
    BY <2>1, <2>2, <2>3, <2>4, StandsOk DEF BookInv
  <2> QED BY <2>1, <2>5, OnlyInvoice DEF n
<1>2. CASE invoice[i].move = None
  <2> DEFINE d == [Entered(Db, m, JournalOf[i], p, EntryRows(i)) EXCEPT !.move[m].state = "posted"]
  <2>1. MayEnter(Db, m, JournalOf[i], p, EntryRows(i)) /\ Commit(d) /\ Stands(i, st, m, d)
    BY <1>2 DEF Issue
  <2>2. /\ LedgerOk /\ Db' = d /\ Is(m, "none")
        /\ move'[m].state = "posted" /\ move'[m].journal = JournalOf[i]
        /\ \A x \in Move : ~Is(x, "none") => move'[x] = move[x]
        /\ \A l \in Line : line[l].move # None => line'[l] = line[l]
        /\ Standing(Db', m, Total(i))
    BY <2>1, MoveCreated DEF BookInv
  <2> HIDE DEF d
  <2>3. PICK row : InvoiceOk(i)' /\ row.move = m /\ invoice' = [invoice EXCEPT ![i] = row]
    BY <2>1, <2>2, StandsOk DEF BookInv
  <2>4. ASSUME NEW k \in Invoice \ {i}, invoice[k].move # None
        PROVE  /\ invoice[k].move # row.move
               /\ move'[invoice[k].move].state # "none"
               /\ \A l \in Line : line[l].move = invoice[k].move => line'[l].rec = line[l].rec
    <3>1. invoice[k].move \in Move /\ ~Is(invoice[k].move, "none")
      BY <2>4 DEF BookInv, InvoiceOk, InvoiceRow
    <3> QED BY <2>2, <2>3, <2>4, <3>1 DEF Is
  <2> QED BY <2>2, <2>3, <2>4, OneInvoice
<1> QED BY <1>1, <1>2

\* action_cancel: what the invoice stood on is deleted with it.
LEMMA CancelOk ==
    ASSUME BookInv, NEW i \in Invoice, Cancel(i)
    PROVE  BookInv'
<1> DEFINE m == invoice[i].move
           d == [Db EXCEPT !.move[m].state = "draft"]
           e == Deleted(d, m)
           row == [state |-> "cancel", move |-> None, wait |-> {}]
<1>1. invoice' = [invoice EXCEPT ![i] = row] /\ InvoiceOk(i)'
  <2>1. Becomes(i, "cancel", None, {})
    BY DEF Cancel
  <2> QED BY <2>1, WithoutMove DEF BookInv, Becomes
<1>2. row.move = None
  OBVIOUS
<1>3. CASE m = None
  <2>1. UNCHANGED vars
    BY <1>3 DEF Cancel
  <2> HIDE DEF row
  <2> QED BY <1>1, <1>2, <2>1, OnlyInvoice
<1>4. CASE m # None
  <2>1. move[m].journal \in UpdatePosted /\ Commit(e)
    BY <1>4 DEF Cancel
  <2>2. m \in Move /\ move[m].state # "none"
    BY <1>4 DEF BookInv, InvoiceOk, InvoiceRow, Is
  <2>3. \A k \in Invoice \ {i} : invoice[k].move # None => invoice[k].move # m
    BY DEF BookInv, Own
  <2>4. \A k \in Invoice : invoice[k].move # None =>
           invoice[k].move \in Move /\ move[invoice[k].move].state # "none"
    BY DEF BookInv, InvoiceOk, InvoiceRow, Is
  <2> HIDE DEF m, row
  <2>5. Sound(d) /\ d.line = line /\ \A x \in Move \ {m} : d.move[x] = move[x]
    <3>1. Sound(Db)
      BY DEF BookInv, IInv, Sound
    <3>2. Db.move[m].state # "none"
      BY <2>2, DbIs
    <3>3. Sound(d) /\ d.line = Db.line /\ \A x \in Move \ {m} : d.move[x] = Db.move[x]
      BY <2>2, <3>1, <3>2, DraftedSound
    <3> HIDE DEF d
    <3> QED BY <3>3, DbIs
  <2> HIDE DEF d
  <2>6. /\ Sound(e)
        /\ \A x \in Move : e.move[x] = IF x = m THEN NoMove ELSE d.move[x]
        /\ \A l \in Line : e.line[l] = IF line[l].move = m THEN NoLine ELSE line[l]
    BY <2>2, <2>5, DeletedSound
  <2> HIDE DEF e
  <2>7. move' = e.move /\ line' = e.line /\ IInv'
    BY <2>1, <2>6, Committed DEF Sound, Commit
  <2>8. /\ move'[m].state = "none" /\ \A x \in Move \ {m} : move'[x] = move[x]
        /\ \A l \in Line : line[l].move # m => line'[l] = line[l]
        /\ \A l \in Line : line[l].move = m => line'[l].move = None
    BY <2>2, <2>5, <2>6, <2>7, NoRows
  <2>9. LedgerOk
    <3>1. MovesOk
      BY <2>1, <2>8 DEF MovesOk
    <3>2. ASSUME NEW x \in Move \ {m} PROVE Kept(x)
      BY <2>8, LedgerAssumption DEF Kept
    <3> QED BY <2>1, <2>7, <3>1, <3>2 DEF LedgerOk
  <2>10. ASSUME NEW k \in Invoice \ {i}, invoice[k].move # None
         PROVE  /\ invoice[k].move # row.move
                /\ move'[invoice[k].move].state # "none"
                /\ \A l \in Line : line[l].move = invoice[k].move => line'[l].rec = line[l].rec
    BY <1>2, <2>3, <2>4, <2>8, <2>10
  <2> QED BY <1>1, <2>9, <2>10, OneInvoice
<1> QED BY <1>3, <1>4

\* At first there is no invoice.
LEMMA BookInit == IInit => BookInv
<1> SUFFICES ASSUME IInit PROVE BookInv
  OBVIOUS
<1> DEFINE row == [state |-> "none", move |-> None, wait |-> {}]
<1>1. IInv
  BY InitOk DEF IInit
<1>2. DOMAIN invoice = Invoice /\ \A i \in Invoice : invoice[i] = row
  BY DEF IInit
<1>3. invoice = [i \in Invoice |-> invoice[i]]
  BY DEF IInit
<1>4. row \in InvoiceRow /\ row.state = "none" /\ row.move = None
  BY DEF InvoiceRow
<1> HIDE DEF row
<1>5. \A i \in Invoice : InvoiceOk(i)
  BY <1>2, <1>4 DEF InvoiceOk, InState, Issued, Waits
<1>6. Own
  BY <1>2, <1>4 DEF Own
<1> QED BY <1>1, <1>2, <1>3, <1>5, <1>6 DEF BookInv

\* Every step keeps the invariant.
LEMMA BookNext == BookInv /\ [INext]_allVars => BookInv'
<1> SUFFICES ASSUME BookInv, [INext]_allVars PROVE BookInv'
  OBVIOUS
<1>1. CASE UNCHANGED allVars
  <2>1. Db' = Db
    BY <1>1 DEF Db, allVars, vars
  <2>2. IInv'
    <3>1. LedgerOk
      BY <1>1, LedgerStepOk DEF BookInv, allVars
    <3> QED BY <3>1 DEF LedgerOk
  <2>3. invoice' = invoice /\ move' = move /\ line' = line
    BY <1>1 DEF allVars, vars
  <2>4. Own'
    BY <2>3 DEF BookInv, Own
  <2>5. \A i \in Invoice : InvoiceOk(i)'
    <3>1. LedgerOk
      BY <1>1, LedgerStepOk DEF BookInv, allVars
    <3>2. \A i \in Invoice :
             /\ InvoiceOk(i)
             /\ invoice[i].move # None => ~Is(invoice[i].move, "none")
      BY DEF BookInv, InvoiceOk
    <3> QED BY <2>3, <3>1, <3>2, LeftAlone DEF BookInv, Is
  <2> QED BY <2>2, <2>3, <2>4, <2>5 DEF BookInv
<1>2. CASE LedgerStep
  BY <1>2, LedgerStepOk, AllFollow DEF LedgerStep, BookInv
<1>3. ASSUME NEW i \in Invoice, NewInvoice(i) \/ DeleteInvoice(i) \/ CancelDraft(i)
      PROVE  BookInv'
  BY <1>3, NoMoveOk
<1>4. ASSUME NEW i \in Invoice, Cancel(i) \/ WriteInvoice(i) PROVE BookInv'
  BY <1>4, CancelOk, WriteInvoiceOk
<1>5. ASSUME NEW i \in Invoice, NEW m \in Move, NEW p \in Period, NEW st \in {"proforma", "open"},
             Issue(i, st, m, p)
      PROVE  BookInv'
  BY <1>5, IssueOk
<1>6. ASSUME NEW i \in Invoice, NEW x \in PayAmounts, NEW r \in Rec, NEW j \in Journal,
             NEW o \in Journal, NEW p \in Period, NEW m \in Move, NEW n \in Move,
             Pay(i, x, r, j, o, p, m, n)
      PROVE  BookInv'
  <2>1. LedgerOk
    BY <1>6, PayLedger DEF BookInv
  <2>2. Follow
    BY <1>6 DEF Pay
  <2> QED BY <2>1, <2>2, AllFollow
<1> QED BY <1>1, <1>2, <1>3, <1>4, <1>5, <1>6 DEF INext

-----------------------------------------------------------------------------
(* The theorems                                                            *)

\* The inductive invariant holds in every reachable state.
THEOREM BookInvariance == ISpec => []BookInv
BY BookInit, BookNext, PTL DEF ISpec

\* An issued invoice stands on a move of its own that is there, and in a
\* journal whose entries cannot be cancelled on one that is posted, valid and
\* due in full (action_move_create, action_cancel), whatever is entered,
\* validated, reconciled, written off, paid or deleted in the ledger.
THEOREM MoveStandsHolds == ISpec => []MoveStands
<1>1. BookInv => MoveStands
  <2> SUFFICES ASSUME BookInv PROVE MoveStands
    OBVIOUS
  <2>1. \A i, k \in Invoice : invoice[i].move = invoice[k].move => i = k \/ invoice[i].move = None
    BY DEF BookInv, Own
  <2>2. \A i \in Invoice : InState(i, {"none", "draft", "cancel"}) => invoice[i].move = None
    BY DEF BookInv, InvoiceOk
  <2>3. \A i \in Invoice : Issued(i) /\ Firm(i) => Standing(Db, invoice[i].move, Total(i))
    BY DEF BookInv, InvoiceOk
  <2> QED BY <2>1, <2>2, <2>3, DbIs DEF MoveStands, Issued, Firm, Standing, Is
<1> QED BY <1>1, BookInvariance, PTL

\* An invoice whose lines are all reconciled is not left waiting, in whatever
\* order they were (reconcile, trg_trigger, test_paid): the workflow waits for
\* just the lines the test looks at.
THEOREM PaidInTimeHolds == ISpec => []PaidInTime
<1>1. BookInv => PaidInTime
  BY DEF BookInv, InvoiceOk, PaidInTime, Firm
<1> QED BY <1>1, BookInvariance, PTL
==============================================================================
