------------------------------ MODULE LedgerProofs ----------------------------
(***************************************************************************)
(* Proofs about Ledger, for any number of moves, lines, reconciliations,   *)
(* journals and periods, and any integers as amounts.  What keeps a valid  *)
(* move balanced is that its lines are all valid or all draft: validate    *)
(* makes them so, centralisation with two lines that bring the sum to      *)
(* zero, and what leaves a move without validation is a draft line.        *)
(***************************************************************************)
EXTENDS Ledger, FiniteFacts

\* A row of account_move_line.
IsLine(row) ==
    /\ row = [move |-> row.move, amount |-> row.amount, state |-> row.state,
              account |-> row.account, rec |-> row.rec, journal |-> row.journal,
              period |-> row.period, central |-> row.central]
    /\ row \in LineRow

\* The tables, row by row.
IsDb(d) ==
    /\ d = [move |-> d.move, line |-> d.line, jp |-> d.jp]
    /\ d.move \in [Move -> MoveRow]
    /\ d.line = [l \in Line |-> d.line[l]]
    /\ \A l \in Line : IsLine(d.line[l])
    /\ d.jp \in [Key -> {"none", "draft", "done"}]

\* Rows in use have a journal and a period, and lines a move that is there.
Keyed(d) ==
    /\ \A m \in Move : d.move[m].state # "none" => KeyOf(d.move[m]) \in Key
    /\ \A l \in Line : d.line[l].move # None =>
          KeyOf(d.line[l]) \in Key /\ d.move[d.line[l].move].state # "none"

\* A move is draft in all its lines, or valid in all and balanced.
Even(d, m) ==
    \/ \A l \in LinesOf(d, m) : d.line[l].state = "draft"
    \/ Balanced(d, m) /\ \A l \in LinesOf(d, m) : d.line[l].state = "valid"

\* A line that may be draft: of a draft move and not reconciled.
Loose(d, l) == d.line[l].rec = None /\ d.move[d.line[l].move].state # "posted"

\* FixedIsValid of the tables d, for the lines of the moves other than m.
FixedBut(d, m) ==
    \A l \in Line : d.line[l].move \notin {None, m} => d.line[l].state = "valid" \/ Loose(d, l)

\* The inductive invariant.
IInv == IsDb(Db) /\ Keyed(Db) /\ FixedBut(Db, None) /\ \A m \in Move : Even(Db, m)

\* The invariant of the tables d.
Sound(d) == IsDb(d) /\ Keyed(d) /\ FixedBut(d, None) /\ \A m \in Move : Even(d, m)

\* From d to e only lines of m change, and lines that were free become its.
OnlyOf(d, e, m) ==
    \A l \in Line :
        /\ d.line[l].move \notin {None, m} => e.line[l] = d.line[l]
        /\ e.line[l].move # d.line[l].move => d.line[l].move = None /\ e.line[l].move = m

-----------------------------------------------------------------------------
(* The operators on the tables                                             *)

\* The values a row has.
LEMMA RowOf ==
    ASSUME NEW d, IsDb(d), NEW l \in Line
    PROVE  d.line[l].move \in Move \cup {None} /\ d.line[l].state \in {"draft", "valid"}
<1>1. d.line[l] \in LineRow
  BY DEF IsDb, IsLine
<1> QED BY <1>1 DEF LineRow

\* Opening journal periods leaves moves and lines alone.
LEMMA OpenIsDb ==
    ASSUME NEW d, IsDb(d), NEW keys
    PROVE  /\ IsDb(Open(d, keys))
           /\ Open(d, keys).move = d.move
           /\ Open(d, keys).line = d.line
           /\ \A k \in Key : d.jp[k] = "done" => Open(d, keys).jp[k] = "done"
<1> DEFINE e == Open(d, keys)
           jps == [k \in Key |-> IF k \in keys /\ d.jp[k] = "none" THEN "draft" ELSE d.jp[k]]
<1>0. jps \in [Key -> {"none", "draft", "done"}]
  BY DEF IsDb
<1>1. e = [move |-> d.move, line |-> d.line, jp |-> jps]
  BY DEF Open, IsDb
<1>5. \A k \in Key : d.jp[k] = "done" => jps[k] = "done"
  OBVIOUS
<1> HIDE DEF jps
<1>2. e.move = d.move /\ e.line = d.line /\ e.jp = jps
  BY <1>1
<1>3. e = [move |-> e.move, line |-> e.line, jp |-> e.jp]
  BY <1>1, <1>2
<1> HIDE DEF e
<1>4. IsDb(e)
  BY <1>0, <1>2, <1>3 DEF IsDb
<1> QED BY <1>2, <1>4, <1>5 DEF e

\* Putting a row of a line.
LEMMA PutIsDb ==
    ASSUME NEW d, IsDb(d), NEW l, NEW row, IsLine(row)
    PROVE  /\ IsDb(Put(d, l, row))
           /\ Put(d, l, row).move = d.move /\ Put(d, l, row).jp = d.jp
           /\ \A x \in Line : Put(d, l, row).line[x] = IF x = l THEN row ELSE d.line[x]
<1> DEFINE e == Put(d, l, row)
<1>1. e = [move |-> d.move, line |-> [d.line EXCEPT ![l] = row], jp |-> d.jp]
  BY DEF Put, IsDb
<1>2. /\ e.move = d.move
      /\ \A x \in Line : e.line[x] = IF x = l THEN row ELSE d.line[x]
      /\ e.line = [x \in Line |-> e.line[x]] /\ e.jp = d.jp
      /\ e = [move |-> e.move, line |-> e.line, jp |-> e.jp]
  BY <1>1 DEF IsDb
<1> HIDE DEF e
<1>3. IsDb(e)
  BY <1>2 DEF IsDb
<1> QED BY <1>2, <1>3 DEF e

\* Replacing all the lines.
LEMMA LinesIsDb ==
    ASSUME NEW d, IsDb(d), NEW rows, rows = [x \in Line |-> rows[x]],
           \A x \in Line : IsLine(rows[x])
    PROVE  /\ IsDb([d EXCEPT !.line = rows])
           /\ [d EXCEPT !.line = rows].move = d.move
           /\ [d EXCEPT !.line = rows].line = rows
<1> DEFINE e == [d EXCEPT !.line = rows]
<1>1. e = [move |-> d.move, line |-> rows, jp |-> d.jp]
  BY DEF IsDb
<1>2. e.move = d.move /\ e.line = rows /\ e.jp = d.jp /\ e = [move |-> e.move, line |-> e.line, jp |-> e.jp]
  BY <1>1
<1> HIDE DEF e
<1>3. IsDb(e)
  BY <1>2 DEF IsDb
<1> QED BY <1>2, <1>3 DEF e

\* A journal and a period, or those of a row that is none.
SomeKey == (Journal \cup {None}) \X (Period \cup {None})

\* A new line is a line of its move, in its journal and period.
LEMMA NewRowIsLine ==
    ASSUME NEW m \in Move, NEW k \in SomeKey, NEW amount \in Int,
           NEW account \in Account, NEW mode \in {"normal", "debit", "credit"},
           NEW st \in {"draft", "valid"}
    PROVE  LET new == NewRow(m, k, amount, account, mode, st)
           IN  /\ IsLine(new) /\ new.move = m /\ new.state = st /\ new.rec = None
               /\ new.amount = amount /\ new.account = account /\ KeyOf(new) = k
<1> DEFINE j == k[1]
           p == k[2]
           new == [move |-> m, amount |-> amount, state |-> st, account |-> account,
                   rec |-> None, journal |-> j, period |-> p, central |-> mode]
<1>1. j \in Journal \cup {None} /\ p \in Period \cup {None} /\ k = <<j, p>>
  BY DEF SomeKey
<1>2. NewRow(m, k, amount, account, mode, st) = new
  BY DEF NewRow
<1> HIDE DEF j, p
<1>3. /\ IsLine(new) /\ new.move = m /\ new.state = st /\ new.rec = None
      /\ new.amount = amount /\ new.account = account /\ KeyOf(new) = <<j, p>>
  BY <1>1 DEF IsLine, LineRow, KeyOf
<1> QED BY <1>1, <1>2, <1>3

\* The keys there are.
LEMMA KeysAre ==
    /\ Key \subseteq SomeKey
    /\ \A d : IsDb(d) => \A m \in Move : KeyOf(d.move[m]) \in SomeKey
  BY DEF Key, SomeKey, IsDb, MoveRow, KeyOf

\* A row with another state, journal and period.
LEMMA RestatedRow ==
    ASSUME NEW row, IsLine(row), NEW st \in {"draft", "valid"}, NEW of \in MoveRow
    PROVE  /\ IsLine(Restated(row, st, of))
           /\ Restated(row, st, of).state = st
           /\ Restated(row, st, of).move = row.move
           /\ Restated(row, st, of).rec = row.rec
           /\ Restated(row, st, of).amount = row.amount
           /\ KeyOf(Restated(row, st, of)) = KeyOf(of)
<1> DEFINE j == of.journal
           p == of.period
           c == [move |-> row.move, amount |-> row.amount, state |-> row.state,
                account |-> row.account, rec |-> row.rec, journal |-> row.journal,
                period |-> row.period, central |-> row.central]
           new == [move |-> row.move, amount |-> row.amount, state |-> st,
                  account |-> row.account, rec |-> row.rec, journal |-> j,
                  period |-> p, central |-> row.central]
<1>1. row = c
  BY DEF IsLine
<1>0. j \in Journal \cup {None} /\ p \in Period \cup {None} /\ KeyOf(of) = <<j, p>>
  BY DEF MoveRow, KeyOf
<1> HIDE DEF j, p
<1>2. [c EXCEPT !.state = st, !.journal = j, !.period = p] = new
  <2> DEFINE c1 == [c EXCEPT !.state = st]
             c2 == [c1 EXCEPT !.journal = j]
  <2>1. [c EXCEPT !.state = st, !.journal = j, !.period = p] = [c2 EXCEPT !.period = p]
    BY Zenon
  <2>2. c1 = [move |-> row.move, amount |-> row.amount, state |-> st,
              account |-> row.account, rec |-> row.rec, journal |-> row.journal,
              period |-> row.period, central |-> row.central]
    OBVIOUS
  <2> HIDE DEF c1
  <2>3. c2 = [move |-> row.move, amount |-> row.amount, state |-> st,
              account |-> row.account, rec |-> row.rec, journal |-> j,
              period |-> row.period, central |-> row.central]
    BY <2>2
  <2> HIDE DEF c2
  <2>4. [c2 EXCEPT !.period = p] = new
    BY <2>3
  <2> QED BY <2>1, <2>4
<1>3. /\ IsLine(new) /\ new.state = st /\ new.move = row.move /\ new.rec = row.rec
      /\ new.amount = row.amount /\ KeyOf(new) = <<j, p>>
  BY <1>0 DEF IsLine, LineRow, KeyOf
<1> HIDE DEF c, new
<1>4. Restated(row, st, of) = new
  BY <1>1, <1>2 DEF Restated, j, p
<1> QED BY <1>0, <1>3, <1>4

\* A row made valid.
LEMMA ValidRow ==
    ASSUME NEW row, IsLine(row)
    PROVE  LET new == [row EXCEPT !.state = "valid"]
           IN  /\ IsLine(new) /\ new.state = "valid" /\ new.move = row.move
               /\ new.rec = row.rec /\ new.amount = row.amount /\ KeyOf(new) = KeyOf(row)
<1> DEFINE c == [move |-> row.move, amount |-> row.amount, state |-> row.state,
                account |-> row.account, rec |-> row.rec, journal |-> row.journal,
                period |-> row.period, central |-> row.central]
           new == [move |-> row.move, amount |-> row.amount, state |-> "valid",
                  account |-> row.account, rec |-> row.rec, journal |-> row.journal,
                  period |-> row.period, central |-> row.central]
<1>1. row = c
  BY DEF IsLine
<1>2. [c EXCEPT !.state = "valid"] = new
  OBVIOUS
<1>3. /\ IsLine(new) /\ new.state = "valid" /\ new.move = row.move
      /\ new.rec = row.rec /\ new.amount = row.amount /\ KeyOf(new) = KeyOf(row)
  BY DEF IsLine, LineRow, KeyOf
<1> HIDE DEF c
<1> QED BY <1>1, <1>2, <1>3

\* A row with another amount.
LEMMA AmountRow ==
    ASSUME NEW row, IsLine(row), NEW x \in Int
    PROVE  LET new == [row EXCEPT !.amount = x]
           IN  /\ IsLine(new) /\ new.move = row.move /\ new.rec = row.rec
               /\ new.state = row.state /\ new.amount = x /\ KeyOf(new) = KeyOf(row)
<1> DEFINE c == [move |-> row.move, amount |-> row.amount, state |-> row.state,
                account |-> row.account, rec |-> row.rec, journal |-> row.journal,
                period |-> row.period, central |-> row.central]
           new == [move |-> row.move, amount |-> x, state |-> row.state,
                  account |-> row.account, rec |-> row.rec, journal |-> row.journal,
                  period |-> row.period, central |-> row.central]
<1>1. row = c
  BY DEF IsLine
<1>2. [c EXCEPT !.amount = x] = new
  OBVIOUS
<1>3. /\ IsLine(new) /\ new.move = row.move /\ new.rec = row.rec
      /\ new.state = row.state /\ new.amount = x /\ KeyOf(new) = KeyOf(row)
  BY DEF IsLine, LineRow, KeyOf
<1> HIDE DEF c
<1> QED BY <1>1, <1>2, <1>3

\* A row with another reconciliation.
LEMMA RecRow ==
    ASSUME NEW row, IsLine(row), NEW r \in Rec \cup {None}
    PROVE  LET new == [row EXCEPT !.rec = r]
           IN  IsLine(new) /\ new.rec = r /\ new.move = row.move /\ new.state = row.state
              /\ new.amount = row.amount /\ new.account = row.account
              /\ new.journal = row.journal /\ new.period = row.period
<1> DEFINE c == [move |-> row.move, amount |-> row.amount, state |-> row.state,
                account |-> row.account, rec |-> row.rec, journal |-> row.journal,
                period |-> row.period, central |-> row.central]
           new == [move |-> row.move, amount |-> row.amount, state |-> row.state,
                  account |-> row.account, rec |-> r, journal |-> row.journal,
                  period |-> row.period, central |-> row.central]
<1>1. row = c
  BY DEF IsLine
<1>2. [c EXCEPT !.rec = r] = new
  OBVIOUS
<1>3. IsLine(new) /\ new.rec = r /\ new.move = row.move /\ new.state = row.state
              /\ new.amount = row.amount /\ new.account = row.account
              /\ new.journal = row.journal /\ new.period = row.period
  BY DEF IsLine, LineRow
<1> HIDE DEF c
<1> QED BY <1>1, <1>2, <1>3

\* A row sent to another move.
LEMMA MovedRow ==
    ASSUME NEW row, IsLine(row), NEW m \in Move
    PROVE  LET new == [row EXCEPT !.move = m]
           IN  /\ IsLine(new) /\ new.move = m /\ new.rec = row.rec
               /\ new.state = row.state /\ KeyOf(new) = KeyOf(row)
<1> DEFINE c == [move |-> row.move, amount |-> row.amount, state |-> row.state,
                account |-> row.account, rec |-> row.rec, journal |-> row.journal,
                period |-> row.period, central |-> row.central]
           new == [move |-> m, amount |-> row.amount, state |-> row.state,
                  account |-> row.account, rec |-> row.rec, journal |-> row.journal,
                  period |-> row.period, central |-> row.central]
<1>1. row = c
  BY DEF IsLine
<1>2. [c EXCEPT !.move = m] = new
  OBVIOUS
<1>3. /\ IsLine(new) /\ new.move = m /\ new.rec = row.rec
      /\ new.state = row.state /\ KeyOf(new) = KeyOf(row)
  BY DEF IsLine, LineRow, KeyOf
<1> HIDE DEF c
<1> QED BY <1>1, <1>2, <1>3

\* Restate gives lines of a move a state, and leaves the others.
LEMMA RestateIsDb ==
    ASSUME NEW d, IsDb(d), NEW m \in Move, NEW ids, NEW st \in {"draft", "valid"}
    PROVE  /\ IsDb(Restate(d, m, ids, st))
           /\ Restate(d, m, ids, st).move = d.move
           /\ \A x \in Line : x \notin ids => Restate(d, m, ids, st).line[x] = d.line[x]
           /\ \A x \in Line : x \in ids =>
                 /\ Restate(d, m, ids, st).line[x].state = st
                 /\ Restate(d, m, ids, st).line[x].move = d.line[x].move
                 /\ Restate(d, m, ids, st).line[x].rec = d.line[x].rec
                 /\ Restate(d, m, ids, st).line[x].amount = d.line[x].amount
                 /\ KeyOf(Restate(d, m, ids, st).line[x]) = KeyOf(d.move[m])
<1> DEFINE o == Open(d, Keys(d, ids))
           rows == [x \in Line |->
                       IF x \in ids THEN Restated(d.line[x], st, d.move[m])
                       ELSE d.line[x]]
<1>1. IsDb(o) /\ o.move = d.move
  BY OpenIsDb
<1>2. d.move[m] \in MoveRow
  BY DEF IsDb
<1>5. \A x \in Line :
          /\ IsLine(rows[x])
          /\ x \in ids => /\ rows[x].state = st
                          /\ rows[x].move = d.line[x].move
                          /\ rows[x].rec = d.line[x].rec
                          /\ rows[x].amount = d.line[x].amount
                          /\ KeyOf(rows[x]) = KeyOf(d.move[m])
  <2> TAKE x \in Line
  <2>1. IsLine(d.line[x]) /\ d.move[m] \in MoveRow
    BY <1>2 DEF IsDb
  <2>2. rows[x] = IF x \in ids THEN Restated(d.line[x], st, d.move[m]) ELSE d.line[x]
    OBVIOUS
  <2> HIDE DEF rows
  <2> QED BY <2>1, <2>2, RestatedRow
<1>3. rows = [x \in Line |-> rows[x]]
  OBVIOUS
<1>4. Restate(d, m, ids, st) = [o EXCEPT !.line = rows]
  BY DEF Restate
<1>6. \A x \in Line : x \notin ids => rows[x] = d.line[x]
  OBVIOUS
<1> HIDE DEF o, rows
<1>7. IsDb([o EXCEPT !.line = rows]) /\ [o EXCEPT !.line = rows].move = o.move
      /\ [o EXCEPT !.line = rows].line = rows
  BY <1>1, <1>3, <1>5, LinesIsDb
<1> QED BY <1>1, <1>4, <1>5, <1>6, <1>7

\* A line of centralisation is a line of its move; a new one is valid.
LEMMA CentralRowIsLine ==
    ASSUME NEW d, IsDb(d), NEW m \in Move, NEW l \in Line,
           NEW mode \in {"debit", "credit"}, NEW amount \in Int
    PROVE  LET new == CentralRow(d, m, l, mode, amount)
           IN  /\ IsLine(new) /\ new.move = m /\ new.amount = amount
               /\ new.state = IF d.line[l].move = m THEN d.line[l].state ELSE "valid"
               /\ KeyOf(new) = IF d.line[l].move = m THEN KeyOf(d.line[l]) ELSE KeyOf(d.move[m])
<1>1. CASE d.line[l].move = m
  <2> DEFINE row == d.line[l]
             new == [row EXCEPT !.amount = amount]
  <2>1. IsLine(row)
    BY DEF IsDb
  <2>2. CentralRow(d, m, l, mode, amount) = new
    BY <1>1 DEF CentralRow
  <2>3. /\ IsLine(new) /\ new.move = row.move /\ new.state = row.state
        /\ new.amount = amount /\ KeyOf(new) = KeyOf(row)
    <3> HIDE DEF row
    <3> QED BY <2>1, AmountRow
  <2> QED BY <1>1, <2>2, <2>3
<1>2. CASE d.line[l].move # m
  <2>1. CentralRow(d, m, l, mode, amount) = NewRow(m, KeyOf(d.move[m]), amount, CentralAccount, mode, "valid")
    BY <1>2 DEF CentralRow
  <2>2. KeyOf(d.move[m]) \in SomeKey /\ CentralAccount \in Account
    BY LedgerAssumption, KeysAre
  <2> QED BY <1>2, <2>1, <2>2, NewRowIsLine
<1> QED BY <1>1, <1>2

\* The lines centralisation writes are its own of the move, or free.
LEMMA CentralLines ==
    ASSUME NEW d, NEW m \in Move, MayCentralise(d, m)
    PROVE  /\ DebitLine(d, m) \in Line /\ d.line[DebitLine(d, m)].move \in {m, None}
           /\ CreditLine(d, m) \in Line /\ d.line[CreditLine(d, m)].move \in {m, None}
           /\ DebitLine(d, m) # CreditLine(d, m)
           /\ \A x \in {DebitLine(d, m), CreditLine(d, m)} :
                 d.line[x].move = m => x \in Central(d, m, "debit") \cup Central(d, m, "credit")
<1> DEFINE c == DebitLine(d, m)
           k == CreditLine(d, m)
<1>0. m # None
  BY LedgerAssumption
<1>1. Central(d, m, "debit") = {} \/ Central(d, m, "credit") = {} =>
          \E x \in Free(d) : \E y \in Free(d) : x # y
  BY DEF MayCentralise
<1>2. /\ \A mode : \A x \in Central(d, m, mode) :
            x \in Line /\ d.line[x].move = m /\ d.line[x].central = mode
      /\ \A x \in Free(d) : x \in Line /\ d.line[x].move = None
  BY DEF Central, Free, LinesOf
<1>3. \A S : S # {} => Some(S) \in S
  BY DEF Some
<1>4. \/ c \in Central(d, m, "debit")
      \/ Central(d, m, "debit") = {} /\ c \in Free(d)
  <2>1. CASE Central(d, m, "debit") # {}
    BY <1>3, <2>1 DEF DebitLine
  <2>2. CASE Central(d, m, "debit") = {}
    <3>1. Free(d) # {}
      BY <1>1, <2>2
    <3> QED BY <1>3, <2>2, <3>1 DEF DebitLine
  <2> QED BY <2>1, <2>2
<1>5. k \in Central(d, m, "credit") \/ k \in Free(d) \ {c}
  <2>1. CASE Central(d, m, "credit") # {}
    BY <1>3, <2>1 DEF CreditLine
  <2>2. CASE Central(d, m, "credit") = {}
    <3>1. Free(d) \ {c} # {}
      BY <1>1, <2>2
    <3> QED BY <1>3, <2>2, <3>1 DEF CreditLine
  <2> QED BY <2>1, <2>2
<1> HIDE DEF c, k
<1>6. c \in Line /\ k \in Line /\ d.line[c].move \in {m, None} /\ d.line[k].move \in {m, None}
  BY <1>2, <1>4, <1>5
<1>7. c # k
  BY <1>0, <1>2, <1>4, <1>5
<1>8. \A x \in {c, k} :
          d.line[x].move = m => x \in Central(d, m, "debit") \cup Central(d, m, "credit")
  BY <1>0, <1>2, <1>4, <1>5
<1> QED BY <1>6, <1>7, <1>8 DEF c, k

\* The sum of lines is an integer.
LEMMA SumIsInt ==
    ASSUME NEW d, IsDb(d), NEW ids \in SUBSET Line
    PROVE  Sum(d, ids) \in Int
<1> DEFINE f == [l \in Line |-> d.line[l].amount]
<1>1. \A l \in ids : f[l] \in Int
  BY DEF IsDb, IsLine, LineRow
<1>2. IsFiniteSet(ids)
  BY LedgerAssumption, FS_Subset
<1> HIDE DEF f
<1>3. SumFunctionOnSet(f, ids) \in Int
  BY <1>1, <1>2, SumInt
<1> QED BY <1>3 DEF Sum, f

\* Centralise leaves every line of its move valid, and the others alone.
LEMMA CentraliseIsDb ==
    ASSUME NEW d, IsDb(d), NEW m \in Move, MayCentralise(d, m)
    PROVE  /\ IsDb(Centralise(d, m))
           /\ Centralise(d, m).move = d.move
           /\ OnlyOf(d, Centralise(d, m), m)
           /\ \A x \in Line : Centralise(d, m).line[x].move = m =>
                 /\ Centralise(d, m).line[x].state = "valid"
                 /\ KeyOf(Centralise(d, m).line[x]) =
                       IF d.line[x].move = m THEN KeyOf(d.line[x]) ELSE KeyOf(d.move[m])
           /\ \A x \in Line : Centralise(d, m).line[x].amount =
                 CASE x = DebitLine(d, m) -> Totals(d, m).debit
                   [] x = CreditLine(d, m) -> Totals(d, m).credit
                   [] OTHER -> d.line[x].amount
           /\ \A x \in Line : Centralise(d, m).line[x].move = m <=>
                 d.line[x].move = m \/ x \in {DebitLine(d, m), CreditLine(d, m)}
           /\ Totals(d, m).debit \in Int /\ Totals(d, m).credit \in Int
           /\ \A x \in Line : x \notin Drafts(d, m) \cup {DebitLine(d, m), CreditLine(d, m)} =>
                 Centralise(d, m).line[x] = d.line[x]
<1> DEFINE c == DebitLine(d, m)
           k == CreditLine(d, m)
           cr == CentralRow(d, m, c, "debit", Totals(d, m).debit)
           kr == CentralRow(d, m, k, "credit", Totals(d, m).credit)
           e == Put(Put(d, c, cr), k, kr)
           o == Open(e, Keys(e, Drafts(d, m) \cup ({c, k} \ LinesOf(d, m))))
           rows == [x \in Line |-> IF x \in Drafts(d, m)
                                   THEN [e.line[x] EXCEPT !.state = "valid"] ELSE e.line[x]]
<1>1. Centralise(d, m) = [o EXCEPT !.line = rows]
  BY DEF Centralise
<1>2. /\ c \in Line /\ d.line[c].move \in {m, None}
      /\ k \in Line /\ d.line[k].move \in {m, None}
      /\ c # k
  BY CentralLines
<1>0. Totals(d, m).debit \in Int /\ Totals(d, m).credit \in Int
  <2> DEFINE others == LinesOf(d, m) \ {c, k}
             debits == {l \in others : d.line[l].amount > 0}
  <2>1. debits \in SUBSET Line /\ others \ debits \in SUBSET Line
    BY DEF LinesOf
  <2>2. /\ Totals(d, m).debit = -Sum(d, debits)
        /\ Totals(d, m).credit = -Sum(d, others \ debits)
    BY DEF Totals
  <2> HIDE DEF others, debits
  <2> QED BY <2>1, <2>2, SumIsInt
<1>3. /\ IsLine(cr) /\ cr.move = m
      /\ cr.state = IF d.line[c].move = m THEN d.line[c].state ELSE "valid"
      /\ KeyOf(cr) = IF d.line[c].move = m THEN KeyOf(d.line[c]) ELSE KeyOf(d.move[m])
      /\ cr.amount = Totals(d, m).debit
      /\ IsLine(kr) /\ kr.move = m
      /\ kr.state = IF d.line[k].move = m THEN d.line[k].state ELSE "valid"
      /\ KeyOf(kr) = IF d.line[k].move = m THEN KeyOf(d.line[k]) ELSE KeyOf(d.move[m])
      /\ kr.amount = Totals(d, m).credit
  <2> HIDE DEF c, k
  <2> QED BY <1>0, <1>2, CentralRowIsLine
<1> HIDE DEF c, k, cr, kr
<1>4. /\ IsDb(e) /\ e.move = d.move
      /\ \A x \in Line : e.line[x] = IF x = k THEN kr ELSE IF x = c THEN cr ELSE d.line[x]
  BY <1>3, PutIsDb
<1> HIDE DEF e
<1>5. IsDb(o) /\ o.move = d.move
  BY <1>4, OpenIsDb
<1>6. \A x \in Line :
          /\ IsLine(rows[x])
          /\ rows[x].move = e.line[x].move
          /\ rows[x].amount = e.line[x].amount
          /\ KeyOf(rows[x]) = KeyOf(e.line[x])
          /\ x \in Drafts(d, m) => rows[x].state = "valid"
          /\ x \notin Drafts(d, m) => rows[x] = e.line[x]
  <2> TAKE x \in Line
  <2> DEFINE row == e.line[x]
             new == [row EXCEPT !.state = "valid"]
  <2>1. IsLine(row)
    BY <1>4 DEF IsDb
  <2>2. rows[x] = IF x \in Drafts(d, m) THEN new ELSE row
    OBVIOUS
  <2>3. /\ IsLine(new) /\ new.state = "valid" /\ new.move = row.move
        /\ new.amount = row.amount /\ KeyOf(new) = KeyOf(row)
    <3> HIDE DEF row
    <3> QED BY <2>1, ValidRow
  <2> HIDE DEF rows, new
  <2> QED BY <2>1, <2>2, <2>3
<1>7. rows = [x \in Line |-> rows[x]]
  OBVIOUS
<1> HIDE DEF o, rows
<1>8. /\ IsDb(Centralise(d, m)) /\ Centralise(d, m).move = d.move
      /\ Centralise(d, m).line = rows
  BY <1>1, <1>5, <1>6, <1>7, LinesIsDb
<1>9. \A x \in Line : x \in Drafts(d, m) <=> d.line[x].move = m /\ d.line[x].state = "draft"
  BY DEF Drafts, LinesOf
<1>10. OnlyOf(d, Centralise(d, m), m)
  <2> SUFFICES ASSUME NEW x \in Line
               PROVE  /\ d.line[x].move \notin {None, m} => rows[x] = d.line[x]
                      /\ rows[x].move # d.line[x].move => d.line[x].move = None /\ rows[x].move = m
    BY <1>8 DEF OnlyOf
  <2>1. CASE x \in {c, k}
    <3>1. d.line[x].move \in {m, None}
      BY <1>2, <2>1
    <3>2. rows[x].move = m
      BY <1>3, <1>4, <1>6, <2>1
    <3> QED BY <3>1, <3>2
  <2>2. CASE x \notin {c, k}
    BY <1>4, <1>6, <1>9, <2>2
  <2> QED BY <2>1, <2>2
<1>11. ASSUME NEW x \in Line, rows[x].move = m PROVE rows[x].state = "valid"
  <2>1. CASE x \in Drafts(d, m)
    BY <1>6, <2>1
  <2>2. CASE x \notin Drafts(d, m) /\ d.line[x].move = m
    <3>1. d.line[x].state = "valid"
      BY <1>9, <2>2 DEF IsDb, IsLine, LineRow
    <3>2. e.line[x].state = d.line[x].state
      BY <1>3, <1>4, <2>2
    <3> QED BY <1>6, <2>2, <3>1, <3>2
  <2>3. CASE d.line[x].move # m
    <3>1. x \in {c, k}
      BY <1>4, <1>6, <1>11, <2>3
    <3>2. e.line[x].state = "valid"
      BY <1>3, <1>4, <2>3, <3>1
    <3> QED BY <1>6, <1>9, <2>3, <3>2
  <2> QED BY <2>1, <2>2, <2>3
<1>12. \A x \in Line : rows[x].move = m <=> d.line[x].move = m \/ x \in {c, k}
  BY <1>3, <1>4, <1>6
<1>13. ASSUME NEW x \in Line, rows[x].move = m
       PROVE  KeyOf(rows[x]) = IF d.line[x].move = m THEN KeyOf(d.line[x]) ELSE KeyOf(d.move[m])
  <2>1. CASE x \in {c, k}
    BY <1>3, <1>4, <1>6, <2>1
  <2>2. CASE x \notin {c, k}
    BY <1>4, <1>6, <1>12, <1>13, <2>2
  <2> QED BY <2>1, <2>2
<1>14. \A x \in Line : rows[x].amount = CASE x = c -> Totals(d, m).debit
                                         [] x = k -> Totals(d, m).credit
                                         [] OTHER -> d.line[x].amount
  BY <1>2, <1>3, <1>4, <1>6
<1>15. \A x \in Line : x \notin Drafts(d, m) \cup {c, k} => rows[x] = d.line[x]
  BY <1>4, <1>6
<1> QED BY <1>0, <1>8, <1>10, <1>11, <1>12, <1>13, <1>14, <1>15 DEF c, k

\* The two lines of centralisation bring the sum of the move to zero.
LEMMA CentraliseBalanced ==
    ASSUME NEW d, IsDb(d), NEW m \in Move, MayCentralise(d, m)
    PROVE  Balanced(Centralise(d, m), m)
<1> DEFINE e == Centralise(d, m)
           c == DebitLine(d, m)
           k == CreditLine(d, m)
           f == [l \in Line |-> d.line[l].amount]
           g == [l \in Line |-> e.line[l].amount]
           others == LinesOf(d, m) \ {c, k}
           debits == {l \in others : d.line[l].amount > 0}
           rest == others \ debits
           L == LinesOf(e, m)
<1>1. /\ IsDb(e) /\ c \in Line /\ k \in Line /\ c # k
      /\ \A x \in Line : e.line[x].amount =
            CASE x = c -> Totals(d, m).debit [] x = k -> Totals(d, m).credit
              [] OTHER -> d.line[x].amount
      /\ \A x \in Line : e.line[x].move = m <=> d.line[x].move = m \/ x \in {c, k}
  BY CentraliseIsDb, CentralLines
<1>2. Totals(d, m).debit = -Sum(d, debits) /\ Totals(d, m).credit = -Sum(d, rest)
  BY DEF Totals
<1> HIDE DEF c, k, e
<1>3. L = others \cup {c, k} /\ others \in SUBSET Line /\ L \in SUBSET Line
  BY <1>1 DEF LinesOf
<1>4. /\ debits \in SUBSET Line /\ rest \in SUBSET Line
      /\ debits \cap rest = {} /\ debits \cup rest = others
  BY <1>3
<1>5. c \notin others /\ k \notin others
  OBVIOUS
<1> HIDE DEF debits, rest, others, L
<1>6. g[c] = -Sum(d, debits) /\ g[k] = -Sum(d, rest) /\ \A l \in others : g[l] = f[l]
  BY <1>1, <1>2, <1>3, <1>5
<1>7. (\A l \in Line : f[l] \in Int) /\ (\A l \in Line : g[l] \in Int)
  BY <1>1 DEF IsDb, IsLine, LineRow
<1>8. \A ids : Sum(d, ids) = SumFunctionOnSet(f, ids) /\ Sum(e, ids) = SumFunctionOnSet(g, ids)
  BY DEF Sum
<1> HIDE DEF f, g
<1>9. Sum(e, others) = Sum(d, others)
  <2>1. IsFiniteSet(others)
    BY <1>3, LedgerAssumption, FS_Subset
  <2> QED BY <2>1, <1>6, <1>8, SumEqual
<1>10. Sum(d, others) = Sum(d, debits) + Sum(d, rest)
  BY <1>4, <1>7, <1>8, LedgerAssumption, SumUnion
<1>11. Sum(e, L) = g[c] + Sum(e, L \ {c})
  <2>1. IsFiniteSet(L) /\ c \in L /\ \A l \in L : g[l] \in Int
    BY <1>3, <1>7, LedgerAssumption, FS_Subset
  <2> QED BY <2>1, <1>8, SumRemove
<1>12. Sum(e, L \ {c}) = g[k] + Sum(e, others)
  <2>1. IsFiniteSet(L \ {c}) /\ k \in L \ {c} /\ \A l \in L \ {c} : g[l] \in Int
    BY <1>1, <1>3, <1>7, LedgerAssumption, FS_Subset
  <2>2. (L \ {c}) \ {k} = others
    BY <1>3, <1>5
  <2>3. SumFunctionOnSet(g, L \ {c}) = g[k] + SumFunctionOnSet(g, (L \ {c}) \ {k})
    BY <2>1, SumRemove
  <2> QED BY <2>2, <2>3, <1>8
<1>13. Sum(d, debits) \in Int /\ Sum(d, rest) \in Int
  BY <1>4, SumIsInt
<1>14. Sum(e, L) = 0
  BY <1>6, <1>9, <1>10, <1>11, <1>12, <1>13
<1> QED BY <1>14 DEF Balanced, L, e

\* What holds of a move of its lines alone: it stays when they stay.
LEMMA SameEven ==
    ASSUME NEW d, NEW e, IsDb(d), NEW m,
           \A l \in Line :
              /\ e.line[l].move = m <=> d.line[l].move = m
              /\ d.line[l].move = m =>
                    e.line[l].amount = d.line[l].amount /\ e.line[l].state = d.line[l].state
    PROVE  Even(d, m) => Even(e, m)
<1> DEFINE f == [l \in Line |-> d.line[l].amount]
           g == [l \in Line |-> e.line[l].amount]
           L == LinesOf(d, m)
<1>1. LinesOf(e, m) = L /\ L \in SUBSET Line /\ \A l \in L : d.line[l].move = m
  BY DEF LinesOf
<1>2. Balanced(d, m) <=> Balanced(e, m)
  <2>1. IsFiniteSet(L) /\ \A l \in L : f[l] = g[l]
    BY <1>1, LedgerAssumption, FS_Subset
  <2> HIDE DEF f, g, L
  <2>2. SumFunctionOnSet(f, L) = SumFunctionOnSet(g, L)
    BY <2>1, SumEqual
  <2> QED BY <1>1, <2>2 DEF Balanced, Sum, f, g, L
<1>3. \A l \in L : e.line[l].state = d.line[l].state
  BY <1>1
<1> QED BY <1>1, <1>2, <1>3 DEF Even

-----------------------------------------------------------------------------
(* Validation                                                              *)

\* What goes through validate leaves the lines of the move valid, or draft in
\* a move that may have draft lines; if the move is fine they are valid.
LEMMA ValidateOk ==
    ASSUME NEW d, IsDb(d), NEW m \in Move, Validates(d, m)
    PROVE  /\ IsDb(Validate(d, m))
           /\ Validate(d, m).move = d.move
           /\ OnlyOf(d, Validate(d, m), m)
           /\ \A x \in Line : Validate(d, m).line[x].move = m =>
                 \/ Validate(d, m).line[x].state = "valid"
                 \/ ~Fine(d, m) /\ Loose(Validate(d, m), x)
           /\ Drafts(d, m) # {} => d.move[m].state = "draft"
<1>1. /\ Drafts(d, m) = {x \in Line : d.line[x].move = m /\ d.line[x].state = "draft"}
      /\ LinesOf(d, m) = {x \in Line : d.line[x].move = m}
  BY DEF Drafts, LinesOf
<1>2. \A x \in Line : d.line[x].state \in {"draft", "valid"}
  BY RowOf
<1>3. CASE Balanced(d, m)
  <2> DEFINE e == Restate(d, m, Drafts(d, m), "valid")
  <2>1. Validate(d, m) = e /\ UpdateCheck(d, Drafts(d, m))
    BY <1>3 DEF Validate, Validates
  <2>2. /\ IsDb(e) /\ e.move = d.move
        /\ \A x \in Line : x \notin Drafts(d, m) => e.line[x] = d.line[x]
        /\ \A x \in Line : x \in Drafts(d, m) =>
              e.line[x].state = "valid" /\ e.line[x].move = d.line[x].move
    BY RestateIsDb
  <2> HIDE DEF e
  <2>3. OnlyOf(d, e, m)
    BY <1>1, <2>2 DEF OnlyOf
  <2>4. \A x \in Line : e.line[x].move = m => e.line[x].state = "valid"
    BY <1>1, <1>2, <2>2
  <2>5. Drafts(d, m) # {} => d.move[m].state = "draft"
    BY <1>1, <2>1 DEF UpdateCheck
  <2> QED BY <2>1, <2>2, <2>3, <2>4, <2>5
<1>4. CASE ~Balanced(d, m) /\ d.move[m].journal \in Centralised
  <2>1. Validate(d, m) = Centralise(d, m) /\ MayCentralise(d, m)
    BY <1>4 DEF Validate, Validates
  <2>2. Drafts(d, m) # {} => d.move[m].state = "draft"
    BY <1>1, <2>1 DEF MayCentralise, UpdateCheck
  <2> QED BY <2>1, <2>2, CentraliseIsDb
<1>5. CASE ~Balanced(d, m) /\ d.move[m].journal \notin Centralised
  <2> DEFINE e == Restate(d, m, LinesOf(d, m), "draft")
  <2>1. /\ Validate(d, m) = e /\ UpdateCheck(d, LinesOf(d, m)) /\ ~Fine(d, m)
    BY <1>5 DEF Validate, Validates, Fine
  <2>2. /\ IsDb(e) /\ e.move = d.move
        /\ \A x \in Line : x \notin LinesOf(d, m) => e.line[x] = d.line[x]
        /\ \A x \in Line : x \in LinesOf(d, m) =>
              /\ e.line[x].state = "draft" /\ e.line[x].move = d.line[x].move
              /\ e.line[x].rec = d.line[x].rec
    BY RestateIsDb
  <2> HIDE DEF e
  <2>3. OnlyOf(d, e, m)
    BY <1>1, <2>2 DEF OnlyOf
  <2>4. \A x \in LinesOf(d, m) : d.move[m].state = "draft" /\ d.line[x].rec = None
    BY <1>1, <2>1 DEF UpdateCheck
  <2>5. \A x \in Line : e.line[x].move = m => Loose(e, x)
    <3> SUFFICES ASSUME NEW x \in Line, e.line[x].move = m PROVE Loose(e, x)
      OBVIOUS
    <3>1. x \in LinesOf(d, m)
      BY <1>1, <2>2
    <3> QED BY <2>2, <2>4, <3>1 DEF Loose
  <2>6. Drafts(d, m) # {} => d.move[m].state = "draft"
    BY <1>1, <2>4
  <2> QED BY <2>1, <2>2, <2>3, <2>5, <2>6
<1> QED BY <1>3, <1>4, <1>5

\* A validated move is draft, or valid and balanced.
LEMMA ValidateEven ==
    ASSUME NEW d, IsDb(d), NEW m \in Move, Validates(d, m)
    PROVE  Even(Validate(d, m), m)
<1> DEFINE e == Validate(d, m)
<1>1. /\ Drafts(d, m) = {x \in Line : d.line[x].move = m /\ d.line[x].state = "draft"}
      /\ LinesOf(d, m) = {x \in Line : d.line[x].move = m}
      /\ LinesOf(e, m) = {x \in Line : e.line[x].move = m}
  BY DEF Drafts, LinesOf
<1>2. \A x \in Line : d.line[x].state \in {"draft", "valid"}
  BY RowOf
<1>3. CASE Balanced(d, m)
  <2>1. e = Restate(d, m, Drafts(d, m), "valid")
    BY <1>3 DEF Validate
  <2> HIDE DEF e
  <2>2. \A x \in Line :
            /\ x \notin Drafts(d, m) => e.line[x] = d.line[x]
            /\ x \in Drafts(d, m) =>
                  /\ e.line[x].state = "valid" /\ e.line[x].move = d.line[x].move
                  /\ e.line[x].amount = d.line[x].amount
    BY <2>1, RestateIsDb
  <2>3. LinesOf(e, m) = LinesOf(d, m)
    BY <1>1, <2>2
  <2>4. \A l \in LinesOf(d, m) : e.line[l].amount = d.line[l].amount
    BY <1>1, <2>2
  <2>5. Balanced(e, m)
    <3> DEFINE f == [l \in Line |-> d.line[l].amount]
               g == [l \in Line |-> e.line[l].amount]
    <3>1. IsFiniteSet(LinesOf(d, m)) /\ \A l \in LinesOf(d, m) : f[l] = g[l]
      BY <1>1, <2>4, LedgerAssumption, FS_Subset
    <3> HIDE DEF f, g
    <3>2. SumFunctionOnSet(f, LinesOf(d, m)) = SumFunctionOnSet(g, LinesOf(d, m))
      BY <3>1, SumEqual
    <3> QED BY <1>3, <2>3, <3>2 DEF Balanced, Sum, f, g
  <2>6. \A x \in LinesOf(e, m) : e.line[x].state = "valid"
    BY <1>1, <1>2, <2>2
  <2> QED BY <2>5, <2>6 DEF Even, e
<1>4. CASE ~Balanced(d, m) /\ d.move[m].journal \in Centralised
  <2>1. e = Centralise(d, m) /\ MayCentralise(d, m)
    BY <1>4 DEF Validate, Validates
  <2> HIDE DEF e
  <2>2. Balanced(e, m) /\ \A x \in LinesOf(e, m) : e.line[x].state = "valid"
    BY <1>1, <2>1, CentraliseIsDb, CentraliseBalanced
  <2> QED BY <2>2 DEF Even, e
<1>5. CASE ~Balanced(d, m) /\ d.move[m].journal \notin Centralised
  <2>1. e = Restate(d, m, LinesOf(d, m), "draft")
    BY <1>5 DEF Validate
  <2> HIDE DEF e
  <2>2. \A x \in Line :
            /\ x \notin LinesOf(d, m) => e.line[x] = d.line[x]
            /\ x \in LinesOf(d, m) => e.line[x].state = "draft"
    BY <2>1, RestateIsDb
  <2>3. \A x \in LinesOf(e, m) : e.line[x].state = "draft"
    BY <1>1, <2>2
  <2> QED BY <2>3 DEF Even, e
<1> QED BY <1>3, <1>4, <1>5

\* Validation gives lines no other journal and period than that of their move.
LEMMA ValidateKeyed ==
    ASSUME NEW d, IsDb(d), Keyed(d), NEW m \in Move, d.move[m].state # "none", Validates(d, m)
    PROVE  Keyed(Validate(d, m))
<1> DEFINE e == Validate(d, m)
<1>1. e.move = d.move /\ OnlyOf(d, e, m) /\ m # None
  BY ValidateOk, LedgerAssumption
<1>2. KeyOf(d.move[m]) \in Key /\ \A x \in Line : d.line[x].move = m => KeyOf(d.line[x]) \in Key
  BY <1>1 DEF Keyed
<1>3. ASSUME NEW x \in Line, e.line[x].move = m PROVE KeyOf(e.line[x]) \in Key
  <2>1. CASE Balanced(d, m) \/ d.move[m].journal \notin Centralised
    <3>1. PICK ids \in {Drafts(d, m), LinesOf(d, m)}, st \in {"draft", "valid"} :
             e = Restate(d, m, ids, st)
      BY <2>1 DEF Validate
    <3>2. /\ x \notin ids => e.line[x] = d.line[x]
          /\ x \in ids => KeyOf(e.line[x]) = KeyOf(d.move[m])
      BY <3>1, RestateIsDb
    <3> HIDE DEF e
    <3> QED BY <1>2, <1>3, <3>2
  <2>2. CASE ~Balanced(d, m) /\ d.move[m].journal \in Centralised
    <3>1. e = Centralise(d, m) /\ MayCentralise(d, m)
      BY <2>2 DEF Validate, Validates
    <3> HIDE DEF e
    <3>2. KeyOf(e.line[x]) = IF d.line[x].move = m THEN KeyOf(d.line[x]) ELSE KeyOf(d.move[m])
      BY <1>3, <3>1, CentraliseIsDb
    <3> QED BY <1>2, <3>2
  <2> QED BY <2>1, <2>2
<1> HIDE DEF e
<1>4. ASSUME NEW x \in Line, e.line[x].move # None
      PROVE  KeyOf(e.line[x]) \in Key /\ e.move[e.line[x].move].state # "none"
  <2>1. CASE e.line[x].move = m
    BY <1>1, <1>3, <2>1
  <2>2. CASE e.line[x].move # m
    <3>1. e.line[x] = d.line[x]
      BY <1>1, <1>4, <2>2 DEF OnlyOf
    <3> QED BY <1>1, <1>4, <3>1 DEF Keyed
  <2> QED BY <2>1, <2>2
<1>5. Keyed(e)
  BY <1>1, <1>4 DEF Keyed
<1> QED BY <1>5 DEF e

\* Saving a move keeps what holds of the lines of the others.
LEMMA ValidateFixed ==
    ASSUME NEW d, IsDb(d), NEW m \in Move, Validates(d, m), FixedBut(d, m)
    PROVE  IsDb(Validate(d, m)) /\ FixedBut(Validate(d, m), None)
<1> DEFINE e == Validate(d, m)
<1>1. /\ IsDb(e) /\ e.move = d.move /\ OnlyOf(d, e, m)
      /\ \A x \in Line : e.line[x].move = m => e.line[x].state = "valid" \/ Loose(e, x)
  BY ValidateOk
<1> HIDE DEF e
<1>2. FixedBut(e, None)
  <2> SUFFICES ASSUME NEW x \in Line, e.line[x].move # None
               PROVE  e.line[x].state = "valid" \/ Loose(e, x)
    BY DEF FixedBut
  <2>1. CASE e.line[x].move = m
    BY <1>1, <2>1
  <2>2. CASE e.line[x].move # m
    <3>1. d.line[x].move \notin {None, m} /\ e.line[x] = d.line[x]
      BY <1>1, <2>2 DEF OnlyOf
    <3> QED BY <1>1, <3>1 DEF FixedBut, Loose
  <2> QED BY <2>1, <2>2
<1> QED BY <1>1, <1>2 DEF e

-----------------------------------------------------------------------------
(* Steps                                                                   *)

\* What a step leaves of a move: its lines, but for their reconciliations.
Kept(m) ==
    \A l \in Line :
        /\ line'[l].move = m <=> line[l].move = m
        /\ line[l].move = m =>
              /\ line'[l].amount = line[l].amount /\ line'[l].account = line[l].account
              /\ line'[l].state = line[l].state /\ line'[l].journal = line[l].journal
              /\ line'[l].period = line[l].period

\* What ClosedKept lets a step do to a settled move.
Excused(m) == (\A l \in ByHand(m) : line'[l] = line[l]) /\ Intruded(m)

\* A step keeps the invariant, posted moves, and settled moves.
StepOk ==
    /\ IInv'
    /\ \A m \in Move : Kept(m) \/ (move[m].state # "posted" /\ (Settled(m) => Excused(m)))

\* What is written becomes the tables.
LEMMA Committed ==
    ASSUME NEW d, IsDb(d), Keyed(d), FixedBut(d, None), \A m \in Move : Even(d, m), Commit(d)
    PROVE  IInv'
<1>1. Db' = d
  BY DEF Db, IsDb, Commit
<1>2. IsDb(Db)' /\ Keyed(Db)' /\ FixedBut(Db, None)'
  BY <1>1 DEF IsDb, IsLine, Keyed, KeyOf, FixedBut, Loose
<1>3. ASSUME NEW m \in Move PROVE Even(Db, m)'
  <2>1. Even(d, m)
    OBVIOUS
  <2> QED BY <1>1, <2>1 DEF Even, Balanced, LinesOf, Sum
<1> QED BY <1>2, <1>3 DEF IInv

\* The tables as the variables.
LEMMA DbIs == Db.move = move /\ Db.line = line /\ Db.jp = jp
  BY DEF Db

\* Kept(m) keeps Rows(m).
LEMMA KeptRows ==
    ASSUME NEW m \in Move, Kept(m)
    PROVE  Rows(m)' = Rows(m)
<1>1. /\ LinesOf(Db, m) = {l \in Line : line[l].move = m}
      /\ LinesOf(Db, m)' = {l \in Line : line'[l].move = m}
  BY DEF LinesOf, Db
<1>2. LinesOf(Db, m)' = LinesOf(Db, m)
  BY <1>1 DEF Kept
<1>3. \A l \in LinesOf(Db, m) :
          <<line'[l].amount, line'[l].account, line'[l].state, <<line'[l].journal, line'[l].period>> >>
            = <<line[l].amount, line[l].account, line[l].state, <<line[l].journal, line[l].period>> >>
  BY <1>1 DEF Kept
<1> QED BY <1>2, <1>3 DEF Rows, Says, KeyOf

\* A row that stands for none.
LEMMA NoRows ==
    /\ NoMove \in MoveRow /\ NoMove.state = "none"
    /\ IsLine(NoLine) /\ NoLine.move = None
  BY LedgerAssumption DEF NoMove, NoLine, MoveRow, IsLine, LineRow

\* A move is as even as before if its lines are the same.
LEMMA SameRows ==
    ASSUME NEW d, NEW e, IsDb(d), NEW m,
           \A l \in Line : /\ e.line[l].move = m <=> d.line[l].move = m
                           /\ d.line[l].move = m => e.line[l] = d.line[l]
    PROVE  Even(d, m) => Even(e, m)
  BY SameEven

\* Changing a row of account_move.
LEMMA MovesIsDb ==
    ASSUME NEW d, IsDb(d), NEW moves \in [Move -> MoveRow]
    PROVE  /\ IsDb([d EXCEPT !.move = moves])
           /\ [d EXCEPT !.move = moves].move = moves
           /\ [d EXCEPT !.move = moves].line = d.line
<1> DEFINE e == [d EXCEPT !.move = moves]
<1>1. e = [move |-> moves, line |-> d.line, jp |-> d.jp]
  BY DEF IsDb
<1>2. e.move = moves /\ e.line = d.line /\ e.jp = d.jp /\ e = [move |-> e.move, line |-> e.line, jp |-> e.jp]
  BY <1>1
<1> HIDE DEF e
<1>3. IsDb(e)
  BY <1>2 DEF IsDb
<1> QED BY <1>2, <1>3 DEF e

\* A change that ends in the validation of move n.
LEMMA SaveStep ==
    ASSUME IInv, NEW d, IsDb(d), NEW n \in Move, Save(d, n), FixedBut(d, n),
           Keyed(d), d.move[n].state # "none", \A m \in Move \ {n} : Even(d, m)
    PROVE  /\ IInv'
           /\ \A m \in Move \ {n} :
                 (\A l \in Line : /\ d.line[l].move = m <=> line[l].move = m
                                  /\ line[l].move = m => d.line[l] = line[l]) => Kept(m)
           /\ Drafts(d, n) # {} => d.move[n].state = "draft"
<1> DEFINE e == Validate(d, n)
<1>1. /\ IsDb(e) /\ e.move = d.move /\ OnlyOf(d, e, n) /\ FixedBut(e, None)
      /\ Drafts(d, n) # {} => d.move[n].state = "draft"
      /\ Keyed(e) /\ Even(e, n)
  BY ValidateOk, ValidateFixed, ValidateKeyed, ValidateEven DEF Save
<1>2. Commit(e)
  BY DEF Save
<1> HIDE DEF e
<1>5. ASSUME NEW m \in Move \ {n} PROVE Even(e, m)
  <2>1. m # None /\ Even(d, m)
    BY LedgerAssumption
  <2>2. \A l \in Line : /\ e.line[l].move = m <=> d.line[l].move = m
                        /\ d.line[l].move = m => e.line[l] = d.line[l]
    BY <1>1, <2>1 DEF OnlyOf
  <2> QED BY <2>1, <2>2, SameRows
<1>3. IInv'
  BY <1>1, <1>2, <1>5, Committed
<1>4. ASSUME NEW m \in Move \ {n},
             \A l \in Line : /\ d.line[l].move = m <=> line[l].move = m
                             /\ line[l].move = m => d.line[l] = line[l]
      PROVE  Kept(m)
  <2>1. line' = e.line /\ m # None
    BY <1>2, LedgerAssumption DEF Commit
  <2>2. \A l \in Line : line[l].move = m => e.line[l] = line[l]
    BY <1>1, <1>4, <2>1 DEF OnlyOf
  <2>3. \A l \in Line : e.line[l].move = m => line[l].move = m
    BY <1>1, <1>4 DEF OnlyOf
  <2> QED BY <2>1, <2>2, <2>3 DEF Kept
<1> QED BY <1>1, <1>3, <1>4

\* No line of a settled move goes through _update_check.
LEMMA SettledChecked ==
    ASSUME NEW n \in Move, Settled(n), NEW d,
           \A y \in Line : line[y].move = n => d.line[y] = line[y],
           d.jp[KeyOf(move[n])] = "done", NEW ids, UpdateCheck(d, ids)
    PROVE  \A y \in Line : line[y].move = n => y \notin ids
<1> SUFFICES ASSUME NEW y \in Line, line[y].move = n, y \in ids PROVE FALSE
  OBVIOUS
<1>1. KeyOf(line[y]) = KeyOf(move[n])
  BY DbIs DEF Settled, LinesOf
<1>2. d.jp[KeyOf(d.line[y])] # "done"
  BY DEF UpdateCheck
<1> QED BY <1>1, <1>2

\* Validation of a settled move that has no other lines changes none of them.
LEMMA SettledStays ==
    ASSUME IInv, NEW n \in Move, Settled(n), NEW d, IsDb(d), d.line = line, d.jp = jp,
           d.move[n].journal = move[n].journal, Validates(d, n)
    PROVE  \A l \in Line : Validate(d, n).line[l] = line[l]
<1>1. /\ LinesOf(d, n) = {x \in Line : line[x].move = n}
      /\ LinesOf(Db, n) = {x \in Line : line[x].move = n}
      /\ Drafts(d, n) \subseteq LinesOf(d, n)
  BY DbIs DEF LinesOf, Drafts
<1>2. Balanced(d, n) <=> Balanced(Db, n)
  BY <1>1, DbIs DEF Balanced, Sum
<1>3. /\ Balanced(d, n) \/ d.move[n].journal \notin Centralised
      /\ LinesOf(d, n) # {} /\ d.jp[KeyOf(move[n])] = "done"
  BY <1>1, <1>2 DEF Settled
<1>4. \A ids \in SUBSET LinesOf(d, n) : UpdateCheck(d, ids) => ids = {}
  BY <1>1, <1>3, SettledChecked
<1>5. Balanced(d, n) /\ Drafts(d, n) = {}
  BY <1>1, <1>3, <1>4 DEF Validates
<1>6. Validate(d, n) = Restate(d, n, {}, "valid")
  BY <1>5 DEF Validate
<1> QED BY <1>6, RestateIsDb

\* What is saved with lines that came into a settled move leaves those that
\* were entered in it.
LEMMA SettledSave ==
    ASSUME NEW n \in Move, Settled(n), NEW d, IsDb(d), Save(d, n),
           \A y \in Line : line[y].move = n => d.line[y] = line[y],
           d.jp[KeyOf(move[n])] = "done"
    PROVE  \A l \in ByHand(n) : line'[l] = line[l]
<1> SUFFICES ASSUME NEW l \in ByHand(n) PROVE line'[l] = line[l]
  OBVIOUS
<1>1. /\ l \in Line /\ line[l].move = n /\ d.line[l] = line[l]
      /\ line[l].central \notin {"debit", "credit"}
  BY DbIs DEF ByHand, Central, LinesOf
<1>2. line' = Validate(d, n).line /\ Validates(d, n)
  BY DEF Save, Commit
<1>3. \A ids : UpdateCheck(d, ids) => l \notin ids
  BY <1>1, SettledChecked
<1>4. l \in LinesOf(d, n)
  BY <1>1 DEF LinesOf
<1>5. CASE Balanced(d, n)
  <2>1. Validate(d, n) = Restate(d, n, Drafts(d, n), "valid") /\ l \notin Drafts(d, n)
    BY <1>2, <1>3, <1>5 DEF Validate, Validates
  <2> QED BY <1>1, <1>2, <2>1, RestateIsDb
<1>6. CASE ~Balanced(d, n) /\ d.move[n].journal \in Centralised
  <2>1. /\ Validate(d, n) = Centralise(d, n) /\ MayCentralise(d, n)
        /\ l \notin Drafts(d, n)
    BY <1>2, <1>3, <1>6 DEF Validate, Validates, MayCentralise
  <2>2. l \notin Central(d, n, "debit") \cup Central(d, n, "credit")
    BY <1>1 DEF Central
  <2>3. l \notin {DebitLine(d, n), CreditLine(d, n)}
    BY <1>1, <2>1, <2>2, CentralLines
  <2> QED BY <1>1, <1>2, <2>1, <2>3, CentraliseIsDb
<1>7. CASE ~Balanced(d, n) /\ d.move[n].journal \notin Centralised
  BY <1>2, <1>3, <1>4, <1>7 DEF Validates
<1> QED BY <1>5, <1>6, <1>7

\* A step that leaves every move its lines.
LEMMA KeptStep ==
    ASSUME line' = line, IInv'
    PROVE  StepOk
  BY DEF StepOk, Kept

\* account.move create.
LEMMA NewMoveOk ==
    ASSUME IInv, NEW m \in Move, NEW j \in Journal, NEW p \in Period, NewMove(m, j, p)
    PROVE  StepOk
<1> DEFINE row == [state |-> "draft", journal |-> j, period |-> p]
           moves == [move EXCEPT ![m] = row]
           d == [Db EXCEPT !.move = moves]
<1>1. move \in [Move -> MoveRow] /\ IsDb(Db)
  BY DbIs DEF IInv, IsDb
<1>2. moves \in [Move -> MoveRow]
  BY <1>1 DEF MoveRow
<1>3. IsDb(d) /\ d.move = moves /\ d.line = line
  BY <1>1, <1>2, DbIs, MovesIsDb
<1>4. d = [Db EXCEPT !.move[m] = row]
  BY DEF Db
<1>5. Commit(d) /\ line' = line
  BY <1>3, <1>4 DEF NewMove, Commit
<1>6. FixedBut(d, None)
  BY <1>1, <1>3, DbIs DEF IInv, FixedBut, Loose
<1>7. Keyed(d)
  <2>1. KeyOf(row) \in Key /\ row.state # "none"
    BY DEF KeyOf, Key
  <2> HIDE DEF row
  <2> QED BY <1>1, <1>3, <2>1, DbIs DEF IInv, Keyed
<1> HIDE DEF d
<1>8. \A x \in Move : Even(d, x)
  BY <1>1, <1>3, DbIs, SameRows DEF IInv
<1> QED BY <1>3, <1>5, <1>6, <1>7, <1>8, Committed, KeptStep

\* account.move write of another period.
LEMMA WriteMovePeriodOk ==
    ASSUME IInv, NEW n \in Move, NEW p \in Period, WriteMovePeriod(n, p)
    PROVE  StepOk
<1> DEFINE moves == [move EXCEPT ![n].period = p]
           d == [Db EXCEPT !.move = moves]
<1>1. move \in [Move -> MoveRow] /\ IsDb(Db)
  BY DbIs DEF IInv, IsDb
<1>2. moves \in [Move -> MoveRow]
  BY <1>1 DEF MoveRow
<1>3. IsDb(d) /\ d.move = moves /\ d.line = line
  BY <1>1, <1>2, DbIs, MovesIsDb
<1>4. d = [Db EXCEPT !.move[n].period = p]
  BY DEF Db
<1>5. Save(d, n) /\ move[n].state # "posted"
  BY <1>4 DEF WriteMovePeriod, Is
<1>6. FixedBut(d, n)
  BY <1>1, <1>3, DbIs DEF IInv, FixedBut, Loose
<1>9. Keyed(d) /\ d.move[n].state # "none"
  <2>1. move[n].state = "draft" /\ KeyOf(move[n]) \in Key
    BY DbIs DEF WriteMovePeriod, Is, IInv, Keyed
  <2>2. moves[n].state = "draft" /\ KeyOf(moves[n]) \in Key
    BY <1>1, <2>1 DEF KeyOf, Key, MoveRow
  <2>3. \A x \in Move : moves[x] # move[x] => x = n
    BY <1>1
  <2> HIDE DEF moves, d
  <2>4. \A x \in Move : moves[x].state # "none" <=> move[x].state # "none"
    BY <2>1, <2>2, <2>3
  <2>5. \A l \in Line : line[l].move \in Move \cup {None}
    BY <1>1, DbIs, RowOf
  <2> QED BY <1>3, <2>2, <2>3, <2>4, <2>5, DbIs DEF IInv, Keyed
<1> HIDE DEF d
<1>10. \A x \in Move : Even(d, x)
  BY <1>1, <1>3, DbIs, SameRows DEF IInv
<1>7. IInv' /\ \A m \in Move \ {n} : Kept(m)
  BY <1>3, <1>5, <1>6, <1>9, <1>10, SaveStep
\* A line of a closed period is not restated in the other.
<1>8. CASE Settled(n)
  <2>1. d.jp = jp /\ moves[n].journal = move[n].journal
    BY <1>1, <1>4, DbIs DEF Db, MoveRow
  <2>2. line' = Validate(d, n).line /\ Validates(d, n)
    BY <1>5 DEF Save, Commit
  <2>3. d.move[n].journal = move[n].journal /\ d.line = line /\ IsDb(d)
    BY <1>3, <2>1
  <2>4. \A l \in Line : Validate(d, n).line[l] = line[l]
    BY <1>8, <2>1, <2>2, <2>3, SettledStays
  <2>5. \A l \in Line : line'[l] = line[l]
    BY <2>2, <2>4
  <2>6. Kept(n)
    BY <2>5 DEF Kept
  <2> QED BY <1>7, <2>6 DEF StepOk
<1> QED BY <1>5, <1>7, <1>8 DEF StepOk

\* A move deleted with its lines.
LEMMA DeletedSound ==
    ASSUME NEW c, Sound(c), NEW n \in Move
    PROVE  LET d == Deleted(c, n)
           IN  /\ Sound(d)
               /\ \A x \in Move : d.move[x] = IF x = n THEN NoMove ELSE c.move[x]
               /\ \A l \in Line : d.line[l] = IF c.line[l].move = n THEN NoLine ELSE c.line[l]
<1> DEFINE o == Open(c, Keys(c, LinesOf(c, n)))
           moves == [c.move EXCEPT ![n] = NoMove]
           rows == [l \in Line |-> IF c.line[l].move = n THEN NoLine ELSE c.line[l]]
           om == [o EXCEPT !.move = moves]
           d == [om EXCEPT !.line = rows]
<1>1. c.move \in [Move -> MoveRow] /\ IsDb(c) /\ \A l \in Line : IsLine(c.line[l])
  BY DEF Sound, IsDb
<1>2. moves \in [Move -> MoveRow] /\ \A x \in Move : moves[x] = IF x = n THEN NoMove ELSE c.move[x]
  BY <1>1, NoRows
<1>3. IsDb(o) /\ o.move = c.move
  BY <1>1, OpenIsDb
<1>4. rows = [l \in Line |-> rows[l]] /\ \A l \in Line : IsLine(rows[l])
  BY <1>1, NoRows
<1>5. d = [o EXCEPT !.move[n] = NoMove, !.line = rows]
  <2> HIDE DEF rows
  <2>1. o = [move |-> c.move, line |-> o.line, jp |-> o.jp]
    BY <1>3 DEF IsDb
  <2> HIDE DEF o
  <2> HIDE DEF moves
  <2>2. om = [move |-> moves, line |-> o.line, jp |-> o.jp]
    BY <2>1
  <2> HIDE DEF om
  <2>3. d = [move |-> moves, line |-> rows, jp |-> o.jp]
    BY <2>2
  <2>4. [o EXCEPT !.move[n] = NoMove] = [move |-> moves, line |-> o.line, jp |-> o.jp]
    BY <2>1 DEF moves
  <2>5. [[o EXCEPT !.move[n] = NoMove] EXCEPT !.line = rows] = d
    BY <2>3, <2>4
  <2> QED BY <2>5, Zenon
<1>6. d = Deleted(c, n)
  BY <1>5 DEF Deleted
<1> HIDE DEF o, rows, moves
<1>7. IsDb(om) /\ om.move = moves
  BY <1>2, <1>3, MovesIsDb
<1> HIDE DEF om
<1>8. IsDb(d) /\ d.move = moves /\ d.line = rows
  BY <1>4, <1>7, LinesIsDb
<1>15. \A l \in Line : d.line[l] = IF c.line[l].move = n THEN NoLine ELSE c.line[l]
  BY <1>8 DEF rows
<1>9. FixedBut(d, None)
  <2> SUFFICES ASSUME NEW l \in Line, d.line[l].move # None
               PROVE  d.line[l].state = "valid" \/ Loose(d, l)
    BY DEF FixedBut
  <2>1. c.line[l].move # n /\ d.line[l] = c.line[l]
    BY <1>15, NoRows
  <2>2. c.line[l].state = "valid" \/ Loose(c, l)
    BY <2>1 DEF Sound, FixedBut
  <2>3. c.line[l].move \in Move /\ d.move[c.line[l].move] = c.move[c.line[l].move]
    BY <1>1, <1>2, <1>8, <2>1, RowOf
  <2> QED BY <2>1, <2>2, <2>3 DEF Loose
<1>13. Keyed(d)
  <2>1. ASSUME NEW l \in Line, d.line[l].move # None
        PROVE  KeyOf(d.line[l]) \in Key /\ d.move[d.line[l].move].state # "none"
    <3>1. c.line[l].move # n /\ d.line[l] = c.line[l]
      BY <1>15, <2>1, NoRows
    <3>2. c.line[l].move \in Move /\ d.move[c.line[l].move] = c.move[c.line[l].move]
      BY <1>1, <1>2, <1>8, <2>1, <3>1, RowOf
    <3> QED BY <2>1, <3>1, <3>2 DEF Sound, Keyed
  <2> QED BY <1>2, <1>8, <2>1, NoRows DEF Sound, Keyed
<1>14. ASSUME NEW x \in Move PROVE Even(d, x)
  <2>1. CASE x = n
    <3>1. LinesOf(d, n) = {}
      BY <1>15, NoRows, LedgerAssumption DEF LinesOf
    <3> QED BY <2>1, <3>1 DEF Even
  <2>2. CASE x # n
    <3>1. \A l \in Line : /\ d.line[l].move = x <=> c.line[l].move = x
                          /\ c.line[l].move = x => d.line[l] = c.line[l]
      BY <1>15, <2>2, NoRows, LedgerAssumption
    <3> HIDE DEF d
    <3> QED BY <1>1, <3>1, SameRows DEF Sound
  <2> QED BY <2>1, <2>2
<1> HIDE DEF d
<1> QED BY <1>2, <1>6, <1>8, <1>9, <1>13, <1>14, <1>15 DEF Sound

\* account.move unlink.
LEMMA DeleteMoveOk ==
    ASSUME IInv, NEW n \in Move, DeleteMove(n)
    PROVE  StepOk
<1> DEFINE d == Deleted(Db, n)
<1>1. /\ Sound(d)
      /\ \A l \in Line : d.line[l] = IF line[l].move = n THEN NoLine ELSE line[l]
  BY DeletedSound, DbIs DEF IInv, Sound
<1>2. Commit(d)
  BY DEF DeleteMove
<1> HIDE DEF d
<1>3. IInv'
  BY <1>1, <1>2, Committed DEF Sound
<1>4. ASSUME NEW m \in Move \ {n} PROVE Kept(m)
  <2>1. \A l \in Line : line'[l] = IF line[l].move = n THEN NoLine ELSE line[l]
    BY <1>1, <1>2 DEF Commit
  <2> QED BY <2>1, NoRows, LedgerAssumption DEF Kept
<1>5. ~Settled(n) /\ move[n].state # "posted"
  <2>1. /\ move[n].state = "draft"
        /\ \A l \in LinesOf(Db, n) : jp[KeyOf(line[l])] # "done"
    BY DbIs DEF DeleteMove, Is, UpdateCheck
  <2> QED BY <2>1 DEF Settled
<1> QED BY <1>3, <1>4, <1>5 DEF StepOk

\* button_validate.
LEMMA ButtonValidateOk ==
    ASSUME IInv, NEW n \in Move, ButtonValidate(n)
    PROVE  StepOk
<1> DEFINE e == Validate(Db, n)
           st == IF Fine(Db, n) THEN "posted" ELSE "draft"
           moves == [move EXCEPT ![n].state = st]
           d == [e EXCEPT !.move = moves]
<1>1. IsDb(Db) /\ move \in [Move -> MoveRow] /\ move[n].state = "draft"
  BY DbIs DEF IInv, IsDb, ButtonValidate, Is
<1>2. /\ IsDb(e) /\ e.move = move /\ OnlyOf(Db, e, n)
      /\ \A l \in Line : e.line[l].move = n =>
            \/ e.line[l].state = "valid"
            \/ ~Fine(Db, n) /\ Loose(e, l)
      /\ Keyed(e) /\ Even(e, n)
  BY <1>1, DbIs, ValidateOk, ValidateKeyed, ValidateEven DEF ButtonValidate, IInv
<1>3. moves \in [Move -> MoveRow] /\ \A m \in Move \ {n} : moves[m] = move[m]
  BY <1>1 DEF MoveRow
<1>4. moves[n].state = st
  BY <1>1 DEF MoveRow
<1>5. d = [e EXCEPT !.move[n].state = st]
  <2> HIDE DEF e
  <2>1. e = [move |-> move, line |-> e.line, jp |-> e.jp]
    BY <1>2 DEF IsDb
  <2> HIDE DEF st
  <2> QED BY <2>1
<1>6. Commit(d)
  BY <1>5 DEF ButtonValidate
<1>7. IsDb(d) /\ d.move = moves /\ d.line = e.line
  BY <1>2, <1>3, MovesIsDb
<1>8. FixedBut(d, None)
  <2> SUFFICES ASSUME NEW l \in Line, d.line[l].move # None
               PROVE  d.line[l].state = "valid" \/ Loose(d, l)
    BY DEF FixedBut
  <2> HIDE DEF e, d, moves
  <2>1. CASE d.line[l].move = n
    BY <1>2, <1>4, <1>7, <2>1 DEF Loose
  <2>2. CASE d.line[l].move # n
    <3>1. d.line[l] = line[l] /\ line[l].move \notin {None, n}
      BY <1>2, <1>7, <2>2, DbIs DEF OnlyOf
    <3>2. line[l].state = "valid" \/ Loose(Db, l)
      BY <3>1, DbIs DEF IInv, FixedBut
    <3>3. line[l].move \in Move
      BY <1>1, <3>1, DbIs DEF IsDb, IsLine, LineRow
    <3> QED BY <1>3, <1>7, <3>1, <3>2, <3>3, DbIs DEF Loose
  <2> QED BY <2>1, <2>2
<1>14. Keyed(d)
  <2>1. moves[n].state # "none" /\ KeyOf(moves[n]) = KeyOf(move[n])
    BY <1>1, <1>4 DEF KeyOf, MoveRow
  <2>2. KeyOf(move[n]) \in Key
    BY <1>1, DbIs DEF IInv, Keyed
  <2> HIDE DEF moves, e, d
  <2>3. \A x \in Move : moves[x] # move[x] => x = n
    BY <1>3
  <2>4. \A x \in Move : moves[x].state # "none" <=> move[x].state # "none"
    BY <1>1, <2>1, <2>3
  <2>5. \A l \in Line : e.line[l].move \in Move \cup {None}
    BY <1>2, RowOf
  <2> QED BY <1>2, <1>7, <2>1, <2>2, <2>3, <2>4, <2>5 DEF Keyed
<1>15. ASSUME NEW x \in Move PROVE Even(d, x)
  <2> HIDE DEF e, d
  <2>1. Even(Db, x) \/ x = n
    BY DEF IInv
  <2>2. x # n => \A l \in Line : /\ e.line[l].move = x <=> line[l].move = x
                                 /\ line[l].move = x => e.line[l] = line[l]
    BY <1>2, DbIs, LedgerAssumption DEF OnlyOf
  <2>3. Even(e, x)
    BY <1>1, <1>2, <2>1, <2>2, DbIs, SameRows
  <2> QED BY <1>2, <1>7, <2>3, SameRows
<1>9. IInv'
  BY <1>6, <1>7, <1>8, <1>14, <1>15, Committed
<1>10. line' = e.line
  BY <1>6, <1>7 DEF Commit
<1>11. ASSUME NEW m \in Move \ {n} PROVE Kept(m)
  <2>1. m # None
    BY LedgerAssumption
  <2> HIDE DEF e
  <2> QED BY <1>2, <1>10, <2>1, DbIs DEF Kept, OnlyOf
<1>12. CASE Settled(n)
  <2>1. \A l \in Line : e.line[l] = line[l]
    BY <1>1, <1>12, DbIs, SettledStays DEF ButtonValidate
  <2>2. Kept(n)
    BY <1>10, <2>1 DEF Kept
  <2> QED BY <1>9, <1>11, <2>2 DEF StepOk
<1>13. CASE ~Settled(n)
  BY <1>1, <1>9, <1>11, <1>13 DEF StepOk
<1> QED BY <1>12, <1>13

\* A move made draft.
LEMMA DraftedSound ==
    ASSUME NEW c, Sound(c), NEW n \in Move, c.move[n].state # "none"
    PROVE  LET d == [c EXCEPT !.move[n].state = "draft"]
           IN  /\ Sound(d) /\ d.line = c.line
               /\ d.move[n] = [c.move[n] EXCEPT !.state = "draft"]
               /\ \A x \in Move \ {n} : d.move[x] = c.move[x]
<1> DEFINE moves == [c.move EXCEPT ![n].state = "draft"]
           d == [c EXCEPT !.move = moves]
<1>1. c.move \in [Move -> MoveRow] /\ IsDb(c)
  BY DEF Sound, IsDb
<1>2. /\ moves \in [Move -> MoveRow] /\ moves[n] = [c.move[n] EXCEPT !.state = "draft"]
      /\ \A x \in Move \ {n} : moves[x] = c.move[x]
  BY <1>1 DEF MoveRow
<1>3. IsDb(d) /\ d.move = moves /\ d.line = c.line
  BY <1>1, <1>2, MovesIsDb
<1>4. d = [c EXCEPT !.move[n].state = "draft"]
  <2>1. c = [move |-> c.move, line |-> c.line, jp |-> c.jp]
    BY <1>1 DEF IsDb
  <2> QED BY <2>1
<1>5. moves[n].state = "draft" /\ KeyOf(moves[n]) = KeyOf(c.move[n])
  BY <1>1 DEF MoveRow, KeyOf
<1> HIDE DEF moves, d
<1>6. FixedBut(d, None)
  <2> SUFFICES ASSUME NEW l \in Line, c.line[l].move # None
               PROVE  c.line[l].state = "valid" \/ Loose(d, l)
    BY <1>3 DEF FixedBut
  <2>1. c.line[l].move \in Move
    BY <1>1, RowOf
  <2>2. c.line[l].state = "valid" \/ Loose(c, l)
    BY DEF Sound, FixedBut
  <2>3. CASE c.line[l].move = n
    BY <1>3, <1>5, <2>2, <2>3 DEF Loose
  <2>4. CASE c.line[l].move # n
    <3>1. d.move[c.line[l].move] = c.move[c.line[l].move]
      BY <1>2, <1>3, <2>1, <2>4
    <3> QED BY <1>3, <2>2, <3>1 DEF Loose
  <2> QED BY <2>3, <2>4
<1>7. Keyed(d)
  <2>1. \A x \in Move : /\ KeyOf(moves[x]) = KeyOf(c.move[x])
                        /\ moves[x].state # "none" <=> c.move[x].state # "none"
    BY <1>2, <1>5
  <2>2. \A l \in Line : c.line[l].move \in Move \cup {None}
    BY <1>1, RowOf
  <2> QED BY <1>3, <2>1, <2>2 DEF Sound, Keyed
<1>8. \A x \in Move : Even(d, x)
  BY <1>1, <1>3, SameRows DEF Sound
<1> QED BY <1>2, <1>3, <1>4, <1>6, <1>7, <1>8 DEF Sound

\* button_cancel.
LEMMA ButtonCancelOk ==
    ASSUME IInv, NEW n \in Move, ButtonCancel(n)
    PROVE  StepOk
<1> DEFINE d == [Db EXCEPT !.move[n].state = "draft"]
<1>1. Sound(d) /\ d.line = line
  BY DraftedSound, DbIs DEF IInv, Sound, ButtonCancel, Is
<1>2. Commit(d)
  BY DEF ButtonCancel
<1> HIDE DEF d
<1> QED BY <1>1, <1>2, Committed, KeptStep DEF Sound, Commit

\* A line written with another row: what that leaves of the invariant.
LEMMA RowPut ==
    ASSUME IInv, NEW d, d.move = move, NEW l \in Line, NEW row,
           \A y \in Line : d.line[y] = IF y = l THEN row ELSE line[y],
           row.move = None \/ (KeyOf(row) \in Key /\ move[row.move].state # "none")
    PROVE  Keyed(d) /\ \A m \in Move \ {line[l].move, row.move} : Even(d, m)
<1>1. Keyed(d)
  BY DbIs DEF IInv, Keyed
<1>2. ASSUME NEW m \in Move \ {line[l].move, row.move} PROVE Even(d, m)
  BY <1>2, DbIs, SameRows DEF IInv
<1> QED BY <1>1, <1>2

\* account.move.line create.
LEMMA NewLineOk ==
    ASSUME IInv, NEW n \in Move, NEW k \in Key, NEW x \in Amounts, NEW a \in Account,
           NewLine(n, k, x, a)
    PROVE  StepOk
<1> DEFINE o == Open(Db, {k})
           l == Some(Free(Db))
           row == NewRow(n, k, x, a, "normal", "draft")
           d == Put(o, l, row)
<1>1. IsDb(Db) /\ n # None
  BY LedgerAssumption DEF IInv
<1>2. /\ IsDb(o) /\ o.move = move /\ o.line = line
      /\ \A key \in Key : jp[key] = "done" => o.jp[key] = "done"
  BY <1>1, DbIs, OpenIsDb
<1>3. /\ IsLine(row) /\ row.move = n /\ row.state = "draft" /\ row.rec = None
      /\ KeyOf(row) = k
  <2>1. k \in SomeKey /\ x \in Int
    BY KeysAre, LedgerAssumption
  <2> QED BY <2>1, NewRowIsLine
<1>4. l \in Line /\ line[l].move = None
  BY DbIs DEF NewLine, Some, Free, LinesOf
<1>5. Save(d, n) /\ jp[k] # "done"
  BY DEF NewLine
<1> HIDE DEF o, row, l
<1>6. /\ IsDb(d) /\ d.move = move /\ d.jp = o.jp
      /\ \A y \in Line : d.line[y] = IF y = l THEN row ELSE line[y]
  BY <1>2, <1>3, PutIsDb
<1> HIDE DEF d
<1>7. FixedBut(d, n)
  BY <1>3, <1>6, DbIs DEF IInv, FixedBut, Loose
<1>8. \A m \in Move \ {n} : \A y \in Line :
          /\ d.line[y].move = m <=> line[y].move = m
          /\ line[y].move = m => d.line[y] = line[y]
  BY <1>3, <1>4, <1>6, LedgerAssumption
<1>11. Keyed(d) /\ d.move[n].state # "none" /\ \A m \in Move \ {n} : Even(d, m)
  <2>1. move[n].state # "none" /\ KeyOf(move[n]) \in Key
    BY DbIs DEF NewLine, Is, IInv, Keyed
  <2> QED BY <1>1, <1>3, <1>4, <1>6, <2>1, RowPut, LedgerAssumption
<1>9. /\ IInv' /\ \A m \in Move \ {n} : Kept(m)
      /\ Drafts(d, n) # {} => d.move[n].state = "draft"
  BY <1>5, <1>6, <1>7, <1>8, <1>11, SaveStep
<1>10. move[n].state = "draft"
  <2>1. l \in Drafts(d, n)
    BY <1>3, <1>4, <1>6 DEF Drafts, LinesOf
  <2> QED BY <1>6, <1>9, <2>1
<1>12. ASSUME Settled(n) PROVE Excused(n)
  <2>1. KeyOf(move[n]) \in Key /\ jp[KeyOf(move[n])] = "done"
    BY <1>12, DbIs DEF Settled, Is, IInv, Keyed
  <2>2. \A l1 \in ByHand(n) : line'[l1] = line[l1]
    BY <1>1, <1>2, <1>4, <1>5, <1>6, <1>12, <2>1, SettledSave
  <2>3. Intruded(n)
    BY <1>5, <2>1 DEF Intruded
  <2> QED BY <2>2, <2>3 DEF Excused
<1> QED BY <1>9, <1>10, <1>12 DEF StepOk

\* A line may be written: its move is draft, and not settled.
LEMMA CheckedLine ==
    ASSUME IInv, NEW l \in Line, line[l].move # None, UpdateCheck(Db, {l})
    PROVE  /\ line[l].move \in Move
           /\ move[line[l].move].state = "draft"
           /\ line[l].rec = None
           /\ ~Settled(line[l].move)
           /\ KeyOf(line[l]) \in Key
<1>1. /\ move[line[l].move].state = "draft" /\ line[l].rec = None
      /\ jp[KeyOf(line[l])] # "done"
  BY DbIs DEF UpdateCheck
<1>2. line[l].move \in Move
  BY DbIs, RowOf DEF IInv
<1>5. KeyOf(line[l]) \in Key
  BY DbIs DEF IInv, Keyed
<1>3. l \in LinesOf(Db, line[l].move)
  BY DbIs DEF LinesOf
<1>4. ~Settled(line[l].move)
  BY <1>1, <1>3 DEF Settled
<1> QED BY <1>1, <1>2, <1>4, <1>5

\* Writing a row of a line, the journal periods opened before.
LEMMA RowWritten ==
    ASSUME IInv, NEW l \in Line, NEW keys, NEW row, IsLine(row)
    PROVE  LET d == Put(Open(Db, keys), l, row)
           IN  /\ IsDb(d) /\ d.move = move
               /\ \A y \in Line : d.line[y] = IF y = l THEN row ELSE line[y]
               /\ \A key \in Key : jp[key] = "done" => d.jp[key] = "done"
<1> DEFINE o == Open(Db, keys)
<1>1. /\ IsDb(o) /\ o.move = move /\ o.line = line
      /\ \A key \in Key : jp[key] = "done" => o.jp[key] = "done"
  BY OpenIsDb, DbIs DEF IInv
<1> HIDE DEF o
<1>2. IsDb(Put(o, l, row)) /\ Put(o, l, row).move = move /\ Put(o, l, row).jp = o.jp
      /\ \A y \in Line : Put(o, l, row).line[y] = IF y = l THEN row ELSE line[y]
  BY <1>1, PutIsDb
<1> QED BY <1>1, <1>2 DEF o

\* account.move.line write of an amount.
LEMMA WriteLineOk ==
    ASSUME IInv, NEW l \in Line, NEW x \in Amounts, WriteLine(l, x)
    PROVE  StepOk
<1> DEFINE n == line[l].move
           old == line[l]
           row == [old EXCEPT !.amount = x]
           keys == Keys(Db, {l})
           d == Put(Open(Db, keys), l, row)
<1>1. n # None /\ UpdateCheck(Db, {l})
  BY DEF WriteLine
<1>2. /\ n \in Move /\ move[n].state = "draft" /\ line[l].rec = None /\ ~Settled(n)
      /\ KeyOf(line[l]) \in Key /\ x \in Int
  BY <1>1, CheckedLine, LedgerAssumption
<1>3. IsLine(old)
  BY DbIs DEF IInv, IsDb
<1>4. IsLine(row) /\ row.move = n /\ KeyOf(row) = KeyOf(line[l])
  <2>1. row.move = old.move /\ IsLine(row) /\ KeyOf(row) = KeyOf(old)
    <3> HIDE DEF old
    <3> QED BY <1>2, <1>3, AmountRow
  <2> QED BY <2>1
<1>5. d = [Open(Db, keys) EXCEPT !.line[l].amount = x]
  <2> DEFINE o == Open(Db, keys)
  <2>1. IsDb(o) /\ o.line = line
    BY OpenIsDb, DbIs DEF IInv
  <2> HIDE DEF o
  <2>2. Put(o, l, row) = [o EXCEPT !.line[l].amount = x]
    BY <2>1 DEF Put
  <2> QED BY <2>2 DEF o
<1>6. Save(d, n)
  BY <1>5 DEF WriteLine
<1> HIDE DEF row, keys
<1>7. /\ IsDb(d) /\ d.move = move
      /\ \A y \in Line : d.line[y] = IF y = l THEN row ELSE line[y]
  BY <1>4, RowWritten
<1> HIDE DEF d
<1>8. FixedBut(d, n)
  BY <1>4, <1>7, DbIs DEF IInv, FixedBut, Loose
<1>9. \A m \in Move \ {n} : \A y \in Line :
          /\ d.line[y].move = m <=> line[y].move = m
          /\ line[y].move = m => d.line[y] = line[y]
  BY <1>4, <1>7
<1>11. Keyed(d) /\ d.move[n].state # "none" /\ \A m \in Move \ {n} : Even(d, m)
  BY <1>1, <1>2, <1>4, <1>7, RowPut
<1>10. IInv' /\ \A m \in Move \ {n} : Kept(m)
  <2> HIDE DEF n
  <2> QED BY <1>2, <1>6, <1>7, <1>8, <1>9, <1>11, SaveStep
<1> QED BY <1>2, <1>10 DEF StepOk

\* account.move.line write of another move.
LEMMA WriteLineMoveOk ==
    ASSUME IInv, NEW l \in Line, NEW n \in Move, WriteLineMove(l, n)
    PROVE  StepOk
<1> DEFINE s == line[l].move
           old == line[l]
           row == [old EXCEPT !.move = n]
           keys == Keys(Db, {l})
           d == Put(Open(Db, keys), l, row)
<1>1. s \notin {None, n} /\ UpdateCheck(Db, {l}) /\ old.state = "draft" /\ n # None
  BY LedgerAssumption DEF WriteLineMove
<1>2. /\ s \in Move /\ move[s].state = "draft" /\ old.rec = None /\ ~Settled(s)
      /\ KeyOf(old) \in Key
  BY <1>1, CheckedLine
<1>3. IsLine(old)
  BY DbIs DEF IInv, IsDb
<1>4. IsLine(row) /\ row.move = n /\ row.state = "draft" /\ KeyOf(row) = KeyOf(old)
  <2>1. row.move = n /\ IsLine(row) /\ row.state = old.state /\ KeyOf(row) = KeyOf(old)
    <3> HIDE DEF old
    <3> QED BY <1>3, MovedRow
  <2> QED BY <1>1, <2>1
<1>5. d = [Open(Db, keys) EXCEPT !.line[l].move = n]
  <2> DEFINE o == Open(Db, keys)
  <2>1. IsDb(o) /\ o.line = line
    BY OpenIsDb, DbIs DEF IInv
  <2> HIDE DEF o
  <2>2. Put(o, l, row) = [o EXCEPT !.line[l].move = n]
    BY <2>1 DEF Put
  <2> QED BY <2>2 DEF o
<1>6. Save(d, n)
  BY <1>5 DEF WriteLineMove
<1> HIDE DEF row, keys
<1>7. /\ IsDb(d) /\ d.move = move
      /\ \A y \in Line : d.line[y] = IF y = l THEN row ELSE line[y]
      /\ \A key \in Key : jp[key] = "done" => d.jp[key] = "done"
  BY <1>4, RowWritten
<1> HIDE DEF d
<1>8. FixedBut(d, n)
  BY <1>4, <1>7, DbIs DEF IInv, FixedBut, Loose
<1>9. \A m \in Move \ {n, s} : \A y \in Line :
          /\ d.line[y].move = m <=> line[y].move = m
          /\ line[y].move = m => d.line[y] = line[y]
  BY <1>4, <1>7
<1>13. Keyed(d) /\ d.move[n].state # "none" /\ \A m \in Move \ {n, s} : Even(d, m)
  <2>1. move[n].state # "none"
    BY DEF WriteLineMove, Is
  <2> QED BY <1>1, <1>2, <1>4, <1>7, <2>1, RowPut
\* The line that leaves is draft: what it leaves behind is draft too.
<1>14. Even(d, s)
  <2>1. Even(Db, s) /\ l \in LinesOf(Db, s) /\ Db.line[l].state = "draft"
    BY <1>1, <1>2, DbIs DEF IInv, LinesOf
  <2>2. \A y \in LinesOf(Db, s) : line[y].state = "draft"
    BY <2>1, DbIs DEF Even
  <2> HIDE DEF s
  <2>3. \A y \in LinesOf(d, s) : d.line[y].state = "draft"
    BY <1>4, <1>7, <2>2, DbIs DEF LinesOf
  <2> QED BY <2>3 DEF Even
<1>15. \A m \in Move \ {n} : Even(d, m)
  BY <1>13, <1>14
<1>10. /\ IInv' /\ \A m \in Move \ {n, s} : Kept(m)
       /\ Drafts(d, n) # {} => d.move[n].state = "draft"
  <2> HIDE DEF s
  <2> QED BY <1>6, <1>7, <1>8, <1>9, <1>13, <1>15, SaveStep
<1>11. move[n].state = "draft"
  <2>1. l \in Drafts(d, n)
    BY <1>4, <1>7 DEF Drafts, LinesOf
  <2> QED BY <1>7, <1>10, <2>1
<1>12. ASSUME Settled(n) PROVE Excused(n)
  <2>1. KeyOf(move[n]) \in Key /\ jp[KeyOf(move[n])] = "done"
    BY <1>12, DbIs DEF Settled, Is, IInv, Keyed
  <2>2. \A y \in Line : line[y].move = n => d.line[y] = line[y]
    BY <1>1, <1>7
  <2>3. \A y \in ByHand(n) : line'[y] = line[y]
    BY <1>6, <1>7, <1>12, <2>1, <2>2, SettledSave
  <2> QED BY <2>3 DEF Excused, Intruded
<1> QED BY <1>2, <1>10, <1>11, <1>12 DEF StepOk

\* account.move.line unlink.
LEMMA DeleteLineOk ==
    ASSUME IInv, NEW l \in Line, DeleteLine(l)
    PROVE  StepOk
<1> DEFINE n == line[l].move
           keys == Keys(Db, {l})
           d == Put(Open(Db, keys), l, NoLine)
<1>1. n # None /\ UpdateCheck(Db, {l})
  BY DEF DeleteLine
<1>2. n \in Move /\ move[n].state = "draft" /\ ~Settled(n)
  BY <1>1, CheckedLine
<1>3. Save(d, n)
  BY DEF DeleteLine, Put
<1> HIDE DEF keys
<1>4. /\ IsDb(d) /\ d.move = move
      /\ \A y \in Line : d.line[y] = IF y = l THEN NoLine ELSE line[y]
  BY NoRows, RowWritten
<1> HIDE DEF d
<1>5. FixedBut(d, n)
  BY <1>4, DbIs, NoRows DEF IInv, FixedBut, Loose
<1>6. \A m \in Move \ {n} : \A y \in Line :
          /\ d.line[y].move = m <=> line[y].move = m
          /\ line[y].move = m => d.line[y] = line[y]
  BY <1>4, NoRows, LedgerAssumption
<1>8. Keyed(d) /\ d.move[n].state # "none" /\ \A m \in Move \ {n} : Even(d, m)
  BY <1>1, <1>2, <1>4, NoRows, RowPut, LedgerAssumption
<1>7. IInv' /\ \A m \in Move \ {n} : Kept(m)
  <2> HIDE DEF n
  <2> QED BY <1>2, <1>3, <1>4, <1>5, <1>6, <1>8, SaveStep
<1> QED BY <1>2, <1>7 DEF StepOk

\* Marking valid lines as reconciled, or any as not.
LEMMA MarkedIsDb ==
    ASSUME NEW d, IsDb(d), FixedBut(d, None), Keyed(d), \A m \in Move : Even(d, m),
           NEW ids, NEW r \in Rec \cup {None},
           r = None \/ \A l \in Line : l \in ids => d.line[l].state = "valid"
    PROVE  /\ IsDb(Marked(d, ids, r)) /\ FixedBut(Marked(d, ids, r), None)
           /\ Keyed(Marked(d, ids, r)) /\ \A m \in Move : Even(Marked(d, ids, r), m)
           /\ Marked(d, ids, r).move = d.move
           /\ \A l \in Line :
                 LET new == Marked(d, ids, r).line[l]
                     old == d.line[l]
                 IN  /\ new.move = old.move /\ new.state = old.state
                     /\ new.amount = old.amount /\ new.account = old.account
                     /\ new.journal = old.journal /\ new.period = old.period
<1> DEFINE rows == [l \in Line |-> IF l \in ids THEN [d.line[l] EXCEPT !.rec = r] ELSE d.line[l]]
           e == Marked(d, ids, r)
<1>1. e = [d EXCEPT !.line = rows] /\ rows = [l \in Line |-> rows[l]]
  BY DEF Marked
<1>2. \A l \in Line :
          /\ IsLine(rows[l])
          /\ rows[l].move = d.line[l].move /\ rows[l].state = d.line[l].state
          /\ rows[l].amount = d.line[l].amount /\ rows[l].account = d.line[l].account
          /\ rows[l].journal = d.line[l].journal /\ rows[l].period = d.line[l].period
          /\ rows[l].rec = IF l \in ids THEN r ELSE d.line[l].rec
  <2> TAKE l \in Line
  <2> DEFINE row == d.line[l]
             new == [row EXCEPT !.rec = r]
  <2>1. IsLine(row)
    BY DEF IsDb
  <2>2. rows[l] = IF l \in ids THEN new ELSE row
    OBVIOUS
  <2>3. /\ IsLine(new) /\ new.rec = r /\ new.move = row.move /\ new.state = row.state
        /\ new.amount = row.amount /\ new.account = row.account
        /\ new.journal = row.journal /\ new.period = row.period
    <3> HIDE DEF row
    <3> QED BY <2>1, RecRow
  <2> HIDE DEF rows, new
  <2> QED BY <2>1, <2>2, <2>3
<1> HIDE DEF rows, e
<1>3. IsDb(e) /\ e.move = d.move /\ e.line = rows
  BY <1>1, <1>2, LinesIsDb
<1>4. FixedBut(e, None)
  BY <1>2, <1>3 DEF FixedBut, Loose
<1>5. Keyed(e)
  <2>1. \A l \in Line : KeyOf(rows[l]) = KeyOf(d.line[l])
    BY <1>2 DEF KeyOf
  <2> QED BY <1>2, <1>3, <2>1 DEF Keyed
<1>6. \A m \in Move : Even(e, m)
  BY <1>2, <1>3, SameEven
<1> QED BY <1>2, <1>3, <1>4, <1>5, <1>6 DEF e

\* A step that only marks or unmarks lines as reconciled.
LEMMA MarkedStep ==
    ASSUME IInv, NEW ids, NEW r \in Rec \cup {None}, Commit(Marked(Db, ids, r)),
           r = None \/ \A l \in Line : l \in ids => line[l].state = "valid"
    PROVE  StepOk
<1> DEFINE e == Marked(Db, ids, r)
<1>1. /\ IsDb(e) /\ FixedBut(e, None) /\ Keyed(e) /\ \A m \in Move : Even(e, m)
      /\ \A l \in Line :
            /\ e.line[l].move = line[l].move /\ e.line[l].state = line[l].state
            /\ e.line[l].amount = line[l].amount /\ e.line[l].account = line[l].account
            /\ e.line[l].journal = line[l].journal /\ e.line[l].period = line[l].period
  BY MarkedIsDb, DbIs DEF IInv
<1>2. Commit(e)
  OBVIOUS
<1> HIDE DEF e
<1>3. IInv'
  BY <1>1, <1>2, Committed
<1>4. \A m \in Move : Kept(m)
  BY <1>1, <1>2 DEF Kept, Commit
<1> QED BY <1>3, <1>4 DEF StepOk

\* reconcile without a write-off.
LEMMA ReconcileOk ==
    ASSUME IInv, NEW ids \in SUBSET Line, NEW r \in Rec, Reconcile(ids, r)
    PROVE  StepOk
  BY MarkedStep DEF Reconcile, MayReconcile

\* _remove_move_reconcile.
LEMMA UnreconcileOk ==
    ASSUME IInv, NEW r \in Rec, Unreconcile(r)
    PROVE  StepOk
  BY MarkedStep DEF Unreconcile

\* reconcile with a write-off: a move of two lines.
LEMMA WriteOffOk ==
    ASSUME IInv, NEW ids \in SUBSET Line, NEW r \in Rec, NEW n \in Move,
           NEW j \in Journal, NEW p \in Period, ReconcileWriteOff(ids, r, n, j, p)
    PROVE  StepOk
<1> DEFINE w == Sum(Db, ids)
           l == Some(Free(Db))
           k == Some(Free(Db) \ {l})
           new == [state |-> "draft", journal |-> j, period |-> p]
           moves == [move EXCEPT ![n] = new]
           o == Open(Db, {<<j, p>>})
           d == [o EXCEPT !.move = moves]
           account == line[CHOOSE i \in ids : TRUE].account
           lr == NewRow(n, <<j, p>>, -w, account, "normal", "valid")
           kr == NewRow(n, <<j, p>>, w, WriteOff, "normal", "valid")
           q == Put(Put(d, l, lr), k, kr)
           due == {x \in LinesOf(q, n) : q.line[x].account = account}
           e == Marked(q, ids \cup due, r)
<1>1. IsDb(Db) /\ move \in [Move -> MoveRow]
  BY DbIs DEF IInv, IsDb
<1>2. /\ move[n].state = "none" /\ n # None
      /\ \A x \in ids : line[x].state = "valid" /\ line[x].move # None
      /\ \E x \in Free(Db) : \E y \in Free(Db) : x # y
  BY LedgerAssumption DEF ReconcileWriteOff, MayReconcile, Is
<1>3. /\ l \in Free(Db) /\ k \in Free(Db) /\ k # l
      /\ \A x \in Free(Db) : x \in Line /\ line[x].move = None
  <2> HIDE DEF l
  <2>1. l \in Free(Db)
    BY <1>2 DEF Some, l
  <2>2. \E z : z \in Free(Db) \ {l}
    BY <1>2
  <2>3. k \in Free(Db) \ {l}
    BY <2>2 DEF Some
  <2> QED BY <2>1, <2>3, DbIs DEF Free, LinesOf
<1>4. IsDb(o) /\ o.move = move /\ o.line = line
  BY <1>1, DbIs, OpenIsDb
<1>5. moves \in [Move -> MoveRow] /\ moves[n].state = "draft"
      /\ \A m \in Move \ {n} : moves[m] = move[m]
  BY <1>1 DEF MoveRow
<1>6. d = [o EXCEPT !.move[n] = new]
  <2> HIDE DEF o, new
  <2> QED BY <1>4
<1>7. Commit(e)
  BY <1>6 DEF ReconcileWriteOff
<1> HIDE DEF l, k, o, moves, w, account
<1>8. IsDb(d) /\ d.move = moves /\ d.line = line
  BY <1>4, <1>5, MovesIsDb
<1> HIDE DEF d
<1>16. w \in Int /\ account \in Account
  <2>1. w \in Int
    BY <1>1, SumIsInt DEF w
  <2>2. \A x \in Line : line[x].account \in Account
    BY <1>1, DbIs DEF IsDb, IsLine, LineRow
  <2>3. (CHOOSE i \in ids : TRUE) \in Line
    BY DEF ReconcileWriteOff, MayReconcile
  <2> QED BY <2>1, <2>2, <2>3 DEF account
<1>17. d.move[n] = new /\ new \in MoveRow /\ KeyOf(new) = <<j, p>> /\ new.state = "draft"
  BY <1>1, <1>8 DEF MoveRow, KeyOf, moves
<1>9. /\ IsLine(lr) /\ lr.move = n /\ lr.state = "valid"
      /\ IsLine(kr) /\ kr.move = n /\ kr.state = "valid"
      /\ lr.amount = -w /\ kr.amount = w /\ KeyOf(lr) = <<j, p>> /\ KeyOf(kr) = <<j, p>>
  <2>1. -w \in Int /\ WriteOff \in Account
    BY <1>16, LedgerAssumption
  <2>2. <<j, p>> \in SomeKey
    BY DEF SomeKey
  <2> QED BY <1>16, <2>1, <2>2, NewRowIsLine
<1> HIDE DEF lr, kr
<1>10. /\ IsDb(q) /\ q.move = moves
       /\ \A x \in Line : q.line[x] = IF x = k THEN kr ELSE IF x = l THEN lr ELSE line[x]
  BY <1>8, <1>9, PutIsDb
<1> HIDE DEF q
<1>11. FixedBut(q, None)
  <2> SUFFICES ASSUME NEW x \in Line, q.line[x].move # None
               PROVE  q.line[x].state = "valid" \/ Loose(q, x)
    BY DEF FixedBut
  <2>1. CASE x \in {k, l}
    BY <1>9, <1>10, <2>1
  <2>2. CASE x \notin {k, l}
    <3>1. q.line[x] = line[x] /\ line[x].move \in Move
      BY <1>1, <1>10, <2>2, DbIs, RowOf
    <3>2. line[x].state = "valid" \/ Loose(Db, x)
      BY <3>1, <2>2, DbIs, LedgerAssumption DEF IInv, FixedBut
    <3>3. moves[line[x].move].state # "posted" \/ moves[line[x].move] = move[line[x].move]
      BY <1>5, <3>1
    <3> QED BY <1>10, <3>1, <3>2, <3>3, DbIs DEF Loose
  <2> QED BY <2>1, <2>2
\* No line is of a move that is not there, so its two lines are all it has.
<1>18. \A x \in Line : q.line[x].move = n <=> x \in {k, l}
  <2>1. \A x \in Line : line[x].move # n
    BY <1>2, DbIs DEF IInv, Keyed
  <2> QED BY <1>3, <1>9, <1>10, <2>1
<1>12. \A x \in Line : x \in ids \cup due => q.line[x].state = "valid"
  BY <1>2, <1>9, <1>10, <1>18 DEF LinesOf
<1> HIDE DEF due
<1>19. Keyed(q)
  <2>1. <<j, p>> \in Key
    BY DEF Key
  <2>2. \A m \in Move : q.move[m].state # "none" => KeyOf(q.move[m]) \in Key
    BY <1>5, <1>8, <1>10, <1>17, <2>1, DbIs DEF IInv, Keyed
  <2>3. ASSUME NEW x \in Line, q.line[x].move # None
        PROVE  KeyOf(q.line[x]) \in Key /\ q.move[q.line[x].move].state # "none"
    <3>1. CASE x \in {k, l}
      BY <1>5, <1>9, <1>10, <2>1, <3>1
    <3>2. CASE x \notin {k, l}
      <4>1. q.line[x] = line[x] /\ line[x].move \in Move \ {n}
        BY <1>1, <1>10, <1>18, <2>3, <3>2, DbIs, RowOf
      <4> QED BY <1>5, <1>10, <2>3, <4>1, DbIs DEF IInv, Keyed
    <3> QED BY <3>1, <3>2
  <2> QED BY <2>2, <2>3 DEF Keyed
<1>20. Even(q, n)
  <2> DEFINE g == [x \in Line |-> q.line[x].amount]
  <2>1. LinesOf(q, n) = {l, k} /\ l \in Line /\ k \in Line
    BY <1>3, <1>18 DEF LinesOf
  <2>2. g[l] = -w /\ g[k] = w
    BY <1>3, <1>9, <1>10
  <2> HIDE DEF g
  <2>3. SumFunctionOnSet(g, {l, k}) = g[l] + SumFunctionOnSet(g, {l, k} \ {l})
    <3>1. IsFiniteSet({l, k}) /\ \A x \in {l, k} : g[x] \in Int
      BY <1>16, <2>1, <2>2, LedgerAssumption, FS_Subset
    <3> QED BY <3>1, SumRemove
  <2>4. SumFunctionOnSet(g, {k}) = g[k] + SumFunctionOnSet(g, {k} \ {k})
    <3>1. IsFiniteSet({k}) /\ \A x \in {k} : g[x] \in Int
      BY <1>16, <2>1, <2>2, LedgerAssumption, FS_Subset
    <3> QED BY <3>1, SumRemove
  <2>5. {l, k} \ {l} = {k} /\ {k} \ {k} = {}
    BY <1>3
  <2>6. SumFunctionOnSet(g, {}) = 0
    BY SumEmpty
  <2>7. SumFunctionOnSet(g, {l, k}) = 0
    BY <1>16, <2>2, <2>3, <2>4, <2>5, <2>6
  <2>8. Balanced(q, n)
    BY <2>1, <2>7 DEF Balanced, Sum, g
  <2>9. \A x \in LinesOf(q, n) : q.line[x].state = "valid"
    BY <1>9, <1>10, <2>1
  <2> QED BY <2>8, <2>9 DEF Even
<1>21. ASSUME NEW m \in Move PROVE Even(q, m)
  <2>1. CASE m = n
    BY <1>20, <2>1
  <2>2. CASE m # n
    <3>1. \A x \in Line : /\ q.line[x].move = m <=> line[x].move = m
                          /\ line[x].move = m => q.line[x] = line[x]
      BY <1>3, <1>10, <1>18, <2>2, LedgerAssumption
    <3> QED BY <1>1, <3>1, DbIs, SameRows DEF IInv
  <2> QED BY <2>1, <2>2
<1>13. /\ IsDb(e) /\ FixedBut(e, None) /\ Keyed(e) /\ \A m \in Move : Even(e, m)
       /\ \A x \in Line :
             /\ e.line[x].move = q.line[x].move /\ e.line[x].state = q.line[x].state
             /\ e.line[x].amount = q.line[x].amount /\ e.line[x].account = q.line[x].account
             /\ e.line[x].journal = q.line[x].journal /\ e.line[x].period = q.line[x].period
  BY <1>10, <1>11, <1>12, <1>19, <1>21, MarkedIsDb
<1> HIDE DEF e
<1>14. IInv'
  BY <1>7, <1>13, Committed
<1>15. ASSUME NEW m \in Move \ {n} PROVE Kept(m)
  <2>1. \A x \in {k, l} : line[x].move = None /\ e.line[x].move = n
    BY <1>3, <1>9, <1>10, <1>13
  <2>2. \A x \in Line \ {k, l} : q.line[x] = line[x]
    BY <1>10
  <2> QED BY <1>7, <1>13, <2>1, <2>2, LedgerAssumption DEF Kept, Commit
<1> QED BY <1>2, <1>14, <1>15 DEF StepOk, Settled, Is

\* The closing of periods and journals.
LEMMA ClosingOk ==
    ASSUME IInv, UNCHANGED <<move, line>>, jp' \in [Key -> {"none", "draft", "done"}]
    PROVE  StepOk
<1>1. /\ Db'.move = Db.move /\ Db'.line = Db.line /\ Db'.jp = jp'
      /\ Db' = [move |-> Db'.move, line |-> Db'.line, jp |-> Db'.jp]
  BY DEF Db
<1>2. IsDb(Db)' /\ Keyed(Db)' /\ FixedBut(Db, None)'
  BY <1>1 DEF IInv, IsDb, IsLine, Keyed, KeyOf, FixedBut, Loose
<1>3. ASSUME NEW m \in Move PROVE Even(Db, m)'
  <2>1. Even(Db, m)
    BY DEF IInv
  <2> QED BY <1>1, <2>1 DEF Even, Balanced, LinesOf, Sum
<1> QED BY <1>2, <1>3, KeptStep DEF IInv

\* The empty ledger.
LEMMA InitOk == Init => IInv
<1> SUFFICES ASSUME Init PROVE IInv
  OBVIOUS
<1>1. /\ move \in [Move -> MoveRow] /\ \A m \in Move : move[m].state = "none"
      /\ line = [l \in Line |-> line[l]] /\ \A l \in Line : line[l] = NoLine
      /\ jp \in [Key -> {"none", "draft", "done"}]
  BY NoRows DEF Init
<1>2. IsDb(Db)
  BY <1>1, NoRows DEF IsDb, Db
<1>3. FixedBut(Db, None) /\ Keyed(Db)
  BY <1>1, NoRows, DbIs DEF FixedBut, Keyed
<1>4. ASSUME NEW m \in Move PROVE Even(Db, m)
  <2>1. LinesOf(Db, m) = {}
    BY <1>1, NoRows, DbIs, LedgerAssumption DEF LinesOf
  <2> QED BY <2>1 DEF Even
<1> QED BY <1>2, <1>3, <1>4 DEF IInv

\* Every step keeps the invariant.
LEMMA NextOk ==
    ASSUME IInv, [Next]_vars
    PROVE  StepOk
<1>0. jp \in [Key -> {"none", "draft", "done"}]
  BY DbIs DEF IInv, IsDb
<1>1. CASE UNCHANGED vars
  BY <1>0, <1>1, ClosingOk DEF vars
<1>2. ASSUME NEW m \in Move, NEW j \in Journal, NEW p \in Period, NewMove(m, j, p)
      PROVE  StepOk
  BY <1>2, NewMoveOk
<1>3. ASSUME NEW m \in Move, NEW p \in Period, WriteMovePeriod(m, p) PROVE StepOk
  BY <1>3, WriteMovePeriodOk
<1>4. ASSUME NEW m \in Move, DeleteMove(m) \/ ButtonValidate(m) \/ ButtonCancel(m)
      PROVE  StepOk
  BY <1>4, DeleteMoveOk, ButtonValidateOk, ButtonCancelOk
<1>5. ASSUME NEW m \in Move, NEW k \in Key, NEW x \in Amounts, NEW a \in Account,
             NewLine(m, k, x, a)
      PROVE  StepOk
  BY <1>5, NewLineOk
<1>6. ASSUME NEW l \in Line,
             \/ \E x \in Amounts : WriteLine(l, x)
             \/ \E m \in Move : WriteLineMove(l, m)
             \/ DeleteLine(l)
      PROVE  StepOk
  BY <1>6, WriteLineOk, WriteLineMoveOk, DeleteLineOk
<1>7. ASSUME NEW r \in Rec, NEW ids \in SUBSET Line, Reconcile(ids, r) PROVE StepOk
  BY <1>7, ReconcileOk
<1>8. ASSUME NEW r \in Rec, NEW ids \in SUBSET Line, NEW m \in Move, NEW j \in Journal,
             NEW p \in Period, ReconcileWriteOff(ids, r, m, j, p)
      PROVE  StepOk
  BY <1>8, WriteOffOk
<1>9. ASSUME NEW r \in Rec, Unreconcile(r) PROVE StepOk
  BY <1>9, UnreconcileOk
<1>10. ASSUME NEW p \in Period, ClosePeriod(p) PROVE StepOk
  <2>1. jp' \in [Key -> {"none", "draft", "done"}]
    BY <1>0, <1>10 DEF ClosePeriod
  <2> QED BY <1>10, <2>1, ClosingOk DEF ClosePeriod
<1>11. ASSUME NEW k \in Key, DeleteJournalPeriod(k) PROVE StepOk
  <2>1. jp' \in [Key -> {"none", "draft", "done"}]
    BY <1>0, <1>11 DEF DeleteJournalPeriod
  <2> QED BY <1>11, <2>1, ClosingOk DEF DeleteJournalPeriod
<1> QED
  BY <1>1, <1>2, <1>3, <1>4, <1>5, <1>6, <1>7, <1>8, <1>9, <1>10, <1>11 DEF Next

-----------------------------------------------------------------------------
(* The theorems                                                            *)

\* The inductive invariant holds in every reachable state.
THEOREM Invariance == Spec => []IInv
<1>1. IInv /\ [Next]_vars => IInv'
  BY NextOk DEF StepOk
<1> QED BY <1>1, InitOk, PTL DEF Spec

\* The tables keep their columns: rows in use have a journal and a period, and
\* lines a move that is there, whatever is deleted (the foreign keys).
THEOREM TypeCorrect == Spec => []TypeOK
<1>1. IInv => TypeOK
  <2> SUFFICES ASSUME IInv PROVE TypeOK
    OBVIOUS
  <2>1. IsDb(Db) /\ Keyed(Db)
    BY DEF IInv
  <2>2. line \in [Line -> LineRow]
    BY <2>1, DbIs DEF IsDb, IsLine
  <2> QED BY <2>1, <2>2, DbIs DEF TypeOK, IsDb, Keyed
<1> QED BY <1>1, Invariance, PTL

\* "For all account moves, the state is valid implies that the sum of credits
\* equals the sum of debits": validate leaves a move draft or balanced, and no
\* operation takes a valid line away from it or changes one without validation.
THEOREM ValidBalancedHolds == Spec => []ValidBalanced
<1>1. IInv => ValidBalanced
  BY DbIs DEF IInv, Even, ValidBalanced, LinesOf
<1> QED BY <1>1, Invariance, PTL

\* A posted or reconciled line is valid, whatever is entered, changed, moved,
\* deleted, centralised or written off (validate, reconcile, button_validate).
THEOREM FixedIsValidHolds == Spec => []FixedIsValid
<1>1. IInv => FixedIsValid
  <2> SUFFICES ASSUME IInv, NEW l \in Line \ Free(Db),
                      Is(line[l].move, "posted") \/ line[l].rec # None
               PROVE  line[l].state = "valid"
    BY DEF FixedIsValid
  <2>1. line[l].move # None
    BY DbIs DEF Free, LinesOf
  <2> QED BY <2>1, DbIs DEF IInv, FixedBut, Loose, Is
<1> QED BY <1>1, Invariance, PTL

\* While a move is posted no operation changes, adds or takes a line of it:
\* what _update_check refuses is also refused by every way round it.
THEOREM PostedKeptHolds == Spec => PostedKept
<1>1. IInv /\ [Next]_vars =>
        (\A m \in Move : Is(m, "posted") /\ Is(m, "posted")' => Rows(m)' = Rows(m))
  BY NextOk, KeptRows DEF StepOk, Is
<1> QED BY <1>1, Invariance, PTL DEF Spec, PostedKept

\* What was entered in a settled move stays once its journal period is closed
\* (_update_journal_check), by whatever operation; and it gets lines, and new
\* sums of centralisation, by two operations only, which look at the journal
\* period a line comes from and not at that of the move.
THEOREM ClosedKeptHolds == Spec => ClosedKept
<1>1. ASSUME IInv, [Next]_vars, NEW m \in Move, Settled(m)
      PROVE  /\ \A l \in ByHand(m) : line'[l].move = m /\ Says(l)' = Says(l)
             /\ Rows(m)' = Rows(m) \/ Intruded(m)
  <2>1. Kept(m) \/ Excused(m)
    BY <1>1, NextOk DEF StepOk
  <2>2. \A l \in ByHand(m) : l \in Line /\ line[l].move = m
    BY DbIs DEF ByHand, LinesOf
  <2>3. CASE Kept(m)
    <3>1. \A l \in ByHand(m) : line'[l].move = m /\ Says(l)' = Says(l)
      BY <2>2, <2>3 DEF Kept, Says, KeyOf
    <3> QED BY <2>3, <3>1, KeptRows
  <2>4. CASE Excused(m)
    BY <2>2, <2>4 DEF Excused, Says, KeyOf
  <2> QED BY <2>1, <2>3, <2>4
<1>2. IInv /\ [Next]_vars =>
        (\A m \in Move : Settled(m) =>
            /\ \A l \in ByHand(m) : line'[l].move = m /\ Says(l)' = Says(l)
            /\ Rows(m)' = Rows(m) \/ Intruded(m))
  BY <1>1
<1> QED BY <1>2, Invariance, PTL DEF Spec, ClosedKept
==============================================================================
