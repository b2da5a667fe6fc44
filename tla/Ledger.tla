-------------------------------- MODULE Ledger -------------------------------
(***************************************************************************)
(* Accounting entries (bin/addons/account/account.py, account_move_line.py *)
(* and the wizards that reconcile and close): moves with their lines, the  *)
(* validation that follows every change of a line, centralised journals,   *)
(* posting, reconciliation and closed periods.  A request is a transaction *)
(* and an action here; one that raises is rolled back, and is no step.     *)
(* What a write touches behind validation, by SQL, is kept as it is.       *)
(***************************************************************************)
EXTENDS Integers, FiniteSets, Functions

CONSTANTS
    Move, Line, Rec,    \* bounds: the rows there can be
    Journal, Period, Account,
    None,
    Centralised,        \* the journals with centralisation
    UpdatePosted,       \* the journals whose posted moves can be cancelled
    CentralAccount,     \* the default accounts of centralised journals
    CanReconcile,       \* the accounts whose lines can be reconciled
    WriteOff,           \* the account of write-offs
    Amounts             \* bound: the amounts a user enters, debit less credit

ASSUME LedgerAssumption ==
    /\ IsFiniteSet(Line)
    /\ None \notin Move \cup Line \cup Rec
    /\ Amounts \subseteq Int
    /\ {CentralAccount, WriteOff} \subseteq Account

VARIABLES
    move,   \* account_move
    line,   \* account_move_line; a row without a move is none
    jp      \* account_journal_period

vars == <<move, line, jp>>

Key == Journal \X Period
KeyOf(row) == <<row.journal, row.period>>
MoveRow == [state : {"none", "draft", "posted"}, journal : Journal \cup {None},
            period : Period \cup {None}]
LineRow == [move : Move \cup {None}, amount : Int, state : {"draft", "valid"},
            account : Account, rec : Rec \cup {None}, journal : Journal \cup {None},
            period : Period \cup {None}, central : {"normal", "debit", "credit"}]

TypeOK ==
    /\ move \in [Move -> MoveRow]
    /\ \A m \in Move : move[m].state # "none" => KeyOf(move[m]) \in Key
    /\ line \in [Line -> LineRow]
    /\ \A l \in Line : line[l].move # None =>
          KeyOf(line[l]) \in Key /\ move[line[l].move].state # "none"
    /\ jp \in [Key -> {"none", "draft", "done"}]

-----------------------------------------------------------------------------
(* The tables as a request finds and leaves them                           *)

Db == [move |-> move, line |-> line, jp |-> jp]
Commit(d) == move' = d.move /\ line' = d.line /\ jp' = d.jp

LinesOf(d, m) == {l \in Line : d.line[l].move = m}
Drafts(d, m) == {l \in LinesOf(d, m) : d.line[l].state = "draft"}
Central(d, m, mode) == {l \in LinesOf(d, m) : d.line[l].central = mode}
Free(d) == LinesOf(d, None)
Some(S) == CHOOSE l \in S : TRUE
Sum(d, ids) == SumFunctionOnSet([l \in Line |-> d.line[l].amount], ids)
Balanced(d, m) == Sum(d, LinesOf(d, m)) = 0
Put(d, l, row) == [d EXCEPT !.line[l] = row]

\* A new line of a move, as line.create fills it in: its journal and period k
\* are those of the values or of the context, whatever those of the move are.
NewRow(m, k, amount, account, mode, st) ==
    [move |-> m, amount |-> amount, state |-> st, account |-> account, rec |-> None,
     journal |-> k[1], period |-> k[2], central |-> mode]

\* What stands for a row that is not there.
NoMove == [state |-> "none", journal |-> None, period |-> None]
NoLine == [move |-> None, amount |-> 0, state |-> "draft", account |-> CentralAccount,
           rec |-> None, journal |-> None, period |-> None, central |-> "normal"]

\* Mutant: a reconciled line may be changed.
UpdateCheckReconciled(d, ids) ==
    \A l \in ids :
        /\ d.move[d.line[l].move].state = "draft"
        /\ d.jp[KeyOf(d.line[l])] # "done"

\* Mutant: a line of a posted move may be changed.
UpdateCheckPosted(d, ids) ==
    \A l \in ids : d.line[l].rec = None /\ d.jp[KeyOf(d.line[l])] # "done"

\* Mutant: the journal and period are not looked at.
UpdateCheckClosed(d, ids) ==
    \A l \in ids : d.move[d.line[l].move].state = "draft" /\ d.line[l].rec = None

\* _update_check: lines of posted moves, reconciled lines and lines of closed
\* journal periods are not to be written or deleted.
UpdateCheck(d, ids) ==
    \A l \in ids :
        /\ d.move[d.line[l].move].state = "draft"
        /\ d.line[l].rec = None
        /\ d.jp[KeyOf(d.line[l])] # "done"

\* _update_journal_check opens the journal periods that are not there yet.
Open(d, keys) ==
    [d EXCEPT !.jp = [k \in Key |->
        IF k \in keys /\ d.jp[k] = "none" THEN "draft" ELSE d.jp[k]]]
Keys(d, ids) == {KeyOf(d.line[l]) : l \in ids}

-----------------------------------------------------------------------------
(* validate                                                                *)

Restated(row, st, of) ==
    [row EXCEPT !.state = st, !.journal = of.journal, !.period = of.period]

\* The lines take the journal and period of their move, and a state.
Restate(d, m, ids, st) ==
    [Open(d, Keys(d, ids)) EXCEPT !.line = [l \in Line |->
        IF l \in ids THEN Restated(d.line[l], st, d.move[m]) ELSE d.line[l]]]

\* _centralise: the line of the debits has their sum as a credit, and that
\* of the credits as a debit; each is the one there is or a new one.
DebitLine(d, m) ==
    Some(IF Central(d, m, "debit") # {} THEN Central(d, m, "debit") ELSE Free(d))
CreditLine(d, m) ==
    Some(IF Central(d, m, "credit") # {} THEN Central(d, m, "credit")
          ELSE Free(d) \ {DebitLine(d, m)})
Totals(d, m) ==
    LET others == LinesOf(d, m) \ {DebitLine(d, m), CreditLine(d, m)}
        debits == {l \in others : d.line[l].amount > 0}
    IN  [debit |-> -Sum(d, debits), credit |-> -Sum(d, others \ debits)]
CentralRow(d, m, l, mode, amount) ==
    IF d.line[l].move = m THEN [d.line[l] EXCEPT !.amount = amount]
    ELSE NewRow(m, KeyOf(d.move[m]), amount, CentralAccount, mode, "valid")

\* Both lines are written, and the lines that were draft are valid.
Centralise(d, m) ==
    LET c == DebitLine(d, m)
        k == CreditLine(d, m)
        e == Put(Put(d, c, CentralRow(d, m, c, "debit", Totals(d, m).debit)),
                 k, CentralRow(d, m, k, "credit", Totals(d, m).credit))
    IN  [Open(e, Keys(e, Drafts(d, m) \cup ({c, k} \ LinesOf(d, m)))) EXCEPT !.line =
            [l \in Line |-> IF l \in Drafts(d, m) THEN [e.line[l] EXCEPT !.state = "valid"]
                            ELSE e.line[l]]]

\* It raises nothing: the amounts keep their sides, and lines it makes are in
\* a draft move of an open journal period.  Lines that are there are written
\* by SQL and are not checked.
MayCentralise(d, m) ==
    /\ UpdateCheck(d, Drafts(d, m))
    /\ \A l \in Central(d, m, "debit") : d.line[l].amount <= 0
    /\ \A l \in Central(d, m, "credit") : d.line[l].amount >= 0
    /\ Central(d, m, "debit") = {} \/ Central(d, m, "credit") = {} =>
          /\ d.move[m].state = "draft" /\ d.jp[KeyOf(d.move[m])] # "done"
          /\ \E l \in Free(d) : \E k \in Free(d) : l # k

\* validate of one move: whether it goes through, ...
Validates(d, m) ==
    CASE Balanced(d, m) -> UpdateCheck(d, Drafts(d, m))
      [] ~Balanced(d, m) /\ d.move[m].journal \in Centralised -> MayCentralise(d, m)
      [] OTHER -> UpdateCheck(d, LinesOf(d, m))

\* Mutant: a move that is not balanced is left as it is.
ValidateBalanced(d, m) ==
    IF Balanced(d, m) THEN Restate(d, m, Drafts(d, m), "valid") ELSE d

\* ... and what it leaves.
Validate(d, m) ==
    CASE Balanced(d, m) -> Restate(d, m, Drafts(d, m), "valid")
      [] ~Balanced(d, m) /\ d.move[m].journal \in Centralised -> Centralise(d, m)
      [] OTHER -> Restate(d, m, LinesOf(d, m), "draft")

\* What validate returns.
Fine(d, m) == Balanced(d, m) \/ d.move[m].journal \in Centralised

Save(d, m) == Validates(d, m) /\ Commit(Validate(d, m))

-----------------------------------------------------------------------------
(* Moves                                                                   *)

Is(m, st) == move[m].state = st

\* account_move.create; its lines follow one by one, as line.create has it.
NewMove(m, j, p) ==
    /\ Is(m, "none")
    /\ Commit([Db EXCEPT !.move[m] = [state |-> "draft", journal |-> j, period |-> p]])

\* write of the period; the form has it readonly in a posted move.
WriteMovePeriod(m, p) ==
    /\ Is(m, "draft") /\ move[m].period # p
    /\ Save([Db EXCEPT !.move[m].period = p], m)

\* Mutant: the lines do not go with the move.
DeletedOnly(d, m) == [Open(d, Keys(d, LinesOf(d, m))) EXCEPT !.move[m] = NoMove]

\* The lines go with the move.
Deleted(d, m) ==
    [Open(d, Keys(d, LinesOf(d, m))) EXCEPT
        !.move[m] = NoMove,
        !.line = [l \in Line |-> IF d.line[l].move = m THEN NoLine ELSE d.line[l]]]

\* unlink
DeleteMove(m) ==
    /\ Is(m, "draft") /\ UpdateCheck(Db, LinesOf(Db, m))
    /\ Commit(Deleted(Db, m))

\* button_validate: a move that is not fine is draft, its lines too, and
\* that is committed before it raises.
ButtonValidate(m) ==
    /\ Is(m, "draft") /\ Validates(Db, m)
    /\ Commit([Validate(Db, m) EXCEPT
                  !.move[m].state = IF Fine(Db, m) THEN "posted" ELSE "draft"])

\* Mutant: the journal is not asked.
ButtonCancelAny(m) == Is(m, "posted") /\ Commit([Db EXCEPT !.move[m].state = "draft"])

\* button_cancel
ButtonCancel(m) ==
    /\ Is(m, "posted") /\ move[m].journal \in UpdatePosted
    /\ Commit([Db EXCEPT !.move[m].state = "draft"])

-----------------------------------------------------------------------------
(* Lines                                                                   *)

\* line.create: into any move there is, which validate may refuse.  Only the
\* journal period k the line is entered in must be open: it is that of the move
\* when neither the values nor the context of the journal say another.  Bound:
\* values and context do not disagree.
NewLine(m, k, amount, account) ==
    /\ ~Is(m, "none") /\ jp[k] # "done" /\ Free(Db) # {}
    /\ Save(Put(Open(Db, {k}), Some(Free(Db)),
                NewRow(m, k, amount, account, "normal", "draft")), m)

\* line.write of an amount; what a user writes in a line of centralisation is
\* written over or refused.
WriteLine(l, amount) ==
    /\ line[l].move # None /\ line[l].central = "normal" /\ amount # line[l].amount
    /\ UpdateCheck(Db, {l})
    /\ Save([Open(Db, Keys(Db, {l})) EXCEPT !.line[l].amount = amount], line[l].move)

\* line.write of the move; the form has it readonly in a valid line.  Only
\* the move it goes to is validated.
WriteLineMove(l, m) ==
    /\ line[l].move \notin {None, m} /\ line[l].state = "draft" /\ ~Is(m, "none")
    /\ UpdateCheck(Db, {l})
    /\ Save([Open(Db, Keys(Db, {l})) EXCEPT !.line[l].move = m], m)

\* line.unlink
DeleteLine(l) ==
    /\ line[l].move # None /\ UpdateCheck(Db, {l})
    /\ Save([Open(Db, Keys(Db, {l})) EXCEPT !.line[l] = NoLine], line[l].move)

-----------------------------------------------------------------------------
(* Reconciliation                                                          *)

InRec(r) == {l \in Line : line[l].rec = r}

\* reconcile: valid lines of one account, none reconciled.
MayReconcile(ids) ==
    /\ ids # {}
    /\ \A l \in ids : line[l].move # None /\ line[l].rec = None /\ line[l].state = "valid"
    /\ \E a \in CanReconcile : \A l \in ids : line[l].account = a

Marked(d, ids, r) ==
    [d EXCEPT !.line = [l \in Line |-> IF l \in ids THEN [d.line[l] EXCEPT !.rec = r]
                                       ELSE d.line[l]]]

Reconcile(ids, r) ==
    /\ MayReconcile(ids) /\ InRec(r) = {} /\ Sum(Db, ids) = 0
    /\ Commit(Marked(Db, ids, r))

\* With a write-off: a move of two lines that balance, and are valid; those in
\* the account are reconciled with the others, both when it is the account of
\* write-offs.  Bound: its journal is not centralised.
ReconcileWriteOff(ids, r, m, j, p) ==
    LET w == Sum(Db, ids)
        l == Some(Free(Db))
        k == Some(Free(Db) \ {l})
        d == [Open(Db, {<<j, p>>}) EXCEPT
                !.move[m] = [state |-> "draft", journal |-> j, period |-> p]]
        account == line[CHOOSE i \in ids : TRUE].account
        e == Put(Put(d, l, NewRow(m, <<j, p>>, -w, account, "normal", "valid")),
                 k, NewRow(m, <<j, p>>, w, WriteOff, "normal", "valid"))
    IN  /\ MayReconcile(ids) /\ InRec(r) = {} /\ w # 0
        /\ j \notin Centralised /\ jp[<<j, p>>] # "done" /\ Is(m, "none")
        /\ \E x \in Free(Db) : \E y \in Free(Db) : x # y
        /\ Commit(Marked(e, ids \cup {i \in LinesOf(e, m) : e.line[i].account = account}, r))

\* wizard_unreconcile: the reconciliation is deleted.
Unreconcile(r) ==
    /\ InRec(r) # {}
    /\ Commit(Marked(Db, InRec(r), None))

-----------------------------------------------------------------------------
(* Closing                                                                 *)

\* wizard_period_close: the journal periods there are.
ClosePeriod(p) ==
    /\ \E j \in Journal : jp[<<j, p>>] = "draft"
    /\ jp' = [k \in Key |-> IF k[2] = p /\ jp[k] # "none" THEN "done" ELSE jp[k]]
    /\ UNCHANGED <<move, line>>

\* unlink of a journal period, which may have no line.
DeleteJournalPeriod(k) ==
    /\ jp[k] # "none" /\ \A l \in Line : line[l].move # None => KeyOf(line[l]) # k
    /\ jp' = [jp EXCEPT ![k] = "none"]
    /\ UNCHANGED <<move, line>>

-----------------------------------------------------------------------------
Init ==
    /\ move = [m \in Move |-> NoMove]
    /\ line = [l \in Line |-> NoLine]
    /\ jp = [k \in Key |-> "none"]

Next ==
    \/ \E m \in Move :
          \/ \E j \in Journal, p \in Period : NewMove(m, j, p)
          \/ \E p \in Period : WriteMovePeriod(m, p)
          \/ DeleteMove(m) \/ ButtonValidate(m) \/ ButtonCancel(m)
          \/ \E k \in Key, x \in Amounts, a \in Account : NewLine(m, k, x, a)
    \/ \E l \in Line :
          \/ \E x \in Amounts : WriteLine(l, x)
          \/ \E m \in Move : WriteLineMove(l, m)
          \/ DeleteLine(l)
    \/ \E r \in Rec :
          \/ \E ids \in SUBSET Line :
                \/ Reconcile(ids, r)
                \/ \E m \in Move, j \in Journal, p \in Period : ReconcileWriteOff(ids, r, m, j, p)
          \/ Unreconcile(r)
    \/ \E p \in Period : ClosePeriod(p)
    \/ \E k \in Key : DeleteJournalPeriod(k)

Spec == Init /\ [][Next]_vars

-----------------------------------------------------------------------------
(* Properties                                                              *)

\* "For all account moves, the state is valid implies that the sum of credits
\* equals the sum of debits" (account_assert_test.xml): whatever is entered,
\* changed, moved or deleted, and in centralised journals too.
ValidBalanced ==
    \A m \in Move : (\E l \in LinesOf(Db, m) : line[l].state = "valid") => Balanced(Db, m)

\* A line that is posted or reconciled is valid, and stays so: no later
\* validation of its move takes it back to draft.
FixedIsValid ==
    \A l \in Line \ Free(Db) :
        Is(line[l].move, "posted") \/ line[l].rec # None => line[l].state = "valid"

\* What a line says, but for its reconciliation, and what a move consists of.
Says(l) == <<line[l].amount, line[l].account, line[l].state, KeyOf(line[l])>>
Rows(m) == [l \in LinesOf(Db, m) |-> Says(l)]

\* "You can not modify or delete a confirmed entry !" (_update_check): while
\* a move is posted it keeps its lines, and gets none, by no way round.
PostedKept ==
    [][\A m \in Move : Is(m, "posted") /\ Is(m, "posted")' => Rows(m)' = Rows(m)]_vars

\* "You can not add/modify entries in a closed journal."  Settled: a move that
\* is balanced, or not centralised, in a journal period that is closed, with
\* all its lines.
Settled(m) ==
    /\ ~Is(m, "none") /\ jp[KeyOf(move[m])] = "done" /\ LinesOf(Db, m) # {}
    /\ \A l \in LinesOf(Db, m) : KeyOf(line[l]) = KeyOf(move[m])
    /\ Balanced(Db, m) \/ move[m].journal \notin Centralised

\* The two ways by which a line of an open journal period comes into a move of
\* another: it is entered there, or taken from another move.  Neither asks for
\* the journal period of the move.
Intruded(m) ==
    \/ \E k \in Key, x \in Amounts, a \in Account :
          k # KeyOf(move[m]) /\ NewLine(m, k, x, a)
    \/ \E l \in Line : WriteLineMove(l, m)

\* The lines of a move that were entered, and not made by _centralise.
ByHand(m) == LinesOf(Db, m) \ (Central(Db, m, "debit") \cup Central(Db, m, "credit"))

\* What was entered in a settled move stays as it is, whatever the code does
\* (_update_check, validate and the SQL of _centralise); and it gets no line,
\* and none of its lines of centralisation is rewritten, but with a line that
\* intrudes.
ClosedKept ==
    [][\A m \in Move : Settled(m) =>
          /\ \A l \in ByHand(m) : line'[l].move = m /\ Says(l)' = Says(l)
          /\ Rows(m)' = Rows(m) \/ Intruded(m)]_vars
==============================================================================
