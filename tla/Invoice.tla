-------------------------------- MODULE Invoice ------------------------------
(***************************************************************************)
(* Invoices over the ledger (bin/addons/account/invoice.py and the         *)
(* workflow in account_invoice_workflow.xml): an invoice is issued as a    *)
(* posted move, waits for the reconciliation of the lines to be paid, and  *)
(* may be cancelled, all beside whatever else is done with the entries.    *)
(* The state of an invoice and the activity its workflow stands on are     *)
(* written by the same action, and are one value here.                     *)
(***************************************************************************)
EXTENDS Ledger, Sequences, Functions

CONSTANTS
    Invoice,            \* bound: the invoices there can be
    Parts,              \* the amounts to be paid of an invoice, by its payment term
    JournalOf,          \* the journal of an invoice
    Receivable,         \* the account of the invoices
    Counter,            \* the account of what is sold, and of the payments
    PayAmounts          \* bound: what is paid at once

ASSUME InvoiceAssumption ==
    /\ None \notin Invoice
    /\ Parts \in [Invoice -> Seq(Int)]
    /\ JournalOf \in [Invoice -> Journal \ Centralised]
    /\ Receivable \in CanReconcile /\ Counter \in Account /\ WriteOff # Receivable
    /\ Counter # Receivable /\ CanReconcile \subseteq Account
    /\ PayAmounts \subseteq Int

VARIABLE invoice    \* account_invoice, with the lines its workflow waits for

allVars == <<vars, invoice>>

-----------------------------------------------------------------------------
(* Entries the code makes                                                  *)

After == [move |-> move', line |-> line', jp |-> jp']

\* account_move.create with lines, given as amounts and accounts, that balance.
Slots(d, n) == CHOOSE s \in Injection(1..n, Free(d)) : TRUE
MayEnter(d, m, j, p, rows) ==
    /\ d.move[m].state = "none" /\ d.jp[<<j, p>>] # "done"
    /\ Cardinality(Free(d)) >= Len(rows)
Entered(d, m, j, p, rows) ==
    LET at == Slots(d, Len(rows))
        e == [Open(d, {<<j, p>>}) EXCEPT
                !.move[m] = [state |-> "draft", journal |-> j, period |-> p]]
    IN  [e EXCEPT !.line = [l \in Line |->
            IF \E k \in DOMAIN rows : at[k] = l
            THEN LET row == rows[CHOOSE k \in DOMAIN rows : at[k] = l]
                 IN  NewRow(m, <<j, p>>, row[1], row[2], "normal", "valid")
            ELSE d.line[l]]]

\* The lines of a move in the account of the invoices.
Due(d, m) == {l \in LinesOf(d, m) : m # None /\ d.line[l].account = Receivable}

\* move_line_id_payment_get and test_paid
PaymentLines(d, i) == Due(d, invoice[i].move)
TestPaid(d, i) ==
    PaymentLines(d, i) # {} /\ \A l \in PaymentLines(d, i) : d.line[l].rec # None

-----------------------------------------------------------------------------
(* What entries do to invoices                                             *)

Waits(i) == invoice[i].state \in {"proforma", "open"}

\* Mutant: only the lines of one invoice are looked at.
PaidByHalf(i, d, ids) == Waits(i) /\ invoice[i].wait \subseteq ids /\ TestPaid(d, i)

\* reconcile triggers the workflows that wait for a line, which try test_paid.
PaidBy(i, d, ids) == Waits(i) /\ invoice[i].wait \cap ids # {} /\ TestPaid(d, i)

\* The invoices after a step of the ledger: a move that is deleted is no
\* longer pointed to, and a line that is deleted is waited for in vain.
Follow ==
    LET reconciled == {l \in Line : line[l].rec = None /\ line'[l].rec # None}
        gone(m) == m # None /\ move'[m].state = "none"
    IN  invoice' = [i \in Invoice |->
            [state |-> IF PaidBy(i, After, reconciled) THEN "paid" ELSE invoice[i].state,
             move |-> IF gone(invoice[i].move) THEN None ELSE invoice[i].move,
             wait |-> {l \in invoice[i].wait : line'[l].move # None}]]

LedgerStep == Next /\ Follow

-----------------------------------------------------------------------------
(* Invoices                                                                *)

InState(i, states) == invoice[i].state \in states
Becomes(i, st, m, wait) ==
    invoice' = [invoice EXCEPT ![i] = [state |-> st, move |-> m, wait |-> wait]]

\* create, copy, refund: the copy has no move.
NewInvoice(i) == InState(i, {"none"}) /\ Becomes(i, "draft", None, {}) /\ UNCHANGED vars

DeleteInvoice(i) ==
    InState(i, {"draft", "cancel"}) /\ Becomes(i, "none", None, {}) /\ UNCHANGED vars

\* What is sold against what is to be paid.
Total(i) == SumFunction(Parts[i])
EntryRows(i) ==
    [k \in 1..(Len(Parts[i]) + 1) |->
        IF k <= Len(Parts[i]) THEN <<Parts[i][k], Receivable>> ELSE <<-Total(i), Counter>>]

\* The lines of an issued invoice are waited for, unless they are reconciled.
Stands(i, st, m, d) ==
    LET due == Due(d, m)
        paid == due # {} /\ \A l \in due : d.line[l].rec # None
    IN  Becomes(i, IF paid THEN "paid" ELSE st, m, IF paid THEN {} ELSE due)

\* To proforma or open: action_move_create, which posts the move it makes; an
\* invoice that has one keeps it.
Issue(i, st, m, p) ==
    /\ InState(i, {"draft"}) \/ (st = "open" /\ InState(i, {"proforma"}))
    /\ IF invoice[i].move # None
       THEN Stands(i, st, invoice[i].move, Db) /\ UNCHANGED vars
       ELSE LET d == [Entered(Db, m, JournalOf[i], p, EntryRows(i)) EXCEPT
                        !.move[m].state = "posted"]
            IN  /\ MayEnter(Db, m, JournalOf[i], p, EntryRows(i))
                /\ Commit(d) /\ Stands(i, st, m, d)

\* action_cancel: the move is cancelled and deleted, or nothing is done.
Cancel(i) ==
    LET m == invoice[i].move
        d == [Db EXCEPT !.move[m].state = "draft"]
    IN  /\ InState(i, {"draft", "proforma", "open"})
        /\ Becomes(i, "cancel", None, {})
        /\ IF m = None THEN UNCHANGED vars
           ELSE /\ move[m].journal \in UpdatePosted /\ UpdateCheck(d, LinesOf(d, m))
                /\ Commit(Deleted(d, m))

\* action_cancel_draft
CancelDraft(i) == InState(i, {"cancel"}) /\ Becomes(i, "draft", None, {}) /\ UNCHANGED vars

\* A write of the invoice tries its transitions.
WriteInvoice(i) ==
    /\ Waits(i) /\ TestPaid(Db, i)
    /\ Becomes(i, "paid", invoice[i].move, {}) /\ UNCHANGED vars

\* pay_and_reconcile: a move of the payment, and if anything is left one of the
\* rest, in a journal of its own and the same period; their lines are reconciled
\* with those of the invoice.  Bound: neither journal is centralised.
Pay(i, x, r, j, o, p, m, n) ==
    LET sign == IF Total(i) > 0 THEN -1 ELSE 1
        rows == <<<<sign * x, Receivable>>, <<-sign * x, Counter>>>>
        d == Entered(Db, m, j, p, rows)
        ids == PaymentLines(Db, i) \cup Due(d, m)
        w == Sum(d, ids)
        rest == <<<<-w, Receivable>>, <<w, WriteOff>>>>
        e == Entered(d, n, o, p, rest)
    IN  /\ ~InState(i, {"none", "draft"}) /\ invoice[i].move # None
        /\ MayReconcile(PaymentLines(Db, i)) \/ PaymentLines(Db, i) = {}
        /\ {j, o} \cap Centralised = {} /\ InRec(r) = {}
        /\ MayEnter(Db, m, j, p, rows)
        /\ IF w = 0 THEN m = n /\ j = o /\ Commit(Marked(d, ids, r))
           ELSE MayEnter(d, n, o, p, rest) /\ Commit(Marked(e, ids \cup Due(e, n), r))
        /\ Follow

-----------------------------------------------------------------------------
IInit == Init /\ invoice = [i \in Invoice |-> [state |-> "none", move |-> None, wait |-> {}]]

INext ==
    \/ LedgerStep
    \/ \E i \in Invoice :
          \/ NewInvoice(i) \/ DeleteInvoice(i) \/ CancelDraft(i) \/ Cancel(i) \/ WriteInvoice(i)
          \/ \E m \in Move, p \in Period, st \in {"proforma", "open"} : Issue(i, st, m, p)
          \/ \E x \in PayAmounts, r \in Rec, j, o \in Journal, p \in Period, m, n \in Move :
                Pay(i, x, r, j, o, p, m, n)

ISpec == IInit /\ [][INext]_allVars

-----------------------------------------------------------------------------
(* Properties                                                              *)

\* An invoice stands on a move of its own for as long as it is issued, and on
\* none before and after.  In a journal whose entries cannot be cancelled the
\* move stays posted and due in full, whatever is done with its lines.
MoveStands ==
    /\ \A i, k \in Invoice : invoice[i].move = invoice[k].move => i = k \/ invoice[i].move = None
    /\ \A i \in Invoice : InState(i, {"none", "draft", "cancel"}) => invoice[i].move = None
    /\ \A i \in Invoice :
          LET m == invoice[i].move
          IN  InState(i, {"proforma", "open", "paid"}) /\ JournalOf[i] \notin UpdatePosted =>
                /\ m # None /\ Is(m, "posted")
                /\ \A l \in LinesOf(Db, m) : line[l].state = "valid"
                /\ Sum(Db, Due(Db, m)) = Total(i)

\* An invoice whose lines are all reconciled, together or one by one, by its
\* payment or by hand, is not left waiting (t7 and t8 of the workflow).
PaidInTime ==
    \A i \in Invoice : JournalOf[i] \notin UpdatePosted => ~(Waits(i) /\ TestPaid(Db, i))
==============================================================================
