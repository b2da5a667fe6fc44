------------------------------- MODULE MCInvoice -----------------------------
(* An invoice due in two parts in a sales journal, and a refund of it in a *)
(* journal whose entries can be cancelled, paid through the latter.        *)
EXTENDS Invoice, TLC

CONSTANTS m1, m2, m3, r1, r2, out, refund, sales, other

MCParts == out :> <<1, 1>> @@ refund :> <<-1>>
MCJournalOf == out :> sales @@ refund :> other
MCAmounts == {-1}

\* Bound: moves balance and have two lines, and three in the journal of the
\* sales; but for that of the refund, when one of its lines is entered again.
\* A closed period is not gone on from, nor a sum of three (MCLedger has all
\* that is left out here).
Entire(m) ==
    /\ Balanced(Db, m)
    /\ Cardinality(LinesOf(Db, m)) = IF move[m].journal = sales THEN 3 ELSE 2
InTheMaking(m) == m = invoice[refund].move /\ Cardinality(LinesOf(Db, m)) = 1
Small ==
    /\ \A m \in Move : Is(m, "none") \/ Entire(m) \/ InTheMaking(m)
    /\ \A l \in Line : line[l].amount \in -2..2
    /\ \A k \in Key : jp[k] # "done"

\* Which row of the table a line is in makes no difference.
LinesAlike ==
    LET seen(l) == <<line[l], {i \in Invoice : l \in invoice[i].wait}>>
    IN  <<move, jp, [i \in Invoice |-> <<invoice[i].state, invoice[i].move>>],
          {<<seen(l), Cardinality({k \in Line : seen(k) = seen(l)})>> : l \in Line}>>

Alike == Permutations({m1, m2, m3}) \cup Permutations({r1, r2})
==============================================================================
