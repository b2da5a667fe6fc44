------------------------------- MODULE MCLedger ------------------------------
(* Two moves of up to three lines and a fourth line for a write-off, one      *)
(* journal with centralisation and one without, two periods.                  *)
EXTENDS Ledger, TLC

MCAmounts == {-1, 1}
Alike == Permutations(Move) \cup Permutations(Period)

\* Which row of the table a line is in makes no difference: a table is the bag
\* of its rows.
LinesAlike ==
    <<move, jp, {<<line[l], Cardinality({k \in Line : line[k] = line[l]})>> : l \in Line}>>

\* Bound: the fourth line is for a write-off; what else takes it is checked and
\* not gone on from.
Small ==
    \/ Free(Db) # {}
    \/ /\ \E l \in Line : line[l].rec # None
       /\ \A m \in Move : Cardinality(LinesOf(Db, m)) = 2
       /\ \A k \in Key : jp[k] # "done"
==============================================================================
