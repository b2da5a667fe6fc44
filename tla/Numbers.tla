------------------------------- MODULE Numbers -------------------------------
(***************************************************************************)
(* What a sequence (ir.sequence) promises to the documents that are        *)
(* numbered from it: seen from outside, each transaction that ends takes   *)
(* the next few numbers, and documents come into being numbered in order,  *)
(* without gap or repetition.                                              *)
(***************************************************************************)
EXTENDS Integers, Sequences

CONSTANTS
    Start,      \* number_next at first
    Inc         \* number_increment

VARIABLE docs   \* the numbers of the documents, in the order they came to be

\* The number of the n-th document.
Number(n) == Start + (n - 1) * Inc

\* A transaction adds documents.
Take ==
    /\ docs' \in Seq(Int) /\ Len(docs) <= Len(docs')
    /\ \A i \in DOMAIN docs' :
         docs'[i] = IF i \in DOMAIN docs THEN docs[i] ELSE Number(i)

Init == docs = <<>>
Spec == Init /\ [][Take]_docs

\* Documents are numbered in the order in which they are committed.
InOrder == docs \in Seq(Int) /\ \A i \in DOMAIN docs : docs[i] = Number(i)
=============================================================================
