------------------------------ MODULE MCSequence ------------------------------
(* Two requests, up to two numbers each: one holds the lock while the other    *)
(* waits for it, with an old snapshot or with none, or each for the other.     *)
EXTENDS Sequence
=============================================================================
