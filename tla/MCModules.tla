------------------------------ MODULE MCModules ------------------------------
(* Three modules, product and two that may depend on it and on one another, in *)
(* a cycle too.                                                             *)
EXTENDS Modules

CONSTANTS product, sale, stock

MCDepGraphs ==
    {d \in [Mod -> SUBSET Mod] :
        /\ d[product] = {}
        /\ sale \notin d[sale] /\ stock \notin d[stock]
        /\ d[sale] \subseteq {product, stock} /\ d[stock] \subseteq {product, sale}}
=============================================================================
