------------------------------- MODULE MCStock -------------------------------
(***************************************************************************)
(* A sale takes what something else is to bring: one piece that comes to   *)
(* the store, beside two that are there, one in the store itself and one   *)
(* on its shelf; or two pieces that two moves bring, one of which may be   *)
(* split by a reservation.  One row more can be made: by a reservation, a  *)
(* partial delivery or an inventory.                                       *)
(***************************************************************************)
EXTENDS Stock

Place == {"supplier", "store", "shelf", "output", "customer", "loss"}
PlaceUnder == [l \in Place |-> IF l = "store" THEN <<"store", "shelf">> ELSE <<l>>]
PlaceFound == [l \in Place |-> IF l \in {"store", "shelf"} THEN 1 ELSE 0]
MCRow(st, src, dst, qty, p, n) ==
    [state |-> st, src |-> src, dst |-> dst, qty |-> qty, pick |-> p, dest |-> n]

\* A purchase feeds a move of the sale.
BuyAndSell ==
    <<MCRow("assigned", "supplier", "store", 1, None, 3),
      MCRow("draft", "store", "customer", 2, 1, None),
      MCRow("waiting", "store", "customer", 1, 1, None)>>

\* Two moves feed that of picking 2: one of picking 1, a copy of a receipt that
\* is made to fetch the pieces from the store, and a purchase.
FetchAndSell ==
    <<MCRow("assigned", "store", "output", 2, 1, 3),
      MCRow("assigned", "supplier", "output", 1, None, 3),
      MCRow("waiting", "output", "customer", 2, 2, None)>>

ByHand == [auto |-> FALSE, one |-> FALSE]
Automatic == [auto |-> TRUE, one |-> FALSE]
AllAtOnce == [auto |-> TRUE, one |-> TRUE]
AllKinds == {ByHand, Automatic, AllAtOnce}

TwoStores ==
    {[moves |-> BuyAndSell, wf |-> <<"draft">>, kind |-> <<k>>] : k \in AllKinds}
    \cup {[moves |-> FetchAndSell, wf |-> <<"draft", "confirmed">>, kind |-> <<k, n>>] :
             k \in AllKinds, n \in AllKinds}

\* The store is counted.
Counted == <<[loc |-> "store", qty |-> 1]>>
==============================================================================
