----------------------------- MODULE MCPurchase -----------------------------
(***************************************************************************)
(* The workflows of purchase.order, account.invoice and stock.picking      *)
(* (purchase_workflow.xml, account_invoice_workflow.xml,                   *)
(* stock_workflow.xml) for one order of a stockable product invoiced from  *)
(* the order: two subflows run at once and an AND join ends the order.     *)
(* The picking is the short one: draft, confirmed, done or cancelled.      *)
(***************************************************************************)
EXTENDS Workflow, TLC

\* <<activity, workflow, kind, split, join>>
Rows == {
    <<"po_draft",      "po",  "dummy",    "XOR", "XOR">>,
    <<"po_confirmed",  "po",  "function", "XOR", "XOR">>,
    <<"po_cancel",     "po",  "stopall",  "XOR", "XOR">>,
    <<"po_exc_inv",    "po",  "function", "XOR", "XOR">>,
    <<"po_exc_pick",   "po",  "function", "XOR", "XOR">>,
    <<"po_router",     "po",  "function", "OR",  "XOR">>,
    <<"po_invoice",    "po",  "subflow",  "XOR", "XOR">>,
    <<"po_inv_done",   "po",  "function", "XOR", "XOR">>,
    <<"po_inv_end",    "po",  "dummy",    "XOR", "XOR">>,
    <<"po_picking",    "po",  "subflow",  "XOR", "XOR">>,
    <<"po_pick_done",  "po",  "function", "XOR", "XOR">>,
    <<"po_done",       "po",  "function", "XOR", "AND">>,
    <<"inv_draft",     "inv", "dummy",    "XOR", "XOR">>,
    <<"inv_open",      "inv", "function", "XOR", "XOR">>,
    <<"inv_paid",      "inv", "function", "XOR", "XOR">>,
    <<"inv_cancel",    "inv", "function", "XOR", "XOR">>,
    <<"pick_draft",    "pick", "dummy",   "XOR", "XOR">>,
    <<"pick_confirmed","pick", "function","XOR", "XOR">>,
    <<"pick_done",     "pick", "function","XOR", "XOR">>,
    <<"pick_cancel",   "pick", "function","XOR", "XOR">> }

\* <<from, to, signal>>; every condition is true of the order, except that an
\* invoice is paid when its move lines are reconciled.
Moves == {
    <<"po_draft", "po_confirmed", "purchase_confirm">>,
    <<"po_draft", "po_cancel", "purchase_cancel">>,
    <<"po_confirmed", "po_cancel", "purchase_cancel">>,
    <<"po_confirmed", "po_router", "purchase_approve">>,
    <<"po_router", "po_picking", "none">>,
    <<"po_router", "po_invoice", "none">>,
    <<"po_exc_pick", "po_pick_done", "picking_ok">>,
    <<"po_exc_inv", "po_inv_done", "invoice_ok">>,
    <<"po_exc_pick", "po_cancel", "cancel">>,
    <<"po_exc_inv", "po_cancel", "cancel">>,
    <<"po_picking", "po_exc_pick", "subflow.cancel">>,
    <<"po_invoice", "po_exc_inv", "subflow.cancel">>,
    <<"po_picking", "po_pick_done", "subflow.done">>,
    <<"po_invoice", "po_inv_done", "subflow.paid">>,
    <<"po_pick_done", "po_done", "none">>,
    <<"po_inv_done", "po_inv_end", "none">>,
    <<"po_inv_end", "po_done", "none">>,
    <<"inv_draft", "inv_open", "invoice_open">>,
    <<"inv_draft", "inv_cancel", "invoice_cancel">>,
    <<"inv_open", "inv_cancel", "invoice_cancel">>,
    <<"inv_open", "inv_paid", "none">>,
    <<"pick_draft", "pick_confirmed", "button_confirm">>,
    <<"pick_draft", "pick_cancel", "button_cancel">>,
    <<"pick_confirmed", "pick_cancel", "button_cancel">>,
    <<"pick_confirmed", "pick_done", "button_done">> }

RowOf(a) == CHOOSE r \in Rows : r[1] = a
Column(k) == [a \in {r[1] : r \in Rows} |-> RowOf(a)[k]]

Own(d) == [op |-> "write", data |-> d]
MCWkf == {"po", "inv", "pick"}
MCAct == {r[1] : r \in Rows}
MCTrans == Moves
MCNoSig == "none"
MCSig == ({m[3] : m \in Moves} \ {"none"}) \cup {"subflow.other"}
MCRes == {"PO", "INV", "PICK", "LINE"}
MCNoRes == "nores"
MCData == {"new", "reconciled"}
MCNoData == "nodata"
MCOnCreate == [r \in MCRes |-> CASE r = "PO" -> {"po"} [] r = "INV" -> {"inv"}
                                 [] r = "PICK" -> {"pick"} [] OTHER -> {}]
MCUserWrite == [r \in MCRes |-> {"new"}]
\* LINE: the move lines of the invoice, reconciled with a payment
MCWatchData == [r \in MCRes |-> IF r = "LINE" THEN {"reconciled"} ELSE {}]
MCActWkf == Column(2)
MCKind == Column(3)
MCSplitMode == Column(4)
MCJoinMode == Column(5)
MCFlowStart == {"po_draft", "inv_draft", "pick_draft"}
MCFlowStop == {"po_cancel", "po_done", "inv_paid", "inv_cancel", "pick_done", "pick_cancel"}
MCSignalSend == [a \in MCAct |-> "none"]
MCStopSig == [a \in MCAct |-> CASE a \in {"po_done", "pick_done"} -> "subflow.done"
                                [] a = "inv_paid" -> "subflow.paid"
                                [] a \in {"inv_cancel", "pick_cancel", "po_cancel"} -> "subflow.cancel"
                                [] OTHER -> "subflow.other"]
MCSubWkf == [a \in MCAct |-> IF a = "po_invoice" THEN "inv" ELSE "pick"]
MCAction == [a \in MCAct |->
    CASE MCKind[a] = "dummy" -> {}
      \* create the invoice, then write invoice_id in the order
      [] a = "po_invoice" -> {<<[op |-> "new"], Own("nodata")>>}
      \* create the picking, then confirm it
      [] a = "po_picking" -> {<<[op |-> "new"],
                               [op |-> "signal", sig |-> "button_confirm", own |-> FALSE]>>}
      \* the moves are cancelled, which signals their picking again
      [] a = "pick_cancel" -> {<<[op |-> "signal", sig |-> "button_cancel", own |-> TRUE],
                                Own("nodata")>>}
      [] OTHER -> {<<Own("nodata")>>}]
MCFrom == [t \in Moves |-> t[1]]
MCTo == [t \in Moves |-> t[2]]
MCTransSig == [t \in Moves |-> t[3]]
MCCond == [t \in Moves |-> IF t[2] = "inv_paid" THEN {"reconciled"} ELSE MCData]
MCWatch == [t \in Moves |-> IF t[2] = "inv_paid" THEN {"LINE"} ELSE {}]
=============================================================================
