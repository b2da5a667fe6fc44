--------------------------- MODULE MCProcurement ---------------------------
(***************************************************************************)
(* The workflow of mrp.procurement (mrp_workflow.xml) over a purchase      *)
(* order: the order tells its procurement 'subflow.delivery_done' through  *)
(* signal_send, before it is over; a make-to-stock procurement waits for   *)
(* a stock move through a trigger; an unfinished one starts again; and two *)
(* orders can be merged (trg_redirect, wizard_group.py).  The order is the *)
(* short one: draft, confirmed, picking done, done or cancelled.           *)
(***************************************************************************)
EXTENDS Workflow, TLC

\* <<activity, workflow, kind>>
Rows == {
    <<"draft",      "proc", "dummy">>,
    <<"confirm",    "proc", "function">>,
    <<"to_stock",   "proc", "function">>,
    <<"buy",        "proc", "subflow">>,
    <<"make_done",  "proc", "dummy">>,
    <<"done",       "proc", "function">>,
    <<"cancel",     "proc", "function">>,
    <<"po_draft",     "po", "dummy">>,
    <<"po_confirmed", "po", "function">>,
    <<"po_cancel",    "po", "stopall">>,
    <<"po_pick_done", "po", "function">>,
    <<"po_done",      "po", "function">> }

All == {"stock", "buy", "moved", "part"}
\* <<from, to, signal, data the condition holds for>>
Moves == {
    <<"draft", "confirm", "button_confirm", All>>,
    <<"confirm", "to_stock", "button_check", {"stock", "part"}>>,
    <<"confirm", "buy", "button_check", {"buy"}>>,
    <<"to_stock", "make_done", "none", {"moved", "part"}>>,
    <<"buy", "make_done", "subflow.delivery_done", All>>,
    <<"buy", "cancel", "subflow.cancel", All>>,
    <<"make_done", "done", "none", {"moved", "buy"}>>,
    <<"make_done", "confirm", "none", {"part", "stock"}>>,
    <<"po_draft", "po_confirmed", "purchase_confirm", All>>,
    <<"po_confirmed", "po_cancel", "purchase_cancel", All>>,
    <<"po_confirmed", "po_pick_done", "purchase_approve", All>>,
    <<"po_pick_done", "po_done", "none", All>> }

MCAct == {r[1] : r \in Rows}
RowOf(a) == CHOOSE r \in Rows : r[1] = a
Write(d) == <<[op |-> "write", data |-> d]>>

MCSig == ({m[3] : m \in Moves} \ {"none"}) \cup {"subflow.other"}
MCRes == {"PROC", "PO", "PO2", "MOVE"}
MCOnCreate == [r \in MCRes |-> CASE r = "PROC" -> {"proc"} [] r = "MOVE" -> {}
                                 [] OTHER -> {"po"}]
MCUserWrite == [r \in MCRes |-> IF r = "PROC" THEN {"buy"} ELSE {}]
MCWatchData == [r \in MCRes |-> IF r = "MOVE" THEN {"moved", "part"} ELSE {}]
MCActWkf == [a \in MCAct |-> RowOf(a)[2]]
MCKind == [a \in MCAct |-> RowOf(a)[3]]
MCSplitMode == [a \in MCAct |-> "XOR"]
MCSignalSend == [a \in MCAct |-> IF a = "po_pick_done" THEN "subflow.delivery_done" ELSE "none"]
MCStopSig == [a \in MCAct |-> IF a \in {"cancel", "po_cancel"} THEN "subflow.cancel"
                              ELSE "subflow.other"]
MCSubWkf == [a \in MCAct |-> "po"]
MCAction == [a \in MCAct |-> CASE MCKind[a] = "dummy" -> {}
                               [] a = "buy" -> {<<[op |-> "new"]>> \o Write("nodata")}
                               [] OTHER -> {Write("nodata")}]
MCFrom == [t \in Moves |-> t[1]]
MCTo == [t \in Moves |-> t[2]]
MCTransSig == [t \in Moves |-> t[3]]
MCCond == [t \in Moves |-> t[4]]
MCWatch == [t \in Moves |-> IF t[1] = "to_stock" THEN {"MOVE"} ELSE {}]
=============================================================================
