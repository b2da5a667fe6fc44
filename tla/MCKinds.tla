------------------------------ MODULE MCKinds ------------------------------
(***************************************************************************)
(* A workflow that uses every feature of the engine once: AND split and    *)
(* join, a loop back into the split, a subflow without and one with an     *)
(* action (which creates a record, finds one, or returns False), stopall,  *)
(* signal_send and a trigger.                                              *)
(***************************************************************************)
EXTENDS Workflow, TLC

MCRes == {"r1", "r2"}
MCAct == {"s", "a", "b", "e", "z", "v1", "v2", "v3", "u1", "u2"}
\* s splits into a, b and e, and e joins the three; a may loop back to s.
MCTrans == {"s_a", "s_b", "s_e", "a_e", "a_s", "b_e", "b_z", "v1_v2", "v1_v3", "u1_u2"}
MCFrom == [t \in MCTrans |-> CASE t \in {"s_a", "s_b", "s_e"} -> "s"
                               [] t \in {"a_e", "a_s"} -> "a"
                               [] t \in {"b_e", "b_z"} -> "b"
                               [] t \in {"v1_v2", "v1_v3"} -> "v1"
                               [] t = "u1_u2" -> "u1"]
MCTo == [t \in MCTrans |-> CASE t = "s_a" -> "a" [] t = "s_b" -> "b"
                             [] t \in {"s_e", "a_e", "b_e"} -> "e"
                             [] t = "a_s" -> "s" [] t = "b_z" -> "z"
                             [] t = "v1_v2" -> "v2" [] t = "v1_v3" -> "v3" [] t = "u1_u2" -> "u2"]
MCTransSig == [t \in MCTrans |-> CASE t \in {"s_b", "v1_v2"} -> "go"
                                   [] t \in {"a_s", "v1_v3"} -> "again"
                                   [] t = "b_e" -> "subflow.v2"
                                   [] t = "b_z" -> "halt"
                                   [] OTHER -> "none"]
MCSig == {"go", "again", "halt", "subflow.v2", "subflow.other"}
MCActWkf == [a \in MCAct |-> CASE a \in {"v1", "v2", "v3"} -> "v"
                               [] a \in {"u1", "u2"} -> "u" [] OTHER -> "w"]
MCKind == [a \in MCAct |-> CASE a \in {"a", "b"} -> "subflow" [] a = "z" -> "stopall"
                             [] a = "u2" -> "function" [] OTHER -> "dummy"]
MCSplitMode == [a \in MCAct |-> IF a = "s" THEN "AND" ELSE "XOR"]
MCJoinMode == [a \in MCAct |-> IF a = "e" THEN "AND" ELSE "XOR"]
MCSignalSend == [a \in MCAct |-> IF a = "v3" THEN "halt" ELSE "none"]
MCStopSig == [a \in MCAct |-> IF a = "v2" THEN "subflow.v2" ELSE "subflow.other"]
MCSubWkf == [a \in MCAct |-> IF a = "b" THEN "v" ELSE "u"]
MCOnCreate == [r \in MCRes |-> IF r = "r1" THEN {"w"} ELSE {"u"}]
MCAction == [a \in MCAct |->
    CASE a = "a" -> {<<>>, <<[op |-> "new"]>>, <<[op |-> "find"]>>}
      [] a = "u2" -> {<<[op |-> "trigger", rec |-> "r2", data |-> "fin"]>>}
      [] a = "z" -> {<<[op |-> "write", data |-> "nodata"]>>}
      [] OTHER -> {}]
MCData == {"d", "fin"}
MCCond == [t \in MCTrans |-> IF t = "a_e" THEN {"fin"} ELSE MCData]
MCWatch == [t \in MCTrans |-> IF t = "a_e" THEN {"r2"} ELSE {}]
MCWatchData == [r \in MCRes |-> IF r = "r2" THEN {"fin"} ELSE {}]
MCUserWrite == [r \in MCRes |-> {"d"}]
=============================================================================
