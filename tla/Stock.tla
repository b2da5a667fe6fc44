-------------------------------- MODULE Stock --------------------------------
(***************************************************************************)
(* Stock moves, pickings and inventories (bin/addons/stock/stock.py, the   *)
(* workflow of stock_workflow.xml, wizard_partial_picking.py), for one     *)
(* product in one unit.  A request is a transaction, and an action here:   *)
(* its operator gives the tables it leaves from those it found, with every *)
(* handler that the workflows run on the way.  What the handlers read      *)
(* again and what a browse record remembers is kept apart.                 *)
(***************************************************************************)
EXTENDS Integers, SequencesExt, FiniteSetsExt

CONSTANTS
    Loc,        \* locations
    Under,      \* the locations under a location and itself, in search order
    Found,      \* what earlier moves left at a location
    Loss,       \* the location inventories take differences from
    MoveId, Picking,    \* bounds: the rows there can be, numbers from 1
    None,       \* no picking, no move
    Kinds,      \* the kinds of pickings: [auto |-> auto_picking, one |-> move type 'one']
    Stores,     \* the rows there may be at first, as other components create
                \* them: moves, and of the pickings wf and kind
    Lines,      \* the lines of the inventory: a location and what was counted
    MaxQty      \* bound: the quantities a user enters

ASSUME StockAssumption ==
    /\ Loss \in Loc /\ MoveId \subseteq Nat \ {0} /\ Picking \subseteq Nat \ {0}
    /\ None \notin MoveId \cup Picking /\ MaxQty \in Nat
    /\ Kinds \subseteq [auto : BOOLEAN, one : BOOLEAN]
    /\ Found \in [Loc -> Nat] /\ Under \in [Loc -> Seq(Loc)]

VARIABLES
    move,       \* stock_move
    wf,         \* the activity of a picking's workflow, which is its state
    kind,       \* the kind of a picking, which a split copies
    inv         \* an inventory: its state and its moves

vars == <<move, wf, kind, inv>>

States == {"draft", "waiting", "confirmed", "assigned", "done", "cancel"}
Row == [state : States \cup {"none"}, src : Loc, dst : Loc, qty : Nat,
        pick : Picking \cup {None}, dest : MoveId \cup {None}]

TypeOK ==
    /\ move \in [MoveId -> Row]
    /\ wf \in [Picking -> {"none", "draft", "confirmed", "assigned", "done", "cancel"}]
    /\ kind \in [Picking -> Kinds]
    /\ inv \in [state : {"draft", "done"}, moves : SUBSET MoveId]

\* The tables as a request finds them and makes them; `ok` is lost when a
\* request needs a row more than the bounds have.
Db == [move |-> move, wf |-> wf, kind |-> kind, ok |-> TRUE]

Ascending(S) == SetToSortSeq(S, <)
OfPick(d, p) == {m \in MoveId : d.move[m].state # "none" /\ d.move[m].pick = p}
In(d, ids, states) == {m \in ids : d.move[m].state \in states}
Write(d, ids, st) ==
    [d EXCEPT !.move = [m \in MoveId |->
        IF m \in ids THEN [d.move[m] EXCEPT !.state = st] ELSE d.move[m]]]
Qty(d, ids) == FoldSet(LAMBDA m, n : n + d.move[m].qty, 0, ids)

\* A row is created with the next number.
Create(d, row) ==
    LET free == In(d, MoveId, {"none"})
    IN  IF free = {} THEN [d EXCEPT !.ok = FALSE]
        ELSE [d EXCEPT !.move[Min(free)] = row]

-----------------------------------------------------------------------------
(* Quantities                                                              *)

Into(d, l, states) == Qty(d, {m \in In(d, MoveId, states) : d.move[m].dst = l})
OutOf(d, l, states) == Qty(d, {m \in In(d, MoveId, states) : d.move[m].src = l})

\* _product_get: what is at one location.
Real(d, l) ==
    Found[l] + Qty(d, {m \in In(d, MoveId, {"done"}) : d.move[m].dst = l /\ d.move[m].src # l})
             - Qty(d, {m \in In(d, MoveId, {"done"}) : d.move[m].src = l /\ d.move[m].dst # l})

\* What _product_reserve finds at one location: what has come in, less what
\* went out or is to go out.
Free(d, l) == Found[l] + Into(d, l, {"done"}) - OutOf(d, l, {"done", "assigned"})

\* Mutant: all of it from the first location that has any.
ReserveFirst(d, l, qty) ==
    LET has == SelectSeq(Under[l], LAMBDA k : Free(d, k) > 0)
    IN  IF has = << >> THEN << >> ELSE <<<<qty, has[1]>>>>

\* _product_reserve: <<quantity, location>>, first location first; nothing
\* when the locations do not have it all together.
Reserve(d, l, qty) ==
    LET take[i \in 0 .. Len(Under[l])] ==
            IF i = 0 THEN [left |-> qty, got |-> << >>, over |-> FALSE]
            ELSE LET t == take[i - 1]
                     has == Free(d, Under[l][i])
                     n == Min({t.left, has})
                 IN  IF t.over \/ has <= 0 THEN t
                     ELSE [left |-> t.left - n, got |-> Append(t.got, <<n, Under[l][i]>>),
                           over |-> n = t.left]
        all == take[Len(Under[l])]
    IN  IF all.over THEN all.got ELSE << >>

-----------------------------------------------------------------------------
(* The workflow of a picking.  An item whose action runs is 'running' and  *)
(* is not processed again: its activity is no resting one meanwhile.       *)

\* test_assigned: the first move that decides does, as they come.
TestAssigned(d, p) ==
    LET ids == OfPick(d, p)
        stops == {m \in ids : \/ d.kind[p].one /\ d.move[m].state \in {"confirmed", "draft"}
                              \/ ~d.kind[p].one /\ d.move[m].state = "assigned" /\ d.move[m].qty > 0}
    IN  IF stops # {} THEN ~d.kind[p].one
        ELSE In(d, ids, {"cancel", "done", "assigned"}) = ids

\* test_finnished: rows of no quantity are done on the way to the first move
\* that is open.
OpenMoves(d, p) == {m \in OfPick(d, p) : d.move[m].state \notin {"done", "cancel"}}
FirstOpen(d, p) == {m \in OpenMoves(d, p) : d.move[m].qty > 0}
TestFinished(d, p) ==
    Write(d, {m \in OpenMoves(d, p) : \A n \in FirstOpen(d, p) : m < n}, "done")

RECURSIVE Update(_, _), EnterConfirmed(_, _), EnterAssigned(_, _), EnterMove(_, _),
          ActionMove(_, _), Done(_, _), Cancel(_, _), Signal(_, _, _)

\* action_confirm; the picking goes on when it is assigned by then.
EnterConfirmed(d, p) ==
    LET e == Write([d EXCEPT !.wf[p] = "confirmed"], In(d, OfPick(d, p), {"draft"}), "confirmed")
    IN  IF TestAssigned(e, p) THEN EnterAssigned(e, p) ELSE e

\* action_assign_wkf; auto_picking goes on.
EnterAssigned(d, p) ==
    LET e == [d EXCEPT !.wf[p] = "assigned"]
    IN  IF d.kind[p].auto THEN EnterMove(e, p) ELSE e

\* action_move, then done when all is finished and confirmed when it is not.
EnterMove(d, p) ==
    LET e == TestFinished(ActionMove([d EXCEPT !.wf[p] = "move"], p), p)
    IN  IF OpenMoves(e, p) = {} THEN [e EXCEPT !.wf[p] = "done"] ELSE EnterConfirmed(e, p)

\* trg_write of a picking.
Update(d, p) ==
    CASE d.wf[p] = "confirmed" /\ TestAssigned(d, p) -> EnterAssigned(d, p)
      [] d.wf[p] = "assigned" /\ ~TestAssigned(d, p) -> EnterConfirmed(d, p)
      [] d.wf[p] = "assigned" /\ TestAssigned(d, p) /\ d.kind[p].auto -> EnterMove(d, p)
      [] OTHER -> d

\* trg_validate of a picking: the transitions are tried in their order, and
\* those without a signal come first.
Signal(d, p, signal) ==
    LET cancelled == Cancel([d EXCEPT !.wf[p] = "cancel"], OfPick(d, p))
    IN  IF Update(d, p) # d THEN Update(d, p)
        ELSE CASE d.wf[p] = "draft" /\ signal = "button_confirm" -> EnterConfirmed(d, p)
               [] d.wf[p] = "assigned" /\ signal = "button_done" -> EnterMove(d, p)
               [] d.wf[p] \in {"draft", "confirmed", "assigned"} /\ signal = "button_cancel" -> cancelled
               [] OTHER -> d

\* action_move of a picking: it writes the picking when it moved anything.
ActionMove(d, p) ==
    LET todo == In(d, OfPick(d, p), {"assigned"})
    IN  IF todo = {} THEN d ELSE Update(Done(d, todo), p)

\* Mutant: a move that is fed is assigned in any state.
DoneWakesAll(d, ids) ==
    LET fed == {d.move[m].dest : m \in {n \in ids : d.move[n].state # "done"}} \ {None}
    IN  Write(Write(d, fed, "assigned"), ids, "done")

\* action_done of moves: the moves they feed are assigned, with the states
\* that were read before any was, and their pickings are told.
Done(d, ids) ==
    LET feeds(m) == /\ d.move[m].dest # None /\ d.move[m].state # "done"
                    /\ d.move[d.move[m].dest].state \in {"waiting", "confirmed"}
        wake(e, m) ==
            LET n == d.move[m].dest
                w == Write(e, {n}, "assigned")
            IN  IF w.move[n].pick = None THEN w ELSE Update(w, w.move[n].pick)
    IN  Write(FoldLeft(wake, d, Ascending({m \in ids : feeds(m)})), ids, "done")

\* Mutant: the moves that are fed are left.
CancelHere(d, ids) ==
    FoldLeft(LAMBDA f, p : Signal(f, p, "button_cancel"), Write(d, ids, "cancel"),
             Ascending({d.move[m].pick : m \in ids} \ {None}))

\* action_cancel of moves: their pickings, then the moves they feed.
Cancel(d, ids) ==
    IF ids = {} THEN d
    ELSE LET open == In(d, ids, {"confirmed", "waiting", "assigned", "draft"})
             picks == {d.move[m].pick : m \in open} \ {None}
             e == FoldLeft(LAMBDA f, p : Signal(f, p, "button_cancel"),
                           Write(d, ids, "cancel"), Ascending(picks))
         IN  Cancel(e, {d.move[m].dest : m \in ids} \ {None})

-----------------------------------------------------------------------------
(* Moves                                                                   *)

\* One move of check_assign: it takes the first part, and a copy of it, that
\* feeds what it feeds, takes each of the others.
Take(s, m) ==
    LET r == Reserve(s.d, s.d.move[m].src, s.d.move[m].qty)
        part(e, x) == Create(e, [e.move[m] EXCEPT !.qty = x[1], !.src = x[2], !.state = "draft"])
        first == [s.d EXCEPT !.move[m].qty = r[1][1], !.move[m].src = r[1][2]]
        rest == FoldLeft(part, first, Tail(r))
    IN  IF r = << >> THEN s
        ELSE [d |-> rest, done |-> s.done \cup {m} \cup
                  {n \in MoveId : s.d.move[n].state = "none" /\ rest.move[n].state # "none"}]

\* check_assign: all of them are assigned at the end, and their pickings told.
CheckAssign(d, ids) ==
    LET s == FoldLeft(Take, [d |-> d, done |-> {}],
                      Ascending(In(d, ids, {"confirmed", "waiting"})))
        picks == {d.move[m].pick : m \in s.done \cap ids} \ {None}
    IN  FoldLeft(Update, Write(s.d, s.done, "assigned"), Ascending(picks))

Commit(d) == d.ok /\ move' = d.move /\ wf' = d.wf /\ kind' = d.kind
Is(m, st) == move[m].state = st

\* The buttons of a move.
ConfirmMove(m) == Is(m, "draft") /\ Commit(Write(Db, {m}, "confirmed")) /\ UNCHANGED inv
AssignMove(m) == Is(m, "confirmed") /\ Commit(CheckAssign(Db, {m})) /\ UNCHANGED inv
CancelMove(m) == Is(m, "assigned") /\ Commit(Cancel(Db, {m})) /\ UNCHANGED inv
MakeParcel(m) == Is(m, "assigned") /\ Commit(Done(Db, {m})) /\ UNCHANGED inv

\* The buttons of a line of a picking.
ForceLine(m) ==
    Is(m, "confirmed") /\ move[m].pick # None
    /\ Commit(Write(Db, {m}, "assigned")) /\ UNCHANGED inv
CancelLine(m) ==
    Is(m, "assigned") /\ move[m].pick # None
    /\ Commit(Write(Db, {m}, "confirmed")) /\ UNCHANGED inv

-----------------------------------------------------------------------------
(* Pickings                                                                *)

Confirm(p) == wf[p] = "draft" /\ Commit(Signal(Db, p, "button_confirm")) /\ UNCHANGED inv

Assign(p) ==
    wf[p] = "confirmed"
    /\ Commit(CheckAssign(Db, In(Db, OfPick(Db, p), {"confirmed"}))) /\ UNCHANGED inv

\* Every move of the picking, in whatever state it is.
ForceAssign(p) ==
    wf[p] = "confirmed"
    /\ Commit(Update(Write(Db, OfPick(Db, p), "assigned"), p)) /\ UNCHANGED inv
CancelAssign(p) ==
    wf[p] = "assigned"
    /\ Commit(Update(Write(Db, OfPick(Db, p), "confirmed"), p)) /\ UNCHANGED inv

\* Mutant: the moves that wait are left.
CancelPickingOpen(p) ==
    /\ wf[p] \in {"draft", "confirmed", "assigned"}
    /\ Commit(Write([Db EXCEPT !.wf[p] = "cancel"],
                    In(Db, OfPick(Db, p), {"draft", "confirmed", "assigned"}), "cancel"))
    /\ UNCHANGED inv

CancelPicking(p) ==
    /\ wf[p] \in {"draft", "confirmed", "assigned"}
    /\ Commit(Signal(Db, p, "button_cancel")) /\ UNCHANGED inv

\* Mutant: the move that stays keeps the whole quantity.
SplitKeep(d, p, new, q) ==
    LET ids == OfPick(d, p)
        less == {m \in ids : q[m] < d.move[m].qty}
        copy(e, m) == Create(e, [d.move[m] EXCEPT !.qty = q[m], !.pick = new,
                                 !.state = "assigned", !.dest = None])
    IN  FoldLeft(copy, d, Ascending(less))

\* Mutant: what is handed over is taken off every move, in part or not.
SplitAll(d, p, new, q) ==
    [d EXCEPT !.move = [m \in MoveId |->
        IF m \in OfPick(d, p) THEN [d.move[m] EXCEPT !.qty = @ - q[m]] ELSE d.move[m]]]

\* _do_split: of what is handed over in part, a copy goes to a new picking
\* and the rest stays, with what the move feeds; the other moves go there too.
Split(d, p, new, q) ==
    LET ids == OfPick(d, p)
        less == {m \in ids : q[m] < d.move[m].qty}
        copy(e, m) == Create(e, [d.move[m] EXCEPT !.qty = q[m], !.pick = new,
                                 !.state = "assigned", !.dest = None])
        keep(m) == IF m \in less THEN [d.move[m] EXCEPT !.qty = @ - q[m]]
                   ELSE [d.move[m] EXCEPT !.qty = q[m], !.pick = new]
        kept == [d EXCEPT !.move = [m \in MoveId |-> IF m \in ids THEN keep(m) ELSE d.move[m]]]
    IN  FoldLeft(copy, kept, Ascending(less))

\* The Validate button of a picking, with the quantities the user enters.
Validate(p, q) ==
    LET spare == {n \in Picking : wf[n] = "none"}
        new == Min(spare)
        begun == [Split(Db, p, new, q) EXCEPT !.wf[new] = "draft", !.kind[new] = kind[p]]
        moved == ActionMove(Signal(begun, new, "button_confirm"), new)
        whole == [Db EXCEPT !.move = [m \in MoveId |->
                     IF m \in OfPick(Db, p) THEN [move[m] EXCEPT !.qty = q[m]] ELSE move[m]]]
    IN  /\ wf[p] = "assigned"
        /\ IF \E m \in OfPick(Db, p) : q[m] < move[m].qty
           THEN spare # {} /\ Commit(Update(Signal(moved, new, "button_done"), p))
           ELSE Commit(Signal(ActionMove(whole, p), p, "button_done"))
        /\ UNCHANGED inv

-----------------------------------------------------------------------------
(* Inventories                                                             *)

\* A line of an inventory: a move of the difference, when there is one.
Correct(d, line) ==
    LET change == line.qty - Real(d, line.loc)
        row(src, dst, n) == [state |-> "assigned", src |-> src, dst |-> dst, qty |-> n,
                             pick |-> None, dest |-> None]
    IN  CASE change > 0 -> Create(d, row(Loss, line.loc, change))
          [] change < 0 -> Create(d, row(line.loc, Loss, -change))
          [] OTHER -> d

\* action_done of an inventory: every difference is taken before any is moved.
CountInventory ==
    LET d == FoldLeft(Correct, Db, Lines)
        new == {m \in MoveId : move[m].state = "none" /\ d.move[m].state # "none"}
    IN  /\ inv.state = "draft"
        /\ Commit(Done(d, new))
        /\ inv' = [state |-> "done", moves |-> new]

\* action_cancel of an inventory
CancelInventory ==
    /\ inv.state = "done"
    /\ Commit(Cancel(Db, inv.moves))
    /\ inv' = [inv EXCEPT !.state = "draft"]

-----------------------------------------------------------------------------
Entered(p) == [OfPick(Db, p) -> 0 .. MaxQty]

Next ==
    \/ \E m \in MoveId :
          \/ ConfirmMove(m) \/ AssignMove(m) \/ CancelMove(m) \/ MakeParcel(m)
          \/ ForceLine(m) \/ CancelLine(m)
    \/ \E p \in Picking :
          \/ Confirm(p) \/ Assign(p) \/ ForceAssign(p) \/ CancelAssign(p) \/ CancelPicking(p)
          \/ \E q \in Entered(p) : Validate(p, q)
    \/ CountInventory \/ CancelInventory

NoRow == [state |-> "none", src |-> Loss, dst |-> Loss, qty |-> 0, pick |-> None, dest |-> None]

Init ==
    /\ \E s \in Stores :
          /\ move = [m \in MoveId |-> IF m \in DOMAIN s.moves THEN s.moves[m] ELSE NoRow]
          /\ wf = [p \in Picking |-> IF p \in DOMAIN s.wf THEN s.wf[p] ELSE "none"]
          /\ kind = [p \in Picking |-> s.kind[IF p \in DOMAIN s.kind THEN p ELSE 1]]
    /\ inv = [state |-> "draft", moves |-> {}]

Spec == Init /\ [][Next]_vars

-----------------------------------------------------------------------------
(* Properties                                                              *)

\* A move that waits is fed by one that is still to be done: cancelled and
\* finished feeders never leave it behind (action_done, action_cancel,
\* check_assign and _do_split, which all copy or follow move_dest_id).
WaitingIsFed ==
    \A n \in MoveId : Is(n, "waiting") =>
        \E m \in MoveId : move[m].dest = n /\ move[m].state \notin {"none", "done", "cancel"}

\* What is left of a picking that is over: of a cancelled one what can still be
\* moved, of a finished one what is open.
Left(p) ==
    CASE wf[p] = "cancel" -> {m \in OfPick(Db, p) : ~Is(m, "cancel")}
      [] wf[p] = "done" -> OpenMoves(Db, p)
      [] OTHER -> {}

\* A move is done in a request: for the first time, or once more when the
\* request takes all of its picking back before.
MadeDone(m) ==
    Is(m, "done")' /\ (Is(m, "done") => \E p \in Picking : move[m].pick = p /\ ForceAssign(p))

\* Two moves that feed one of an automatic picking are done in one call: the
\* first has it assigned, moved and its picking finished, and the second, which
\* goes by what was read before that, has it assigned again.
FedTwice(n) ==
    /\ move[n].state \in {"waiting", "confirmed"} /\ Is(n, "assigned")'
    /\ kind[move[n].pick].auto
    /\ Cardinality({m \in MoveId : move'[m].dest = n /\ MadeDone(m)}) > 1

\* A picking that is over is so as a whole: no request leaves a move of a
\* cancelled one to be moved or one of a finished one open, whatever it makes
\* of the moves they feed or are fed by (action_cancel of moves and of
\* pickings, which call each other through the workflow, and test_finnished),
\* but for a move that is fed twice at once.
OverWhole ==
    [][\A p \in Picking : \A n \in (Left(p))' \ Left(p) : wf'[p] = "done" /\ FedTwice(n)]_vars

\* No request makes or loses pieces: what is to come to a location is the
\* same after parts were reserved at several shelves (check_assign) or handed
\* over in part (_do_split), but for what a user enters above the quantity and
\* for the differences of an inventory.
ToCome(l) == Qty(Db, {m \in MoveId : move[m].dst = l})
Above(p, q, l) ==
    FoldSet(LAMBDA m, n : n + (IF q[m] > move[m].qty THEN q[m] - move[m].qty ELSE 0), 0,
            {m \in OfPick(Db, p) : move[m].dst = l})
QuantityKept ==
    [][\/ CountInventory
       \/ \A l \in Loc : ToCome(l)' = ToCome(l)
       \/ \E p \in Picking : \E q \in Entered(p) :
             Validate(p, q) /\ \A l \in Loc : ToCome(l)' = ToCome(l) + Above(p, q, l)]_vars

\* What is done is done again or undone by no request but those that write
\* every move of a picking, or cancel (force_assign, cancel_assign,
\* action_cancel): stock does not come back by itself.
DoneStays ==
    [][\A m \in MoveId : Is(m, "done") /\ ~Is(m, "done")' =>
          \/ \E p \in Picking : ForceAssign(p) \/ CancelAssign(p) \/ CancelPicking(p)
          \/ \E n \in MoveId : CancelMove(n)
          \/ CancelInventory]_vars

\* The reservation of one move never books more of a shelf than is on it
\* (_product_reserve, check_assign).
ReservedIsThere ==
    [][\A m \in MoveId : AssignMove(m) =>
          \A l \in ToSet(Under[move[m].src]) : Free(Db, l) >= 0 => Free(Db, l)' >= 0]_vars
==============================================================================
