------------------------------ MODULE Workflow ------------------------------
(***************************************************************************)
(* The workflow engine (bin/workflow): instances of workflow definitions   *)
(* attached to business records, the work items (tokens) that stand on     *)
(* their activities, and the recursive Python code that moves them.        *)
(*                                                                         *)
(* The five tables wkf_instance, wkf_workitem, wkf_witm_trans,             *)
(* wkf_triggers and the business record's data are variables; the Python   *)
(* call stack is the variable stack, one frame per active loop or call,    *)
(* the innermost first.  A frame holds what the Python frame holds: the    *)
(* rows it fetched BEFORE it began to loop over them (dictfetchall), not   *)
(* the rows of the tables.  One action is one step of a handler.           *)
(*                                                                         *)
(* Rows a query returns without ORDER BY are taken in any order.           *)
(***************************************************************************)
EXTENDS Naturals, Sequences, FiniteSets

CONSTANTS
    Wkf, Act, Trans,   \* rows of wkf, wkf_activity and wkf_transition
    Sig, NoSig,        \* signals; NoSig is Python's None
    Res, NoRes,        \* business records (res_type, res_id)
    Data, NoData,      \* what the conditions can tell of a record; a write
                       \* of NoData touches no column a condition reads
    InstId, ItemId,    \* identifiers of instances and work items: they bound
    NoInst,            \* the rows that exist at once; NoInst is SQL's NULL
    OnCreate,          \* OnCreate[r]: the on_create workflows of r's model
    NewData,           \* the data of a record just created
    Batch,             \* may a request call the engine again before its commit?
    UserWrite,         \* UserWrite[r]: what a client may write in r
    WatchData,         \* WatchData[r]: what the records that watch r may read of it
    Deletable,         \* the records a client may delete
    ActWkf, Kind, SplitMode, JoinMode, FlowStart, FlowStop,
    SignalSend,        \* SignalSend[a]: signal_send of the activity, or NoSig
    StopSig,           \* StopSig[a]: the signal 'subflow.' + name of a
    SubWkf,            \* SubWkf[a]: subflow_id of a 'subflow' activity
    Action,            \* Action[a]: the call sequences its action may make
    From, To, TransSig, Cond, Watch

(* What an activity's action does to the tables, seen from the engine: it  *)
(* writes its own record, creates a record with a workflow or finds one,   *)
(* signals its own record or that one, or fires the triggers on a record.  *)
Call == [op : {"write"}, data : Data \cup {NoData}]
        \cup [op : {"new", "find"}]
        \cup [op : {"trigger"}, rec : Res, data : Data]
        \cup [op : {"signal"}, sig : Sig, own : BOOLEAN]

ASSUME ConstantsAssumption ==
    /\ NoSig \notin Sig /\ NoData \notin Data /\ NoRes \notin Res /\ NoInst \notin InstId
    /\ NewData \in Data /\ Batch \in BOOLEAN
    /\ OnCreate \in [Res -> SUBSET Wkf]
    /\ UserWrite \in [Res -> SUBSET Data] /\ Deletable \subseteq Res
    /\ WatchData \in [Res -> SUBSET Data]
    /\ ActWkf \in [Act -> Wkf]
    /\ Kind \in [Act -> {"dummy", "function", "stopall", "subflow"}]
    /\ SplitMode \in [Act -> {"XOR", "OR", "AND"}]
    /\ JoinMode \in [Act -> {"XOR", "AND"}]
    /\ FlowStart \subseteq Act /\ FlowStop \subseteq Act
    /\ SignalSend \in [Act -> Sig \cup {NoSig}]
    /\ StopSig \in [Act -> Sig]
    /\ SubWkf \in [Act -> Wkf]
    /\ Action \in [Act -> SUBSET Seq(Call)]
    /\ From \in [Trans -> Act] /\ To \in [Trans -> Act]
    /\ \A t \in Trans : ActWkf[From[t]] = ActWkf[To[t]]
    /\ TransSig \in [Trans -> Sig \cup {NoSig}]
    /\ Cond \in [Trans -> SUBSET Data]
    /\ Watch \in [Trans -> SUBSET Res]

VARIABLES
    insts,   \* wkf_instance
    items,   \* wkf_workitem
    passed,  \* wkf_witm_trans: the <<transition, instance>> pairs recorded
    trigs,   \* wkf_triggers
    data,    \* data[r]: the record r as its conditions read it
    saved,   \* the five tables as last committed
    stack    \* the Python call stack of the transaction, innermost first

tables == <<insts, items, passed, trigs, data>>
vars == <<insts, items, passed, trigs, data, saved, stack>>

-----------------------------------------------------------------------------
(* Types of the rows and of the frames.                                    *)

Inst == [id : InstId, wkf : Wkf, res : Res, state : {"active", "complete"}]
Item == [id : ItemId, act : Act, inst : InstId, sub : InstId \cup {NoInst},
         state : {"active", "running", "complete"}]
Trig == [watch : Res, inst : InstId, item : ItemId]
Tables == [insts : SUBSET Inst, items : SUBSET Item,
           passed : SUBSET (Trans \X InstId), trigs : SUBSET Trig,
           data : [Res -> Data]]

(* A pending instance.validate (or update, when sig is NoSig).             *)
Target == [inst : InstId, res : Res, sig : Sig \cup {NoSig}, force : BOOLEAN]

\* A loop over instances; last is the one it is at.
LoopFrame == [op : {"loop"}, todo : SUBSET Target, last : InstId \cup {NoInst}]
\* instance.validate / update: the work items it read and has yet to process.
ScanFrame == [op : {"scan"}, call : Target, todo : SUBSET Item]
\* trg_create: the workflows it has yet to instantiate on res.
StartFrame == [op : {"start"}, res : Res, todo : SUBSET Wkf]
\* workitem.create: the activities it has yet to put an item on.
CreateFrame == [op : {"create"}, call : Target, todo : SUBSET Act]
\* workitem.process: its dictionary item, the calls its action has yet to
\* make, the record the action returns and the subflow instance of the item.
ProcessFrame == [op : {"process"}, pc : {"send", "execute", "action", "split"},
                 item : Item, call : Target, fresh : BOOLEAN, calls : Seq(Call),
                 made : Res \cup {NoRes}, child : InstId \cup {NoInst}]
\* The loop of _split_test over the transitions it fired.
JoinFrame == [op : {"join"}, call : Target, todo : SUBSET Trans]
\* The delete that ends _join_test on an XOR join.
ClearFrame == [op : {"clear"}, inst : InstId, trans : Trans]

Frame == LoopFrame \cup ScanFrame \cup StartFrame \cup CreateFrame
         \cup ProcessFrame \cup JoinFrame \cup ClearFrame

TypeOK ==
    /\ insts \subseteq Inst
    /\ items \subseteq Item
    /\ passed \subseteq Trans \X InstId
    /\ trigs \subseteq Trig
    /\ data \in [Res -> Data]
    /\ saved \in Tables
    /\ stack \in Seq(Frame)

-----------------------------------------------------------------------------
(* The statements of SQL the engine uses.                                  *)

Frames == {stack[k] : k \in DOMAIN stack}

\* Identifiers come from sequences and are never reused; here one may be
\* reused when no row and no Python frame can tell.
UsedItems == {i.id : i \in items \cup saved.items}
             \cup {f.item.id : f \in {g \in Frames : g.op = "process"}}
             \cup UNION {{i.id : i \in f.todo} : f \in {g \in Frames : g.op = "scan"}}
UsedInsts == {i.id : i \in insts \cup saved.insts}
             \cup (UNION {{c.inst : c \in f.todo} : f \in {g \in Frames : g.op = "loop"}})
             \cup {f.call.inst : f \in {g \in Frames :
                                  g.op \in {"scan", "process", "create", "join"}}}
             \cup {f.inst : f \in {g \in Frames : g.op = "clear"}}

HasInst(i) == \E n \in insts : n.id = i
ItemsOf(i) == {w \in items : w.inst = i}
InstsOn(r) == {n \in insts : n.res = r}
ActiveOn(r) == {n \in InstsOn(r) : n.state = "active"}
Waiting(i) == {n \in insts : \E w \in items : w.inst = n.id /\ w.sub = i}
FromAct(a) == {t \in Trans : From[t] = a}
IntoAct(a) == {t \in Trans : To[t] = a}

\* update wkf_workitem set state = s where id = k
SetState(k, s) ==
    items' = {IF w.id = k THEN [w EXCEPT !.state = s] ELSE w : w \in items}

\* delete from wkf_workitem: the triggers of the deleted items go with them
DeleteItems(gone) ==
    /\ items' = items \ gone
    /\ trigs' = {g \in trigs : \A w \in gone : w.id # g.item}

-----------------------------------------------------------------------------
(* The frames the handlers push.                                           *)

CallOn(i, r, s, force) == [inst |-> i, res |-> r, sig |-> s, force |-> force]
CallFor(n, s) == CallOn(n.id, n.res, s, FALSE)
Loop(todo) == [op |-> "loop", todo |-> todo, last |-> NoInst]
Updates(rows) == Loop({CallFor(n, NoSig) : n \in rows})
Validates(rows, s) == Loop({CallFor(n, s) : n \in rows})
Scan(c) == [op |-> "scan", call |-> c, todo |-> ItemsOf(c.inst)]
Creating(c, acts) == [op |-> "create", call |-> c, todo |-> acts]

\* process is entered with the dictionary w: an active one is executed first.
Process(w, c) ==
    [op |-> "process", item |-> w, call |-> c, fresh |-> w.state = "active",
     pc |-> IF w.state # "active" THEN "split"
            ELSE IF SignalSend[w.act] # NoSig THEN "send" ELSE "execute",
     calls |-> <<>>, made |-> NoRes, child |-> NoInst]

\* instance.create: the items of the starting activities, then an update.
\* Mutant: flow_start without the workflow in the query.
StartActsOfAll(w) == FlowStart
StartActs(w) == {a \in FlowStart : ActWkf[a] = w}
CreateInst(i, w, r) ==
    LET c == CallOn(i, r, NoSig, FALSE)
    IN  <<Creating(c, StartActs(w)), Loop({c})>>

At(op) == stack # <<>> /\ Head(stack).op = op
AtPc(pc) == At("process") /\ Head(stack).pc = pc
\* The top frame gives way to the frames of s.
Become(s) == stack' = s \o Tail(stack)

-----------------------------------------------------------------------------
(* instance.py                                                             *)

\* The loops of trg_write, trg_validate, trg_trigger, _execute and
\* _update_end over instances, each instance finished before the next.
LoopNext ==
    /\ At("loop")
    /\ LET f == Head(stack) IN
       \E c \in f.todo :
          /\ (\E d \in f.todo : d.inst = f.last) => c.inst = f.last
          /\ Become(<<Scan(c), [f EXCEPT !.todo = @ \ {c}, !.last = c.inst]>>)
    /\ UNCHANGED <<tables, saved>>

LoopEnd ==
    /\ At("loop") /\ Head(stack).todo = {}
    /\ Become(<<>>)
    /\ UNCHANGED <<tables, saved>>

\* validate and update: process the next of the rows read at the start.
ScanNext ==
    /\ At("scan")
    /\ LET f == Head(stack) IN
       \E w \in f.todo :
          Become(<<Process(w, f.call), [f EXCEPT !.todo = @ \ {w}]>>)
    /\ UNCHANGED <<tables, saved>>

\* _update_end: when every item left is complete on a stopping activity the
\* instance is complete, and so are the items that wait for it, whose
\* instances are then told, once for each activity.
\* Mutant: flow_stop is not looked at.
FinishedAnywhere(i) == \A w \in ItemsOf(i) : w.state = "complete"
Finished(i) ==
    \A w \in ItemsOf(i) : w.state = "complete" /\ w.act \in FlowStop

\* Mutants: the waiting items are forgotten, or left in a state of no meaning.
WaitersForgotten(i) == items
WaitersDone(i) ==
    {IF w.sub = i THEN [w EXCEPT !.state = "done"] ELSE w : w \in items}
WaitersComplete(i) ==
    {IF w.sub = i THEN [w EXCEPT !.state = "complete"] ELSE w : w \in items}

UpdateEndOpen ==
    /\ At("scan") /\ Head(stack).todo = {}
    /\ HasInst(Head(stack).call.inst)
    /\ ~Finished(Head(stack).call.inst)
    /\ Become(<<>>)
    /\ UNCHANGED <<tables, saved>>

UpdateEndDone ==
    /\ At("scan") /\ Head(stack).todo = {}
    /\ LET i == Head(stack).call.inst IN
       /\ HasInst(i)
       /\ Finished(i)
       /\ insts' = {IF n.id = i THEN [n EXCEPT !.state = "complete"] ELSE n : n \in insts}
       /\ items' = WaitersComplete(i)
       /\ Become(<<Loop(UNION {{CallOn(n.id, n.res, StopSig[w.act], FALSE) :
                                w \in ItemsOf(i)} : n \in Waiting(i)})>>)
    /\ UNCHANGED <<passed, trigs, data, saved>>

-----------------------------------------------------------------------------
(* workitem.py: create and _execute                                        *)

CreateNext ==
    /\ At("create")
    /\ ItemId \ UsedItems # {}
    /\ LET f == Head(stack)
           k == CHOOSE x \in ItemId \ UsedItems : TRUE
       IN  \E a \in f.todo :
             LET w == [id |-> k, act |-> a, inst |-> f.call.inst, sub |-> NoInst,
                       state |-> "active"]
             IN  /\ HasInst(f.call.inst)
                 /\ items' = items \cup {w}
                 /\ Become(<<Process(w, f.call), [f EXCEPT !.todo = @ \ {a}]>>)
    /\ UNCHANGED <<insts, passed, trigs, data, saved>>

CreateEnd ==
    /\ At("create") /\ Head(stack).todo = {}
    /\ Become(<<>>)
    /\ UNCHANGED <<tables, saved>>

\* signal_send: the parents are validated by force before the activity runs.
SendSignal ==
    /\ AtPc("send")
    /\ LET f == Head(stack) IN
       Become(<<Loop({CallOn(n.id, n.res, SignalSend[f.item.act], TRUE) :
                      n \in Waiting(f.item.inst)}),
                [f EXCEPT !.pc = "execute"]>>)
    /\ UNCHANGED <<tables, saved>>

ExecuteDummy ==
    /\ AtPc("execute")
    /\ LET f == Head(stack) IN
       /\ Kind[f.item.act] = "dummy"
       /\ SetState(f.item.id, "complete")
       /\ Become(<<[f EXCEPT !.pc = "split", !.item.state = "complete"]>>)
    /\ UNCHANGED <<insts, passed, trigs, data, saved>>

\* The frame enters the action, which will make one of its call sequences.
Running(f, calls) ==
    [f EXCEPT !.pc = "action", !.item.state = "running", !.calls = calls]

\* The row is 'running' while the action runs: a nested update skips it.
\* Mutant: the row is complete before the action runs.
BeginTooSoon(k) == SetState(k, "complete")
BeginAction(k) == SetState(k, "running")

ExecuteFunction ==
    /\ AtPc("execute")
    /\ LET f == Head(stack) IN
       /\ Kind[f.item.act] = "function"
       /\ BeginAction(f.item.id)
       /\ \E calls \in Action[f.item.act] : Become(<<Running(f, calls)>>)
    /\ UNCHANGED <<insts, passed, trigs, data, saved>>

ExecuteStopAll ==
    /\ AtPc("execute")
    /\ LET f == Head(stack)
           gone == {w \in ItemsOf(f.item.inst) : w.id # f.item.id}
       IN  /\ Kind[f.item.act] = "stopall"
           /\ items' = {IF w.id = f.item.id THEN [w EXCEPT !.state = "running"] ELSE w :
                        w \in items \ gone}
           /\ trigs' = {g \in trigs : \A w \in gone : w.id # g.item}
           /\ \E calls \in Action[f.item.act] : Become(<<Running(f, calls)>>)
    /\ UNCHANGED <<insts, passed, data, saved>>

ExecuteSubflow ==
    /\ AtPc("execute")
    /\ LET f == Head(stack) IN
       /\ Kind[f.item.act] = "subflow"
       /\ SetState(f.item.id, "running")
       /\ \E calls \in Action[f.item.act] : Become(<<Running(f, calls)>>)
    /\ UNCHANGED <<insts, passed, trigs, data, saved>>

\* A subflow without an action: a new instance on the same record.
ExecuteSubflowNew ==
    /\ AtPc("execute")
    /\ InstId \ UsedInsts # {}
    /\ LET f == Head(stack)
           i == CHOOSE x \in InstId \ UsedInsts : TRUE
           w == SubWkf[f.item.act]
       IN  /\ Kind[f.item.act] = "subflow"
           /\ Action[f.item.act] = {}
           /\ SetState(f.item.id, "running")
           /\ insts' = insts \cup {[id |-> i, wkf |-> w, res |-> f.call.res,
                                    state |-> "active"]}
           /\ Become(CreateInst(i, w, f.call.res)
                     \o <<[Running(f, <<>>) EXCEPT !.child = i]>>)
    /\ UNCHANGED <<passed, trigs, data, saved>>

-----------------------------------------------------------------------------
(* wkf_expr.execute: the calls an action makes, one per step.              *)

NextCall(op) ==
    AtPc("action") /\ Head(stack).calls # <<>> /\ Head(Head(stack).calls).op = op

\* The frame after the first of its calls.
Called(f) == [f EXCEPT !.calls = Tail(@)]

\* orm.write on the record itself ends in trg_write.
ActionWrite ==
    /\ NextCall("write")
    /\ LET f == Head(stack) IN
       /\ data' = [data EXCEPT ![f.call.res] = IF Head(f.calls).data = NoData THEN @
                                              ELSE Head(f.calls).data]
       /\ Become(<<Updates(ActiveOn(f.call.res)), Called(f)>>)
    /\ UNCHANGED <<insts, items, passed, trigs, saved>>

Unused(r) == InstsOn(r) = {}
ForSubflow(f) == {r \in Res : SubWkf[f.item.act] \in OnCreate[r]}
Starting(r) == [op |-> "start", res |-> r, todo |-> OnCreate[r]]

\* orm.create of the record the subflow is about ends in trg_create.
ActionNew ==
    /\ NextCall("new")
    /\ LET f == Head(stack) IN
       \E r \in ForSubflow(f) :
          /\ Unused(r)
          /\ data' = [data EXCEPT ![r] = NewData]
          /\ Become(<<Starting(r), [Called(f) EXCEPT !.made = r]>>)
    /\ UNCHANGED <<insts, items, passed, trigs, saved>>

\* The action returns a record that exists already.
ActionFind ==
    /\ NextCall("find")
    /\ LET f == Head(stack) IN
       \E r \in ForSubflow(f) :
          ~Unused(r) /\ Become(<<[Called(f) EXCEPT !.made = r]>>)
    /\ UNCHANGED <<tables, saved>>

ActionSignal ==
    /\ NextCall("signal")
    /\ LET f == Head(stack)
           c == Head(f.calls)
           r == IF c.own THEN f.call.res ELSE f.made
       IN  Become(<<Validates(ActiveOn(r), c.sig), Called(f)>>)
    /\ UNCHANGED <<tables, saved>>

\* The instances whose triggers watch r are updated, complete ones too; the
\* caller has changed r, so the conditions of their records now read d.
Triggered(r) == {n \in insts : \E g \in trigs : g.watch = r /\ g.inst = n.id}
Reads(r, d) ==
    data' = [x \in Res |-> IF \E n \in Triggered(r) : n.res = x THEN d ELSE data[x]]

ActionTrigger ==
    /\ NextCall("trigger")
    /\ LET f == Head(stack)
           c == Head(f.calls)
       IN  /\ Reads(c.rec, c.data)
           /\ Become(<<Updates(Triggered(c.rec)), Called(f)>>)
    /\ UNCHANGED <<insts, items, passed, trigs, saved>>

\* A function or stopall activity is complete when its action returns.
ActionEnd ==
    /\ AtPc("action") /\ Head(stack).calls = <<>>
    /\ LET f == Head(stack) IN
       /\ Kind[f.item.act] # "subflow"
       /\ SetState(f.item.id, "complete")
       /\ Become(<<[f EXCEPT !.pc = "split", !.item.state = "complete"]>>)
    /\ UNCHANGED <<insts, passed, trigs, data, saved>>

\* A subflow action that returns False: the item is deleted.
ActionNoSubflow ==
    /\ AtPc("action") /\ Head(stack).calls = <<>>
    /\ LET f == Head(stack) IN
       /\ Kind[f.item.act] = "subflow" /\ f.made = NoRes /\ f.child = NoInst
       /\ DeleteItems({w \in items : w.id = f.item.id})
       /\ Become(<<>>)
    /\ UNCHANGED <<insts, passed, data, saved>>

\* The item waits for the instance, unless it is complete by now.
ActionLink ==
    /\ AtPc("action") /\ Head(stack).calls = <<>>
    /\ LET f == Head(stack) IN
       /\ Kind[f.item.act] = "subflow"
       /\ \E n \in insts :
            /\ IF f.child # NoInst THEN n.id = f.child
               ELSE n.res = f.made /\ n.wkf = SubWkf[f.item.act]
            /\ items' = {IF w.id # f.item.id THEN w
                         ELSE IF n.state = "complete"
                         THEN [w EXCEPT !.sub = n.id, !.state = "complete"]
                         ELSE [w EXCEPT !.sub = n.id] : w \in items}
            /\ Become(<<[f EXCEPT !.pc = "split", !.item.sub = n.id,
                                  !.item.state = IF n.state = "complete"
                                                 THEN "complete" ELSE @]>>)
    /\ UNCHANGED <<insts, passed, trigs, data, saved>>

-----------------------------------------------------------------------------
(* workitem.py: _split_test, _join_test and the triggers                   *)

\* wkf_expr.check
Check(f, t) ==
    /\ TransSig[t] = NoSig \/ f.call.sig = TransSig[t]
    /\ data[f.call.res] \in Cond[t]

\* The transitions _split_test may fire together.
Fireable(f) ==
    LET out == FromAct(f.item.act)
        ok == {t \in out : Check(f, t)}
    IN  IF f.item.state # "complete" /\ ~f.call.force THEN {{}}
        ELSE CASE SplitMode[f.item.act] = "OR" -> {ok}
               [] SplitMode[f.item.act] = "XOR" -> IF ok = {} THEN {{}} ELSE {{t} : t \in ok}
               [] OTHER -> IF ok # out THEN {{}}
                           ELSE {{t \in out : <<t, f.item.inst>> \notin passed}}

SplitFire ==
    /\ AtPc("split")
    /\ LET f == Head(stack) IN
       /\ HasInst(f.item.inst)
       /\ \E fired \in Fireable(f) \ {{}} :
            /\ passed' = passed \cup (fired \X {f.item.inst})
            /\ Become(<<[op |-> "join", call |-> [f.call EXCEPT !.inst = f.item.inst],
                         todo |-> fired]>>)
       /\ DeleteItems({w \in items : w.id = f.item.id})
    /\ UNCHANGED <<insts, data, saved>>

\* Nothing fires; an item just executed registers its triggers, which must
\* reference rows that exist.
SplitStay ==
    /\ AtPc("split")
    /\ LET f == Head(stack)
           rows == {[watch |-> r, inst |-> f.item.inst, item |-> f.item.id] :
                    r \in UNION {Watch[t] : t \in FromAct(f.item.act)}}
           new == IF f.fresh THEN rows ELSE {}
       IN  /\ {} \in Fireable(f)
           /\ new # {} => \E w \in items : w.id = f.item.id
           /\ trigs' = trigs \cup new
           /\ Become(<<>>)
    /\ UNCHANGED <<insts, items, passed, data, saved>>

\* Mutant: every join waits for all its transitions.
JoinsAll(a) == FALSE
JoinsAny(a) == JoinMode[a] = "XOR"

JoinNext ==
    /\ At("join")
    /\ LET f == Head(stack)
           i == f.call.inst
       IN  \E t \in f.todo :
             LET rest == [f EXCEPT !.todo = @ \ {t}]
                 next == Creating([f.call EXCEPT !.sig = NoSig, !.force = FALSE], {To[t]})
                 into == IntoAct(To[t]) \X {i}
             IN  IF JoinsAny(To[t]) THEN
                     /\ Become(<<next, [op |-> "clear", inst |-> i, trans |-> t], rest>>)
                     /\ UNCHANGED passed
                 ELSE IF into \subseteq passed THEN
                     /\ passed' = passed \ into
                     /\ Become(<<next, rest>>)
                 ELSE
                     /\ Become(<<rest>>)
                     /\ UNCHANGED passed
    /\ UNCHANGED <<insts, items, trigs, data, saved>>

\* Mutant: the row of an XOR join stays.
JoinLeave ==
    /\ At("clear")
    /\ Become(<<>>)
    /\ UNCHANGED <<tables, saved>>

JoinClear ==
    /\ At("clear")
    /\ passed' = passed \ {<<Head(stack).trans, Head(stack).inst>>}
    /\ Become(<<>>)
    /\ UNCHANGED <<insts, items, trigs, data, saved>>

JoinEnd ==
    /\ At("join") /\ Head(stack).todo = {}
    /\ Become(<<>>)
    /\ UNCHANGED <<tables, saved>>

-----------------------------------------------------------------------------
(* wkf_service.py: what a request calls, and the transaction around it.    *)

\* trg_create: one instance of each workflow of the model.
StartNext ==
    /\ At("start")
    /\ InstId \ UsedInsts # {}
    /\ LET f == Head(stack)
           i == CHOOSE x \in InstId \ UsedInsts : TRUE
       IN  \E w \in f.todo :
             /\ insts' = insts \cup {[id |-> i, wkf |-> w, res |-> f.res,
                                      state |-> "active"]}
             /\ Become(CreateInst(i, w, f.res) \o <<[f EXCEPT !.todo = @ \ {w}]>>)
    /\ UNCHANGED <<items, passed, trigs, data, saved>>

StartEnd ==
    /\ At("start") /\ Head(stack).todo = {}
    /\ Become(<<>>)
    /\ UNCHANGED <<tables, saved>>

Now == [insts |-> insts, items |-> items, passed |-> passed, trigs |-> trigs,
        data |-> data]
Ready == stack = <<>> /\ (Batch \/ saved = Now)

\* orm.create, orm.write and orm.unlink, seen from the engine.
TrgCreate(r) ==
    /\ Ready /\ Unused(r)
    /\ data' = [data EXCEPT ![r] = NewData]
    /\ stack' = <<Starting(r)>>
    /\ UNCHANGED <<insts, items, passed, trigs, saved>>

TrgWrite(r, d) ==
    /\ Ready /\ ~Unused(r)
    /\ data' = [data EXCEPT ![r] = d]
    /\ stack' = <<Updates(ActiveOn(r))>>
    /\ UNCHANGED <<insts, items, passed, trigs, saved>>

TrgValidate(r, s) ==
    /\ Ready /\ ActiveOn(r) # {}
    /\ stack' = <<Validates(ActiveOn(r), s)>>
    /\ UNCHANGED <<tables, saved>>

TrgTrigger(r, d) ==
    /\ Ready /\ Triggered(r) # {}
    /\ Reads(r, d)
    /\ stack' = <<Updates(Triggered(r))>>
    /\ UNCHANGED <<insts, items, passed, trigs, saved>>

TrgDelete(r) ==
    /\ Ready /\ ~Unused(r)
    /\ LET dead == {n.id : n \in InstsOn(r)} IN
       /\ insts' = insts \ InstsOn(r)
       /\ DeleteItems({w \in items : w.inst \in dead \/ w.sub \in dead})
       /\ passed' = {p \in passed : p[2] \notin dead}
    /\ UNCHANGED <<data, saved, stack>>

\* The active instances of new that may stand in for the instance i of r.
Successors(r, new, i) ==
    {n \in ActiveOn(new) : \E o \in InstsOn(r) : o.id = i /\ o.wkf = n.wkf}

TrgRedirect(r, new) ==
    /\ Ready /\ r # new
    /\ items' = {IF Successors(r, new, w.sub) = {} THEN w
                 ELSE [w EXCEPT !.sub = (CHOOSE n \in Successors(r, new, w.sub) : TRUE).id] :
                 w \in items}
    /\ UNCHANGED <<insts, passed, trigs, data, saved, stack>>

\* osv_pool.execute and exec_workflow: the request returns and commits ...
Commit ==
    /\ stack = <<>>
    /\ saved' = Now
    /\ UNCHANGED <<tables, stack>>

\* ... or an exception (or the death of the server) takes all of it back.
Rollback ==
    /\ insts' = saved.insts /\ items' = saved.items /\ passed' = saved.passed
    /\ trigs' = saved.trigs /\ data' = saved.data
    /\ stack' = <<>>
    /\ UNCHANGED saved

Init ==
    /\ insts = {} /\ items = {} /\ passed = {} /\ trigs = {}
    /\ data = [r \in Res |-> NewData]
    /\ saved = Now
    /\ stack = <<>>

Engine ==
    \/ LoopNext \/ LoopEnd \/ ScanNext \/ UpdateEndOpen \/ UpdateEndDone
    \/ CreateNext \/ CreateEnd \/ SendSignal
    \/ ExecuteDummy \/ ExecuteFunction \/ ExecuteStopAll \/ ExecuteSubflow
    \/ ExecuteSubflowNew
    \/ ActionWrite \/ ActionNew \/ ActionFind \/ ActionSignal \/ ActionTrigger
    \/ ActionEnd \/ ActionNoSubflow \/ ActionLink
    \/ SplitFire \/ SplitStay \/ JoinNext \/ JoinClear \/ JoinEnd
    \/ StartNext \/ StartEnd

Request ==
    \/ \E r \in Res : TrgCreate(r)
    \/ \E r \in Res : \E d \in WatchData[r] : TrgTrigger(r, d)
    \/ \E r \in Deletable : TrgDelete(r)
    \/ \E r \in Res : \E d \in UserWrite[r] : TrgWrite(r, d)
    \/ \E r \in Res, s \in Sig : TrgValidate(r, s)
    \/ \E r, new \in Res : TrgRedirect(r, new)

Next == Engine \/ Request \/ Commit \/ Rollback

Spec == Init /\ [][Next]_vars

-----------------------------------------------------------------------------
(* Properties.                                                             *)

\* A work item at rest: it is complete and waits for a condition or a
\* signal, or it runs a subflow instance that is still active.
Settled(w, rows) ==
    \/ w.state = "complete"
    \/ w.state = "running" /\ \E n \in rows : n.id = w.sub /\ n.state = "active"

\* Whenever a request returns to its caller, and in every committed state, no
\* work item is half executed (active, or running an action that is over) and
\* none waits for a subflow that has completed: process, _execute and
\* _update_end leave no such item however they call each other.
NoHalfDoneItem ==
    /\ stack = <<>> => \A w \in items : Settled(w, insts)
    /\ \A w \in saved.items : Settled(w, saved.insts)

\* Once a request is over, wkf_witm_trans holds only the inputs of AND joins
\* that still miss one: no join is passed by all its inputs and left
\* unjoined, and the rows of XOR joins are gone.
NoStrandedJoin ==
    stack = <<>> =>
        \A p \in passed : /\ JoinMode[To[p[1]]] = "AND"
                          /\ \E t \in IntoAct(To[p[1]]) : <<t, p[2]>> \notin passed

\* Items and recorded transitions belong to the workflow of their instance,
\* and an item's subflow instance runs the workflow its activity names.
OwnWorkflow ==
    /\ \A w \in items : \E n \in insts : n.id = w.inst /\ n.wkf = ActWkf[w.act]
    /\ \A w \in items : w.sub # NoInst =>
           \E n \in insts : n.id = w.sub /\ n.wkf = SubWkf[w.act]
    /\ \A p \in passed : \E n \in insts : n.id = p[2] /\ n.wkf = ActWkf[From[p[1]]]

\* A complete instance stays over: once a request has ended its items, if it
\* has any, are complete on stopping activities.
CompleteIsOver ==
    stack = <<>> =>
        \A n \in insts, w \in items :
            n.state = "complete" /\ w.inst = n.id =>
                w.state = "complete" /\ w.act \in FlowStop

\* A workflow ends on an activity, never by losing its last token.
CompleteHasEnd ==
    stack = <<>> =>
        \A n \in insts : n.state = "complete" => ItemsOf(n.id) # {}

\* No work item comes back from a stale dictionary.  An item is executed only
\* while its row is active, and one that fires though its row is gone (another
\* item of the same scan was a stopall, or an action wrote the record and the
\* nested update was faster) does no more than enter a stopall activity again.
NoTokenRevived ==
    [][stack' # <<>> =>
         /\ AtPc("execute") =>
              \E w \in items : w.id = Head(stack).item.id /\ w.state = "active"
         /\ AtPc("split") /\ Head(stack').op = "join" =>
              \/ \E w \in items : w.id = Head(stack).item.id
              \/ \A t \in Head(stack').todo : Kind[To[t]] = "stopall"]_vars
=============================================================================
