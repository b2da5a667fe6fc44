--------------------------- MODULE WorkflowProofs ---------------------------
EXTENDS Workflow, TLAPS

\* What _split_test fires together leaves from the activity of the item.
LEMMA FireableFrom ==
    ASSUME NEW f, NEW fired \in Fireable(f)
    PROVE  fired \subseteq FromAct(f.item.act)
<1> DEFINE out == FromAct(f.item.act)
           ok == {t \in out : Check(f, t)}
           rest == {t \in out : <<t, f.item.inst>> \notin passed}
<1>1. ok \subseteq out /\ rest \subseteq out
  OBVIOUS
<1>2. fired \in {{}, ok, rest} \cup {{t} : t \in ok}
  BY DEF Fireable
<1> HIDE DEF ok, rest
<1> QED BY <1>1, <1>2

Elems(s) == {s[k] : k \in DOMAIN s}

\* A sequence that is not empty holds its head and what its tail holds.
LEMMA HeadTail ==
    ASSUME NEW S, NEW s \in Seq(S), s # <<>>
    PROVE  Head(s) \in S /\ Tail(s) \in Seq(S) /\ Elems(s) = {Head(s)} \cup Elems(Tail(s))
<1>1. Head(s) \in S /\ Tail(s) \in Seq(S)
  OBVIOUS
<1>2. Elems(s) \subseteq {Head(s)} \cup Elems(Tail(s))
  <2> SUFFICES ASSUME NEW k \in DOMAIN s, k # 1 PROVE s[k] \in Elems(Tail(s))
    BY DEF Elems
  <2>1. k - 1 \in DOMAIN Tail(s) /\ Tail(s)[k - 1] = s[k]
    OBVIOUS
  <2> QED BY <2>1 DEF Elems
<1>3. {Head(s)} \cup Elems(Tail(s)) \subseteq Elems(s)
  <2>1. Head(s) \in Elems(s)
    BY DEF Elems
  <2>2. ASSUME NEW k \in DOMAIN Tail(s) PROVE Tail(s)[k] \in Elems(s)
    <3>1. k + 1 \in DOMAIN s /\ s[k + 1] = Tail(s)[k]
      OBVIOUS
    <3> QED BY <3>1 DEF Elems
  <2> QED BY <2>1, <2>2 DEF Elems
<1> QED BY <1>1, <1>2, <1>3

\* A concatenation holds what its two parts hold.
LEMMA Concat ==
    ASSUME NEW S, NEW s \in Seq(S), NEW t \in Seq(S)
    PROVE  s \o t \in Seq(S) /\ Elems(s \o t) = Elems(s) \cup Elems(t)
<1>1. s \o t \in Seq(S)
  OBVIOUS
<1>2. Elems(s \o t) \subseteq Elems(s) \cup Elems(t)
  <2> SUFFICES ASSUME NEW k \in DOMAIN (s \o t)
               PROVE  (s \o t)[k] \in Elems(s) \cup Elems(t)
    BY DEF Elems
  <2>1. CASE k \in DOMAIN s
    BY <2>1 DEF Elems
  <2>2. CASE k \notin DOMAIN s
    <3>1. k - Len(s) \in DOMAIN t /\ (s \o t)[k] = t[k - Len(s)]
      BY <2>2
    <3> QED BY <3>1 DEF Elems
  <2> QED BY <2>1, <2>2
<1>3. Elems(s) \subseteq Elems(s \o t)
  <2> SUFFICES ASSUME NEW k \in DOMAIN s PROVE s[k] \in Elems(s \o t)
    BY DEF Elems
  <2>1. k \in DOMAIN (s \o t) /\ (s \o t)[k] = s[k]
    OBVIOUS
  <2> QED BY <2>1 DEF Elems
<1>4. Elems(t) \subseteq Elems(s \o t)
  <2> SUFFICES ASSUME NEW k \in DOMAIN t PROVE t[k] \in Elems(s \o t)
    BY DEF Elems
  <2>1. k + Len(s) \in DOMAIN (s \o t) /\ (s \o t)[k + Len(s)] = t[k]
    OBVIOUS
  <2> QED BY <2>1 DEF Elems
<1> QED BY <1>1, <1>2, <1>3, <1>4

-----------------------------------------------------------------------------
(* The stack after a step that replaces its top.                           *)

\* A step that replaces the top frame by frames leaves a stack of frames:
\* the new ones above those that were under the top.
LEMMA BecomeType ==
    ASSUME TypeOK, stack # <<>>, NEW s \in Seq(Frame), Become(s)
    PROVE  /\ stack' \in Seq(Frame)
           /\ Head(stack) \in Frame
           /\ Frames = {Head(stack)} \cup Elems(Tail(stack))
           /\ Frames' = Elems(s) \cup Elems(Tail(stack))
<1>1. stack \in Seq(Frame)
  BY DEF TypeOK
<1>2. /\ Head(stack) \in Frame /\ Tail(stack) \in Seq(Frame)
      /\ Elems(stack) = {Head(stack)} \cup Elems(Tail(stack))
  BY <1>1, HeadTail
<1>3. /\ s \o Tail(stack) \in Seq(Frame)
      /\ Elems(s \o Tail(stack)) = Elems(s) \cup Elems(Tail(stack))
  BY <1>2, Concat
<1> QED BY <1>2, <1>3 DEF Become, Elems, Frames

\* The name of a frame tells the handler it belongs to.
LEMMA FrameOp ==
    ASSUME NEW f \in Frame
    PROVE  /\ f.op = "loop" => f \in LoopFrame
           /\ f.op = "scan" => f \in ScanFrame
           /\ f.op = "start" => f \in StartFrame
           /\ f.op = "create" => f \in CreateFrame
           /\ f.op = "process" => f \in ProcessFrame
           /\ f.op = "join" => f \in JoinFrame
           /\ f.op = "clear" => f \in ClearFrame
BY DEF Frame, LoopFrame, ScanFrame, StartFrame, CreateFrame, ProcessFrame, JoinFrame, ClearFrame

\* What sequences of up to two frames hold.
LEMMA SmallSeqs ==
    ASSUME NEW S
    PROVE  /\ <<>> \in Seq(S) /\ Elems(<<>>) = {}
           /\ \A a \in S : <<a>> \in Seq(S) /\ Elems(<<a>>) = {a}
           /\ \A a, b \in S : <<a, b>> \in Seq(S) /\ Elems(<<a, b>>) = {a, b}
<1>1. <<>> \in Seq(S) /\ Elems(<<>>) = {}
  BY DEF Elems
<1>2. ASSUME NEW a \in S PROVE <<a>> \in Seq(S) /\ Elems(<<a>>) = {a}
  <2>1. DOMAIN <<a>> = {1} /\ <<a>>[1] = a
    OBVIOUS
  <2> QED BY <2>1 DEF Elems
<1>3. ASSUME NEW a \in S, NEW b \in S
      PROVE  <<a, b>> \in Seq(S) /\ Elems(<<a, b>>) = {a, b}
  <2>1. DOMAIN <<a, b>> = {1, 2} /\ <<a, b>>[1] = a /\ <<a, b>>[2] = b
    OBVIOUS
  <2> QED BY <2>1 DEF Elems
<1> QED BY <1>1, <1>2, <1>3

-----------------------------------------------------------------------------
(* The types of the frames the handlers push.                              *)

\* A pending validate or update is a target.
LEMMA CallOnType ==
    ASSUME NEW i \in InstId, NEW r \in Res, NEW s \in Sig \cup {NoSig}, NEW b \in BOOLEAN
    PROVE  CallOn(i, r, s, b) \in Target
BY DEF CallOn, Target

\* A loop over targets is a frame.
LEMMA LoopType ==
    ASSUME NEW todo \in SUBSET Target
    PROVE  Loop(todo) \in LoopFrame
BY DEF Loop, LoopFrame

\* validate and update read items into their frame.
LEMMA ScanType ==
    ASSUME TypeOK, NEW c \in Target
    PROVE  Scan(c) \in ScanFrame
BY DEF Scan, ScanFrame, TypeOK, ItemsOf

\* process starts with the dictionary it is given, before the execution of an
\* active item and at the split of any other.
LEMMA ProcessType ==
    ASSUME NEW w \in Item, NEW c \in Target
    PROVE  /\ Process(w, c) \in ProcessFrame
           /\ Process(w, c).item = w
           /\ Process(w, c).pc \in {"send", "execute", "split"}
           /\ w.state = "active" => Process(w, c).pc \in {"send", "execute"}
<1> DEFINE p == Process(w, c)
<1>1. p.pc \in {"send", "execute", "split"} /\ p.item = w
      /\ (w.state = "active" => p.pc \in {"send", "execute"})
  BY DEF Process
<1>2. <<>> \in Seq(Call)
  OBVIOUS
<1>3. p \in ProcessFrame
  BY <1>2 DEF Process, ProcessFrame
<1> QED BY <1>1, <1>3

\* instance.create pushes a workitem.create and an update.
LEMMA CreateInstType ==
    ASSUME NEW i \in InstId, NEW w \in Wkf, NEW r \in Res, NEW f \in Frame
    PROVE  /\ CreateInst(i, w, r) \o <<f>> \in Seq(Frame)
           /\ f \in Elems(CreateInst(i, w, r) \o <<f>>)
           /\ \A g \in Elems(CreateInst(i, w, r) \o <<f>>) :
                 g = f \/ g \in CreateFrame \/ g \in LoopFrame
<1> DEFINE c == CallOn(i, r, NoSig, FALSE)
           a == Creating(c, StartActs(w))
           b == Loop({c})
<1>1. c \in Target
  BY CallOnType
<1>2. a \in CreateFrame
  BY <1>1, ConstantsAssumption DEF Creating, CreateFrame, StartActs
<1>3. b \in LoopFrame
  BY <1>1, LoopType
<1>4. a \in Frame /\ b \in Frame
  BY <1>2, <1>3 DEF Frame
<1>5. CreateInst(i, w, r) = <<a, b>>
  BY DEF CreateInst
<1>6. <<a, b>> \in Seq(Frame) /\ Elems(<<a, b>>) = {a, b}
      /\ <<f>> \in Seq(Frame) /\ Elems(<<f>>) = {f}
  BY <1>4, SmallSeqs
<1>7. CreateInst(i, w, r) \in Seq(Frame) /\ Elems(CreateInst(i, w, r)) = {a, b}
  BY <1>5, <1>6
<1> DEFINE t == <<f>>
<1>8. t \in Seq(Frame) /\ Elems(t) = {f}
  BY <1>6
<1> HIDE DEF t, a, b
<1>9. /\ CreateInst(i, w, r) \o t \in Seq(Frame)
      /\ Elems(CreateInst(i, w, r) \o t) = {a, b} \cup {f}
  BY <1>7, <1>8, Concat
<1> QED BY <1>2, <1>3, <1>9 DEF t

-----------------------------------------------------------------------------
(* Lemmas for the steps: the top frame and the frames a step leaves.       *)

\* The top of the stack is a frame.
LEMMA TopFrame ==
    ASSUME TypeOK, stack # <<>>
    PROVE  Head(stack) \in Frame
BY HeadTail DEF TypeOK

\* A handler that returns leaves the frames under it.
LEMMA Push0 ==
    ASSUME TypeOK, stack # <<>>, Become(<<>>)
    PROVE  /\ stack' \in Seq(Frame)
           /\ Frames = {Head(stack)} \cup Elems(Tail(stack))
           /\ Frames' = Elems(Tail(stack))
<1>1. <<>> \in Seq(Frame) /\ Elems(<<>>) = {}
  BY SmallSeqs
<1> DEFINE e == <<>>
<1>2. e \in Seq(Frame) /\ Elems(e) = {} /\ Become(e)
  BY <1>1
<1> HIDE DEF e
<1> QED BY <1>2, BecomeType

\* A step that replaces the top frame by one frame.
LEMMA Push1 ==
    ASSUME TypeOK, stack # <<>>, NEW a \in Frame, Become(<<a>>)
    PROVE  /\ stack' \in Seq(Frame)
           /\ Frames = {Head(stack)} \cup Elems(Tail(stack))
           /\ Frames' = {a} \cup Elems(Tail(stack))
<1>1. <<a>> \in Seq(Frame) /\ Elems(<<a>>) = {a}
  BY SmallSeqs
<1> QED BY <1>1, BecomeType

\* A step that replaces the top frame by two frames: a call.
LEMMA Push2 ==
    ASSUME TypeOK, stack # <<>>, NEW a \in Frame, NEW b \in Frame, Become(<<a, b>>)
    PROVE  /\ stack' \in Seq(Frame)
           /\ Frames = {Head(stack)} \cup Elems(Tail(stack))
           /\ Frames' = {a, b} \cup Elems(Tail(stack))
<1>1. <<a, b>> \in Seq(Frame) /\ Elems(<<a, b>>) = {a, b}
  BY SmallSeqs
<1> QED BY <1>1, BecomeType

\* A step that replaces the top frame by three frames.
LEMMA Push3 ==
    ASSUME TypeOK, stack # <<>>, NEW a \in Frame, NEW b \in Frame, NEW c \in Frame,
           Become(<<a, b, c>>)
    PROVE  /\ stack' \in Seq(Frame)
           /\ Frames = {Head(stack)} \cup Elems(Tail(stack))
           /\ Frames' = {a, b, c} \cup Elems(Tail(stack))
<1>1. <<a, b, c>> \in Seq(Frame)
  OBVIOUS
<1>2. /\ DOMAIN <<a, b, c>> = {1, 2, 3}
      /\ <<a, b, c>>[1] = a /\ <<a, b, c>>[2] = b /\ <<a, b, c>>[3] = c
  OBVIOUS
<1>3. Elems(<<a, b, c>>) = {a, b, c}
  BY <1>2 DEF Elems
<1> QED BY <1>1, <1>3, BecomeType

\* A request starts with one frame.
LEMMA One ==
    ASSUME TypeOK, NEW a \in Frame, stack' = <<a>>
    PROVE  stack' \in Seq(Frame) /\ Frames' = {a}
<1>1. <<a>> \in Seq(Frame) /\ Elems(<<a>>) = {a}
  BY SmallSeqs
<1> QED BY <1>1 DEF Frames, Elems

\* _state_set leaves work items.
LEMMA SetStateType ==
    ASSUME TypeOK, NEW k, NEW s \in {"active", "running", "complete"}, SetState(k, s)
    PROVE  items' \subseteq Item
BY DEF TypeOK, SetState, Item

\* What conditions read of a watching record stays data.
LEMMA ReadsType ==
    ASSUME TypeOK, NEW r, NEW d \in Data, Reads(r, d)
    PROVE  data' \in [Res -> Data]
BY DEF TypeOK, Reads

\* trg_validate and trg_write loop over targets.
LEMMA CallsType ==
    ASSUME NEW rows \in SUBSET Inst, NEW s \in Sig \cup {NoSig}
    PROVE  Validates(rows, s) \in LoopFrame /\ Updates(rows) \in LoopFrame
<1>1. ASSUME NEW n \in rows, NEW x \in Sig \cup {NoSig}
      PROVE  CallFor(n, x) \in Target
  BY CallOnType DEF CallFor, Inst
<1>2. /\ {CallFor(n, s) : n \in rows} \in SUBSET Target
      /\ {CallFor(n, NoSig) : n \in rows} \in SUBSET Target
  BY <1>1
<1> QED BY <1>2, LoopType DEF Validates, Updates

\* trg_create starts workflows.
LEMMA StartingType ==
    ASSUME NEW r \in Res
    PROVE  Starting(r) \in StartFrame
BY ConstantsAssumption DEF Starting, StartFrame

\* A frame that enters its action keeps its item.
LEMMA RunningType ==
    ASSUME NEW f \in ProcessFrame, NEW calls \in Seq(Call)
    PROVE  /\ Running(f, calls) \in ProcessFrame
           /\ Running(f, calls).pc = "action"
           /\ Running(f, calls).item.id = f.item.id
           /\ Running(f, calls).item.act = f.item.act
BY DEF Running, ProcessFrame, Item

\* signal_send loops over targets.
LEMMA SendType ==
    ASSUME TypeOK, NEW f \in ProcessFrame
    PROVE  Loop({CallOn(n.id, n.res, SignalSend[f.item.act], TRUE) :
                 n \in Waiting(f.item.inst)}) \in LoopFrame
<1> DEFINE todo == {CallOn(n.id, n.res, SignalSend[f.item.act], TRUE) :
                    n \in Waiting(f.item.inst)}
<1>1. ASSUME NEW n \in Waiting(f.item.inst)
      PROVE  CallOn(n.id, n.res, SignalSend[f.item.act], TRUE) \in Target
  <2>1. n \in Inst
    BY DEF TypeOK, Waiting
  <2>2. SignalSend[f.item.act] \in Sig \cup {NoSig}
    BY ConstantsAssumption DEF ProcessFrame, Item
  <2> QED BY <2>1, <2>2, CallOnType DEF Inst
<1>2. todo \in SUBSET Target
  BY <1>1
<1> HIDE DEF todo
<1>3. Loop(todo) \in LoopFrame
  BY <1>2, LoopType
<1> QED BY <1>3 DEF todo

\* An action makes a sequence of calls.
LEMMA ActionCalls ==
    ASSUME NEW a \in Act, NEW calls \in Action[a]
    PROVE  calls \in Seq(Call)
BY ConstantsAssumption

\* A frame that has made a call keeps its item and has the others to make.
LEMMA CalledType ==
    ASSUME NEW f \in ProcessFrame, f.calls # <<>>
    PROVE  /\ Head(f.calls) \in Call
           /\ Called(f) \in ProcessFrame
           /\ Called(f).pc = f.pc
           /\ Called(f).item = f.item
<1>1. f.calls \in Seq(Call)
  BY DEF ProcessFrame
<1>2. Head(f.calls) \in Call /\ Tail(f.calls) \in Seq(Call)
  BY <1>1, HeadTail
<1> QED BY <1>2 DEF Called, ProcessFrame

\* workitem.create puts items on activities.
LEMMA CreatingType ==
    ASSUME NEW c \in Target, NEW acts \in SUBSET Act
    PROVE  Creating(c, acts) \in CreateFrame
BY DEF Creating, CreateFrame

-----------------------------------------------------------------------------
(* Type correctness.                                                       *)

\* The loops of instance.py keep the types.
LEMMA TypeLoops ==
    ASSUME TypeOK,
           LoopNext \/ LoopEnd \/ ScanNext \/ UpdateEndOpen \/ UpdateEndDone
    PROVE  TypeOK'
<1> DEFINE f == Head(stack)
<1>1. CASE LoopNext
  <2>1. stack # <<>> /\ f \in LoopFrame
    BY <1>1, TopFrame, FrameOp DEF LoopNext, At
  <2>2. PICK c \in f.todo :
           Become(<<Scan(c), [f EXCEPT !.todo = @ \ {c}, !.last = c.inst]>>)
    BY <1>1 DEF LoopNext
  <2>3. c \in Target
    BY <2>1 DEF LoopFrame
  <2>4. [f EXCEPT !.todo = @ \ {c}, !.last = c.inst] \in LoopFrame
    BY <2>1, <2>3 DEF LoopFrame, Target
  <2>5. stack' \in Seq(Frame)
    BY <2>1, <2>2, <2>3, <2>4, ScanType, Push2 DEF Frame
  <2> QED BY <1>1, <2>5 DEF TypeOK, LoopNext, tables
<1>2. CASE LoopEnd
  BY <1>2, Push0 DEF TypeOK, LoopEnd, At, tables
<1>3. CASE ScanNext
  <2>1. stack # <<>> /\ f \in ScanFrame
    BY <1>3, TopFrame, FrameOp DEF ScanNext, At
  <2>2. PICK w \in f.todo : Become(<<Process(w, f.call), [f EXCEPT !.todo = @ \ {w}]>>)
    BY <1>3 DEF ScanNext
  <2>3. w \in Item /\ f.call \in Target
    BY <2>1 DEF ScanFrame
  <2>4. [f EXCEPT !.todo = @ \ {w}] \in ScanFrame
    BY <2>1 DEF ScanFrame
  <2>5. stack' \in Seq(Frame)
    BY <2>1, <2>2, <2>3, <2>4, ProcessType, Push2 DEF Frame
  <2> QED BY <1>3, <2>5 DEF TypeOK, ScanNext, tables
<1>4. CASE UpdateEndOpen
  BY <1>4, Push0 DEF TypeOK, UpdateEndOpen, At, tables
<1>5. CASE UpdateEndDone
  <2>1. stack # <<>> /\ f \in ScanFrame
    BY <1>5, TopFrame, FrameOp DEF UpdateEndDone, At
  <2> DEFINE i == f.call.inst
             calls(n) == {CallOn(n.id, n.res, StopSig[w.act], FALSE) : w \in ItemsOf(i)}
             todo == UNION {calls(n) : n \in Waiting(i)}
  <2>2. Become(<<Loop(todo)>>)
    BY <1>5 DEF UpdateEndDone
  <2>3. ASSUME NEW n \in Waiting(i), NEW w \in ItemsOf(i)
        PROVE  CallOn(n.id, n.res, StopSig[w.act], FALSE) \in Target
    <3>1. n \in Inst /\ w \in Item
      BY DEF TypeOK, Waiting, ItemsOf
    <3>2. StopSig[w.act] \in Sig
      BY <3>1, ConstantsAssumption DEF Item
    <3> QED BY <3>1, <3>2, CallOnType DEF Inst
  <2>8. ASSUME NEW n \in Waiting(i) PROVE calls(n) \subseteq Target
    BY <2>3
  <2>9. todo \in SUBSET Target
    BY <2>8
  <2> HIDE DEF todo
  <2>4. Loop(todo) \in Frame
    BY <2>9, LoopType DEF Frame
  <2>5. stack' \in Seq(Frame)
    BY <2>1, <2>2, <2>4, Push1
  <2>6. insts' \subseteq Inst
    BY <1>5 DEF UpdateEndDone, TypeOK, Inst
  <2>7. items' \subseteq Item
    BY <1>5 DEF UpdateEndDone, TypeOK, Item, WaitersComplete
  <2> QED BY <1>5, <2>5, <2>6, <2>7 DEF TypeOK, UpdateEndDone
<1> QED BY <1>1, <1>2, <1>3, <1>4, <1>5

\* workitem.create and trg_create keep the types.
LEMMA TypeCreate ==
    ASSUME TypeOK, CreateNext \/ CreateEnd \/ StartNext \/ StartEnd
    PROVE  TypeOK'
<1> DEFINE f == Head(stack)
<1>1. CASE CreateNext
  <2> DEFINE k == CHOOSE x \in ItemId \ UsedItems : TRUE
             w(a) == [id |-> k, act |-> a, inst |-> f.call.inst, sub |-> NoInst,
                      state |-> "active"]
  <2>1. stack # <<>> /\ f \in CreateFrame
    BY <1>1, TopFrame, FrameOp DEF CreateNext, At
  <2>2. k \in ItemId
    BY <1>1 DEF CreateNext
  <2>3. PICK a \in f.todo :
           /\ items' = items \cup {w(a)}
           /\ Become(<<Process(w(a), f.call), [f EXCEPT !.todo = @ \ {a}]>>)
    BY <1>1 DEF CreateNext
  <2>4. f.call \in Target /\ a \in Act
    BY <2>1 DEF CreateFrame
  <2>5. w(a) \in Item
    BY <2>2, <2>4 DEF Item, Target
  <2>6. [f EXCEPT !.todo = @ \ {a}] \in CreateFrame
    BY <2>1 DEF CreateFrame
  <2> HIDE DEF k, w
  <2>7. stack' \in Seq(Frame)
    BY <2>1, <2>3, <2>4, <2>5, <2>6, ProcessType, Push2 DEF Frame
  <2>8. items' \subseteq Item
    BY <2>3, <2>5 DEF TypeOK
  <2> QED BY <1>1, <2>7, <2>8 DEF TypeOK, CreateNext
<1>2. CASE CreateEnd
  BY <1>2, Push0 DEF TypeOK, CreateEnd, At, tables
<1>3. CASE StartNext
  <2> DEFINE i == CHOOSE x \in InstId \ UsedInsts : TRUE
  <2>1. stack # <<>> /\ f \in StartFrame
    BY <1>3, TopFrame, FrameOp DEF StartNext, At
  <2>2. i \in InstId
    BY <1>3 DEF StartNext
  <2>3. PICK w \in f.todo :
           /\ insts' = insts \cup {[id |-> i, wkf |-> w, res |-> f.res, state |-> "active"]}
           /\ Become(CreateInst(i, w, f.res) \o <<[f EXCEPT !.todo = @ \ {w}]>>)
    BY <1>3 DEF StartNext
  <2> HIDE DEF i
  <2>4. f.res \in Res /\ w \in Wkf
    BY <2>1 DEF StartFrame
  <2>5. [f EXCEPT !.todo = @ \ {w}] \in Frame
    BY <2>1 DEF StartFrame, Frame
  <2>6. stack' \in Seq(Frame)
    BY <2>1, <2>2, <2>3, <2>4, <2>5, CreateInstType, BecomeType
  <2>7. insts' \subseteq Inst
    BY <2>2, <2>3, <2>4 DEF TypeOK, Inst
  <2> QED BY <1>3, <2>6, <2>7 DEF TypeOK, StartNext
<1>4. CASE StartEnd
  BY <1>4, Push0 DEF TypeOK, StartEnd, At, tables
<1> QED BY <1>1, <1>2, <1>3, <1>4

\* _execute keeps the types up to the call of the action.
LEMMA TypeExecute ==
    ASSUME TypeOK,
           SendSignal \/ ExecuteDummy \/ ExecuteFunction \/ ExecuteStopAll
           \/ ExecuteSubflow \/ ExecuteSubflowNew
    PROVE  TypeOK'
<1> DEFINE f == Head(stack)
<1>0. stack # <<>> /\ f \in ProcessFrame
  BY TopFrame, FrameOp DEF SendSignal, ExecuteDummy, ExecuteFunction, ExecuteStopAll,
     ExecuteSubflow, ExecuteSubflowNew, AtPc, At
<1>a. f.item \in Item /\ f.item.act \in Act /\ f.call \in Target
  BY <1>0 DEF ProcessFrame, Item
<1>b. ASSUME NEW calls \in Action[f.item.act], Become(<<Running(f, calls)>>)
      PROVE  stack' \in Seq(Frame)
  <2>1. calls \in Seq(Call)
    BY <1>a, ActionCalls
  <2>2. Running(f, calls) \in Frame
    BY <1>0, <2>1, RunningType DEF Frame
  <2> QED BY <1>0, <1>b, <2>2, Push1
<1>1. CASE SendSignal
  <2> DEFINE l == Loop({CallOn(n.id, n.res, SignalSend[f.item.act], TRUE) :
                        n \in Waiting(f.item.inst)})
  <2>1. Become(<<l, [f EXCEPT !.pc = "execute"]>>)
    BY <1>1 DEF SendSignal
  <2>3. l \in Frame
    BY <1>0, SendType DEF Frame
  <2> HIDE DEF l
  <2>4. [f EXCEPT !.pc = "execute"] \in Frame
    BY <1>0 DEF ProcessFrame, Frame
  <2>5. stack' \in Seq(Frame)
    BY <1>0, <2>1, <2>3, <2>4, Push2
  <2> QED BY <1>1, <2>5 DEF TypeOK, SendSignal, tables
<1>2. CASE ExecuteDummy
  <2>1. Become(<<[f EXCEPT !.pc = "split", !.item.state = "complete"]>>)
        /\ SetState(f.item.id, "complete")
    BY <1>2 DEF ExecuteDummy
  <2>2. [f EXCEPT !.pc = "split", !.item.state = "complete"] \in ProcessFrame
    BY <1>0 DEF ProcessFrame, Item
  <2>3. stack' \in Seq(Frame)
    BY <1>0, <2>1, <2>2, Push1 DEF Frame
  <2> QED BY <1>2, <2>1, <2>3, SetStateType DEF TypeOK, ExecuteDummy
<1>3. CASE ExecuteFunction
  <2>1. SetState(f.item.id, "running")
    BY <1>3 DEF ExecuteFunction, BeginAction
  <2> QED BY <1>3, <1>b, <2>1, SetStateType DEF TypeOK, ExecuteFunction
<1>4. CASE ExecuteStopAll
  <2>1. stack' \in Seq(Frame)
    BY <1>4, <1>b DEF ExecuteStopAll
  <2>2. items' \subseteq Item
    BY <1>4 DEF ExecuteStopAll, TypeOK, Item
  <2>3. trigs' \subseteq Trig
    BY <1>4 DEF ExecuteStopAll, TypeOK
  <2> QED BY <1>4, <2>1, <2>2, <2>3 DEF TypeOK, ExecuteStopAll
<1>5. CASE ExecuteSubflow
  <2>1. SetState(f.item.id, "running")
    BY <1>5 DEF ExecuteSubflow
  <2> QED BY <1>5, <1>b, <2>1, SetStateType DEF TypeOK, ExecuteSubflow
<1>6. CASE ExecuteSubflowNew
  <2> DEFINE i == CHOOSE x \in InstId \ UsedInsts : TRUE
             w == SubWkf[f.item.act]
             g == [Running(f, <<>>) EXCEPT !.child = i]
  <2>1. i \in InstId
    BY <1>6 DEF ExecuteSubflowNew
  <2>2. /\ SetState(f.item.id, "running")
        /\ insts' = insts \cup {[id |-> i, wkf |-> w, res |-> f.call.res, state |-> "active"]}
        /\ Become(CreateInst(i, w, f.call.res) \o <<g>>)
    BY <1>6 DEF ExecuteSubflowNew
  <2>3. w \in Wkf /\ f.call.res \in Res
    BY <1>a, ConstantsAssumption DEF Target
  <2> HIDE DEF i, w
  <2>4. <<>> \in Seq(Call)
    OBVIOUS
  <2>5. Running(f, <<>>) \in ProcessFrame
    BY <1>0, <2>4, RunningType
  <2>6. g \in Frame
    BY <2>1, <2>5 DEF ProcessFrame, Frame
  <2> HIDE DEF g
  <2>7. stack' \in Seq(Frame)
    BY <1>0, <2>1, <2>2, <2>3, <2>6, CreateInstType, BecomeType
  <2>8. insts' \subseteq Inst
    BY <2>1, <2>2, <2>3 DEF TypeOK, Inst
  <2> QED BY <1>6, <2>2, <2>7, <2>8, SetStateType DEF TypeOK, ExecuteSubflowNew
<1> QED BY <1>1, <1>2, <1>3, <1>4, <1>5, <1>6

\* The calls of an action, and its return, keep the types.
LEMMA TypeAction ==
    ASSUME TypeOK,
           ActionWrite \/ ActionNew \/ ActionFind \/ ActionSignal \/ ActionTrigger
           \/ ActionEnd \/ ActionNoSubflow \/ ActionLink
    PROVE  TypeOK'
<1> DEFINE f == Head(stack)
<1>0. stack # <<>> /\ f \in ProcessFrame
  BY TopFrame, FrameOp DEF ActionWrite, ActionNew, ActionFind, ActionSignal, ActionTrigger,
     ActionEnd, ActionNoSubflow, ActionLink, NextCall, AtPc, At
<1>a. f.item \in Item /\ f.item.act \in Act /\ f.call \in Target /\ f.call.res \in Res
  BY <1>0 DEF ProcessFrame, Item, Target
<1>b. /\ \A r : ActiveOn(r) \in SUBSET Inst /\ Triggered(r) \in SUBSET Inst
      /\ data \in [Res -> Data]
  BY DEF TypeOK, ActiveOn, InstsOn, Triggered
<1>c. ASSUME f.calls # <<>>
      PROVE  Head(f.calls) \in Call /\ Called(f) \in ProcessFrame
  BY <1>0, <1>c, CalledType
<1>1. CASE ActionWrite
  <2>1. f.calls # <<>> /\ Head(f.calls).op = "write"
    BY <1>1 DEF ActionWrite, NextCall
  <2>2. Updates(ActiveOn(f.call.res)) \in Frame
    BY <1>b, CallsType DEF Frame
  <2>3. stack' \in Seq(Frame)
    BY <1>0, <1>1, <1>c, <2>1, <2>2, Push2 DEF ActionWrite, Frame
  <2>4. Head(f.calls).data \in Data \cup {NoData}
    BY <1>c, <2>1 DEF Call
  <2>5. data' \in [Res -> Data]
    BY <1>1, <1>b, <2>4 DEF ActionWrite
  <2> QED BY <1>1, <2>3, <2>5 DEF TypeOK, ActionWrite
<1>2. CASE ActionNew
  <2>1. f.calls # <<>>
    BY <1>2 DEF ActionNew, NextCall
  <2>2. PICK r \in ForSubflow(f) :
           /\ data' = [data EXCEPT ![r] = NewData]
           /\ Become(<<Starting(r), [Called(f) EXCEPT !.made = r]>>)
    BY <1>2 DEF ActionNew
  <2>3. r \in Res
    BY DEF ForSubflow
  <2>4. [Called(f) EXCEPT !.made = r] \in Frame
    BY <1>c, <2>1, <2>3 DEF ProcessFrame, Frame
  <2>5. stack' \in Seq(Frame)
    BY <1>0, <2>2, <2>3, <2>4, StartingType, Push2 DEF Frame
  <2>6. data' \in [Res -> Data]
    BY <1>b, <2>2, ConstantsAssumption
  <2> QED BY <1>2, <2>5, <2>6 DEF TypeOK, ActionNew
<1>3. CASE ActionFind
  <2>1. f.calls # <<>>
    BY <1>3 DEF ActionFind, NextCall
  <2>2. PICK r \in ForSubflow(f) : Become(<<[Called(f) EXCEPT !.made = r]>>)
    BY <1>3 DEF ActionFind
  <2>3. r \in Res
    BY DEF ForSubflow
  <2>4. [Called(f) EXCEPT !.made = r] \in Frame
    BY <1>c, <2>1, <2>3 DEF ProcessFrame, Frame
  <2>5. stack' \in Seq(Frame)
    BY <1>0, <2>2, <2>4, Push1
  <2> QED BY <1>3, <2>5 DEF TypeOK, ActionFind, tables
<1>4. CASE ActionSignal
  <2> DEFINE c == Head(f.calls)
             r == IF c.own THEN f.call.res ELSE f.made
  <2>1. f.calls # <<>> /\ c.op = "signal"
    BY <1>4 DEF ActionSignal, NextCall
  <2>2. c.sig \in Sig
    BY <1>c, <2>1 DEF Call
  <2>3. Validates(ActiveOn(r), c.sig) \in Frame
    BY <1>b, <2>2, CallsType DEF Frame
  <2>4. stack' \in Seq(Frame)
    BY <1>0, <1>4, <1>c, <2>1, <2>3, Push2 DEF ActionSignal, Frame
  <2> QED BY <1>4, <2>4 DEF TypeOK, ActionSignal, tables
<1>5. CASE ActionTrigger
  <2> DEFINE c == Head(f.calls)
  <2>1. f.calls # <<>> /\ c.op = "trigger"
    BY <1>5 DEF ActionTrigger, NextCall
  <2>2. c.data \in Data
    BY <1>c, <2>1 DEF Call
  <2>3. Updates(Triggered(c.rec)) \in Frame
    BY <1>b, CallsType DEF Frame
  <2>4. stack' \in Seq(Frame)
    BY <1>0, <1>5, <1>c, <2>1, <2>3, Push2 DEF ActionTrigger, Frame
  <2>5. data' \in [Res -> Data]
    BY <1>5, <2>2, ReadsType DEF ActionTrigger
  <2> QED BY <1>5, <2>4, <2>5 DEF TypeOK, ActionTrigger
<1>6. CASE ActionEnd
  <2>1. Become(<<[f EXCEPT !.pc = "split", !.item.state = "complete"]>>)
        /\ SetState(f.item.id, "complete")
    BY <1>6 DEF ActionEnd
  <2>2. [f EXCEPT !.pc = "split", !.item.state = "complete"] \in Frame
    BY <1>0 DEF ProcessFrame, Item, Frame
  <2>3. stack' \in Seq(Frame)
    BY <1>0, <2>1, <2>2, Push1
  <2> QED BY <1>6, <2>1, <2>3, SetStateType DEF TypeOK, ActionEnd
<1>7. CASE ActionNoSubflow
  <2>1. stack' \in Seq(Frame)
    BY <1>0, <1>7, Push0 DEF ActionNoSubflow
  <2> QED BY <1>7, <2>1 DEF TypeOK, ActionNoSubflow, DeleteItems
<1>8. CASE ActionLink
  <2>1. PICK n \in insts :
           /\ items' = {IF w.id # f.item.id THEN w
                         ELSE IF n.state = "complete"
                         THEN [w EXCEPT !.sub = n.id, !.state = "complete"]
                         ELSE [w EXCEPT !.sub = n.id] : w \in items}
           /\ Become(<<[f EXCEPT !.pc = "split", !.item.sub = n.id,
                                  !.item.state = IF n.state = "complete"
                                                 THEN "complete" ELSE @]>>)
    BY <1>8 DEF ActionLink
  <2>2. n.id \in InstId
    BY DEF TypeOK, Inst
  <2>3. [f EXCEPT !.pc = "split", !.item.sub = n.id,
                  !.item.state = IF n.state = "complete" THEN "complete" ELSE @] \in Frame
    BY <1>0, <2>2 DEF ProcessFrame, Item, Frame
  <2>4. stack' \in Seq(Frame)
    BY <1>0, <2>1, <2>3, Push1
  <2>5. items' \subseteq Item
    BY <2>1, <2>2 DEF TypeOK, Item
  <2> QED BY <1>8, <2>4, <2>5 DEF TypeOK, ActionLink
<1> QED BY <1>1, <1>2, <1>3, <1>4, <1>5, <1>6, <1>7, <1>8

\* _split_test and _join_test keep the types.
LEMMA TypeSplit ==
    ASSUME TypeOK, SplitFire \/ SplitStay \/ JoinNext \/ JoinClear \/ JoinEnd
    PROVE  TypeOK'
<1> DEFINE f == Head(stack)
<1>1. CASE SplitFire
  <2>1. stack # <<>> /\ f \in ProcessFrame
    BY <1>1, TopFrame, FrameOp DEF SplitFire, AtPc, At
  <2>2. PICK fired \in Fireable(f) \ {{}} :
           /\ passed' = passed \cup (fired \X {f.item.inst})
           /\ Become(<<[op |-> "join", call |-> [f.call EXCEPT !.inst = f.item.inst],
                        todo |-> fired]>>)
    BY <1>1 DEF SplitFire
  <2>3. FromAct(f.item.act) \subseteq Trans
    BY DEF FromAct
  <2>4. fired \subseteq Trans
    BY <2>2, <2>3, FireableFrom
  <2>5. f.item.inst \in InstId /\ [f.call EXCEPT !.inst = f.item.inst] \in Target
    BY <2>1 DEF ProcessFrame, Item, Target
  <2>6. [op |-> "join", call |-> [f.call EXCEPT !.inst = f.item.inst], todo |-> fired]
        \in Frame
    BY <2>4, <2>5 DEF JoinFrame, Frame
  <2>7. stack' \in Seq(Frame)
    BY <2>1, <2>2, <2>6, Push1
  <2>8. passed' \subseteq Trans \X InstId
    BY <2>2, <2>4, <2>5 DEF TypeOK
  <2> QED BY <1>1, <2>7, <2>8 DEF TypeOK, SplitFire, DeleteItems
<1>2. CASE SplitStay
  <2>1. stack # <<>> /\ f \in ProcessFrame
    BY <1>2, TopFrame, FrameOp DEF SplitStay, AtPc, At
  <2>2. stack' \in Seq(Frame)
    BY <1>2, <2>1, Push0 DEF SplitStay
  <2> DEFINE rows == {[watch |-> r, inst |-> f.item.inst, item |-> f.item.id] :
                      r \in UNION {Watch[t] : t \in FromAct(f.item.act)}}
  <2>3. f.item.inst \in InstId /\ f.item.id \in ItemId
    BY <2>1 DEF ProcessFrame, Item
  <2>4. UNION {Watch[t] : t \in FromAct(f.item.act)} \subseteq Res
    BY ConstantsAssumption DEF FromAct
  <2>5. rows \subseteq Trig
    BY <2>3, <2>4 DEF Trig
  <2>6. trigs' \subseteq trigs \cup rows
    BY <1>2 DEF SplitStay
  <2> HIDE DEF rows
  <2> QED BY <1>2, <2>2, <2>5, <2>6 DEF TypeOK, SplitStay
<1>3. CASE JoinNext
  <2>1. stack # <<>> /\ f \in JoinFrame
    BY <1>3, TopFrame, FrameOp DEF JoinNext, At
  <2> DEFINE i == f.call.inst
             rest(t) == [f EXCEPT !.todo = @ \ {t}]
             next(t) == Creating([f.call EXCEPT !.sig = NoSig, !.force = FALSE], {To[t]})
             clear(t) == [op |-> "clear", inst |-> i, trans |-> t]
             into(t) == IntoAct(To[t]) \X {i}
  <2>2. PICK t \in f.todo :
           \/ Become(<<next(t), clear(t), rest(t)>>) /\ UNCHANGED passed
           \/ Become(<<next(t), rest(t)>>) /\ passed' = passed \ into(t)
           \/ Become(<<rest(t)>>) /\ UNCHANGED passed
    BY <1>3 DEF JoinNext
  <2>3. t \in Trans /\ f.call \in Target /\ i \in InstId
    BY <2>1 DEF JoinFrame, Target
  <2>4. rest(t) \in Frame
    BY <2>1 DEF JoinFrame, Frame
  <2>5. [f.call EXCEPT !.sig = NoSig, !.force = FALSE] \in Target
    BY <2>3 DEF Target
  <2>10. {To[t]} \in SUBSET Act
    BY <2>3, ConstantsAssumption
  <2>6. next(t) \in Frame
    BY <2>5, <2>10, CreatingType DEF Frame
  <2>7. clear(t) \in Frame
    BY <2>3 DEF ClearFrame, Frame
  <2> HIDE DEF rest, next, clear
  <2>8. stack' \in Seq(Frame)
    BY <2>1, <2>2, <2>4, <2>6, <2>7, Push1, Push2, Push3
  <2>9. passed' \subseteq passed
    BY <2>2
  <2> QED BY <1>3, <2>8, <2>9 DEF TypeOK, JoinNext
<1>4. CASE JoinClear
  BY <1>4, Push0 DEF TypeOK, JoinClear, At
<1>5. CASE JoinEnd
  BY <1>5, Push0 DEF TypeOK, JoinEnd, At, tables
<1> QED BY <1>1, <1>2, <1>3, <1>4, <1>5

\* Requests, commit and rollback keep the types.
LEMMA TypeRequest ==
    ASSUME TypeOK, Request \/ Commit \/ Rollback
    PROVE  TypeOK'
<1>a. /\ \A r : ActiveOn(r) \in SUBSET Inst /\ Triggered(r) \in SUBSET Inst
      /\ data \in [Res -> Data]
  BY DEF TypeOK, ActiveOn, InstsOn, Triggered
<1>1. CASE \E r \in Res : TrgCreate(r)
  <2>1. PICK r \in Res : TrgCreate(r)
    BY <1>1
  <2>2. stack' \in Seq(Frame)
    BY <2>1, StartingType, One DEF TrgCreate, Frame
  <2>3. data' \in [Res -> Data]
    BY <1>a, <2>1, ConstantsAssumption DEF TrgCreate
  <2> QED BY <2>1, <2>2, <2>3 DEF TypeOK, TrgCreate
<1>2. CASE \E r \in Res : \E d \in UserWrite[r] : TrgWrite(r, d)
  <2>0. PICK r \in Res : \E d \in UserWrite[r] : TrgWrite(r, d)
    BY <1>2
  <2>1. PICK d \in UserWrite[r] : TrgWrite(r, d)
    BY <2>0
  <2>2. d \in Data
    BY ConstantsAssumption
  <2>3. Updates(ActiveOn(r)) \in Frame
    BY <1>a, CallsType DEF Frame
  <2>4. stack' \in Seq(Frame)
    BY <2>1, <2>3, One DEF TrgWrite
  <2>5. data' \in [Res -> Data]
    BY <1>a, <2>1, <2>2 DEF TrgWrite
  <2> QED BY <2>1, <2>4, <2>5 DEF TypeOK, TrgWrite
<1>3. CASE \E r \in Res, s \in Sig : TrgValidate(r, s)
  <2>1. PICK r \in Res, s \in Sig : TrgValidate(r, s)
    BY <1>3
  <2>2. Validates(ActiveOn(r), s) \in Frame
    BY <1>a, CallsType DEF Frame
  <2>3. stack' \in Seq(Frame)
    BY <2>1, <2>2, One DEF TrgValidate
  <2> QED BY <2>1, <2>3 DEF TypeOK, TrgValidate, tables
<1>4. CASE \E r \in Res : \E d \in WatchData[r] : TrgTrigger(r, d)
  <2>0. PICK r \in Res : \E d \in WatchData[r] : TrgTrigger(r, d)
    BY <1>4
  <2>1. PICK d \in WatchData[r] : TrgTrigger(r, d)
    BY <2>0
  <2>2. d \in Data
    BY ConstantsAssumption
  <2>3. Updates(Triggered(r)) \in Frame
    BY <1>a, CallsType DEF Frame
  <2>4. stack' \in Seq(Frame)
    BY <2>1, <2>3, One DEF TrgTrigger
  <2>5. data' \in [Res -> Data]
    BY <2>1, <2>2, ReadsType DEF TrgTrigger
  <2> QED BY <2>1, <2>4, <2>5 DEF TypeOK, TrgTrigger
<1>5. CASE \E r \in Deletable : TrgDelete(r)
  BY <1>5 DEF TypeOK, TrgDelete, DeleteItems
<1>6. CASE \E r, new \in Res : TrgRedirect(r, new)
  <2>1. PICK r \in Res, new \in Res : TrgRedirect(r, new)
    BY <1>6
  <2> DEFINE heir(w) == CHOOSE n \in Successors(r, new, w.sub) : TRUE
  <2>2. ASSUME NEW w \in items, Successors(r, new, w.sub) # {}
        PROVE  [w EXCEPT !.sub = heir(w).id] \in Item
    <3>1. heir(w) \in Successors(r, new, w.sub)
      BY <2>2
    <3>2. heir(w) \in insts
      BY <3>1 DEF Successors, ActiveOn, InstsOn
    <3>3. heir(w).id \in InstId
      BY <3>2 DEF TypeOK, Inst
    <3> HIDE DEF heir
    <3> QED BY <3>3 DEF TypeOK, Item
  <2>3. items' \subseteq Item
    BY <2>1, <2>2 DEF TypeOK, TrgRedirect
  <2> QED BY <2>1, <2>3 DEF TypeOK, TrgRedirect
<1>7. CASE Commit
  BY <1>7 DEF TypeOK, Commit, Now, Tables, tables
<1>8. CASE Rollback
  <2>1. <<>> \in Seq(Frame)
    BY SmallSeqs
  <2> QED BY <1>8, <2>1 DEF TypeOK, Rollback, Tables
<1> QED BY <1>1, <1>2, <1>3, <1>4, <1>5, <1>6, <1>7, <1>8 DEF Request

\* The empty tables are well typed.
LEMMA TypeInit == Init => TypeOK
<1> SUFFICES ASSUME Init PROVE TypeOK
  OBVIOUS
<1>1. data \in [Res -> Data] /\ NewData \in Data
  BY ConstantsAssumption DEF Init
<1>2. <<>> \in Seq(Frame)
  BY SmallSeqs
<1> QED BY <1>1, <1>2 DEF Init, TypeOK, Now, Tables

\* Every step keeps the types.
LEMMA TypeStep == TypeOK /\ [Next]_vars => TypeOK'
<1> SUFFICES ASSUME TypeOK, [Next]_vars PROVE TypeOK'
  OBVIOUS
<1>1. CASE Engine
  BY <1>1, TypeLoops, TypeCreate, TypeExecute, TypeAction, TypeSplit DEF Engine
<1>2. CASE Request \/ Commit \/ Rollback
  BY <1>2, TypeRequest
<1>3. CASE UNCHANGED vars
  BY <1>3 DEF TypeOK, vars
<1> QED BY <1>1, <1>2, <1>3 DEF Next

\* In every reachable state of every instance of the constants, the tables
\* hold rows of their types and the Python stack holds frames of the engine.
THEOREM TypeCorrect == Spec => []TypeOK
BY TypeInit, TypeStep, PTL DEF Spec

-----------------------------------------------------------------------------
(* No item is left half done.  While a request runs, an item may be         *)
(* unsettled only if the stack holds the process frame that will settle it, *)
(* and an item whose action has begun is not active: these two facts are    *)
(* inductive, and with an empty stack the first is NoHalfDoneItem.          *)

Handles(f, k) ==
    f.op = "process" /\ f.pc \in {"send", "execute", "action"} /\ f.item.id = k
Acting(f) == f.op = "process" /\ f.pc = "action"

Covered(w) == Settled(w, insts) \/ \E f \in Frames : Handles(f, w.id)
Begun(f) == Acting(f) => \A w \in items : w.id = f.item.id => w.state # "active"

\* The step replaces the frame f by the frames of new, on top of the others.
Replaces(f, new, rest) == Frames = {f} \cup rest /\ Frames' = new \cup rest

HalfInv ==
    /\ TypeOK
    /\ \A w \in items : Covered(w)
    /\ \A f \in Frames : Begun(f)
    /\ \A w \in saved.items : Settled(w, saved.insts)

\* An item at rest stays so when instances are added.
LEMMA SettledMore ==
    ASSUME NEW w, NEW rows, NEW more, rows \subseteq more, Settled(w, rows)
    PROVE  Settled(w, more)
BY DEF Settled

\* A step that changes no item: what the top frame handled a new one handles.
LEMMA Quiet ==
    ASSUME HalfInv, TypeOK', items' = items, saved' = saved, insts \subseteq insts',
           NEW f, NEW new, NEW rest, Replaces(f, new, rest),
           \A k : Handles(f, k) => \E g \in new : Handles(g, k),
           \A g \in new : Acting(g) => Acting(f) /\ g.item = f.item
    PROVE  HalfInv'
<1>1. ASSUME NEW w \in items' PROVE Covered(w)'
  <2>1. Covered(w)
    BY DEF HalfInv
  <2>2. CASE Settled(w, insts)
    BY <2>2, SettledMore DEF Covered
  <2>3. CASE \E g \in Frames : Handles(g, w.id)
    <3>1. PICK g \in Frames : Handles(g, w.id)
      BY <2>3
    <3>2. \E h \in Frames' : Handles(h, w.id)
      BY <3>1 DEF Replaces
    <3> QED BY <3>2 DEF Covered, Handles, Replaces
  <2> QED BY <2>1, <2>2, <2>3 DEF Covered
<1>2. ASSUME NEW g \in Frames' PROVE Begun(g)'
  <2>1. CASE g \in rest
    BY <2>1 DEF HalfInv, Begun, Replaces
  <2>2. CASE g \in new
    BY <2>2 DEF HalfInv, Begun, Replaces
  <2> QED BY <2>1, <2>2 DEF Replaces
<1>3. \A w \in saved'.items : Settled(w, saved'.insts)
  BY DEF HalfInv
<1> QED BY <1>1, <1>2, <1>3 DEF HalfInv

\* A step of process itself: the rows of its item are settled or handled by
\* the frame that replaces it, and none is active any more.
LEMMA Advance ==
    ASSUME HalfInv, TypeOK', saved' = saved, insts \subseteq insts',
           NEW f, NEW new, NEW rest, Replaces(f, new, rest),
           f.op = "process",
           \A w \in items' :
              IF w.id = f.item.id
              THEN /\ w.state # "active"
                   /\ Settled(w, insts') \/ \E g \in new : Handles(g, w.id)
              ELSE w \in items,
           \A g \in new : Acting(g) => g.item.id = f.item.id
    PROVE  HalfInv'
<1>1. ASSUME NEW w \in items' PROVE Covered(w)'
  <2>1. CASE w.id = f.item.id
    <3>1. CASE Settled(w, insts')
      BY <3>1 DEF Covered
    <3>2. CASE \E g \in new : Handles(g, w.id)
      BY <3>2 DEF Covered, Handles, Replaces
    <3> QED BY <2>1, <3>1, <3>2
  <2>2. CASE w.id # f.item.id
    <3>1. w \in items /\ Covered(w)
      BY <2>2 DEF HalfInv
    <3>2. CASE Settled(w, insts)
      BY <3>2, SettledMore DEF Covered
    <3>3. CASE \E g \in Frames : Handles(g, w.id)
      <4>1. PICK g \in Frames : Handles(g, w.id)
        BY <3>3
      <4>2. g \in rest
        BY <2>2, <4>1 DEF Handles, Replaces
      <4> QED BY <4>1, <4>2 DEF Covered, Handles, Replaces
    <3> QED BY <3>1, <3>2, <3>3 DEF Covered
  <2> QED BY <2>1, <2>2
<1>2. ASSUME NEW g \in Frames', Acting(g), NEW w \in items', w.id = g.item.id
      PROVE  w.state # "active"
  <2>1. CASE w.id = f.item.id
    BY <2>1
  <2>2. CASE w.id # f.item.id
    <3>1. w \in items /\ g \in rest
      BY <1>2, <2>2 DEF Replaces
    <3> QED BY <1>2, <3>1 DEF HalfInv, Begun, Replaces
  <2> QED BY <2>1, <2>2
<1>3. \A w \in saved'.items : Settled(w, saved'.insts)
  BY DEF HalfInv
<1> QED BY <1>1, <1>2, <1>3 DEF HalfInv, Begun, Acting

\* The same when neither the old frames nor the new ones are in process.
LEMMA Aside ==
    ASSUME HalfInv, TypeOK', items' = items, saved' = saved, insts \subseteq insts',
           NEW f, NEW new, NEW rest, Replaces(f, new, rest),
           \A k : ~ Handles(f, k), \A g \in new : ~ Acting(g)
    PROVE  HalfInv'
BY Quiet

\* The loops of instance.py leave no item uncovered; an instance that ends
\* settles the items that wait for it.
LEMMA HalfLoops ==
    ASSUME HalfInv, TypeOK',
           LoopNext \/ LoopEnd \/ ScanNext \/ UpdateEndOpen \/ UpdateEndDone
    PROVE  HalfInv'
<1> DEFINE f == Head(stack)
           rest == Elems(Tail(stack))
<1>0. TypeOK /\ stack # <<>> /\ f \in Frame
      /\ \A k : ~ Handles(f, k)
  BY TopFrame DEF HalfInv, LoopNext, LoopEnd, ScanNext, UpdateEndOpen, UpdateEndDone, At,
     Handles
<1>1. CASE LoopNext
  <2>1. f \in LoopFrame
    BY <1>0, <1>1, FrameOp DEF LoopNext, At
  <2>2. PICK c \in f.todo :
           Become(<<Scan(c), [f EXCEPT !.todo = @ \ {c}, !.last = c.inst]>>)
    BY <1>1 DEF LoopNext
  <2> DEFINE g == [f EXCEPT !.todo = @ \ {c}, !.last = c.inst]
  <2>3. c \in Target
    BY <2>1 DEF LoopFrame
  <2>4. g \in LoopFrame /\ g.op = "loop"
    BY <2>1, <2>3 DEF LoopFrame, Target
  <2>5. Scan(c) \in Frame /\ Scan(c).op = "scan"
    BY <1>0, <2>3, ScanType DEF Frame, Scan
  <2> HIDE DEF g
  <2>6. Replaces(f, {Scan(c), g}, rest)
    BY <1>0, <2>2, <2>4, <2>5, Push2 DEF Frame, g, Replaces
  <2>7. \A x \in {Scan(c), g} : ~ Acting(x)
    BY <2>4, <2>5 DEF Acting
  <2>8. items' = items /\ saved' = saved /\ insts \subseteq insts'
    BY <1>1 DEF LoopNext, tables
  <2> QED BY <1>0, <2>6, <2>7, <2>8, Aside
<1>2. CASE LoopEnd
  <2>1. Replaces(f, {}, rest)
    BY <1>0, <1>2, Push0 DEF LoopEnd, Replaces
  <2>2. items' = items /\ saved' = saved /\ insts \subseteq insts'
    BY <1>2 DEF LoopEnd, tables
  <2>3. \A x \in {} : ~ Acting(x)
    OBVIOUS
  <2> QED BY <1>0, <2>1, <2>2, <2>3, Aside
<1>3. CASE ScanNext
  <2>1. f \in ScanFrame
    BY <1>0, <1>3, FrameOp DEF ScanNext, At
  <2>2. PICK w \in f.todo : Become(<<Process(w, f.call), [f EXCEPT !.todo = @ \ {w}]>>)
    BY <1>3 DEF ScanNext
  <2> DEFINE g == [f EXCEPT !.todo = @ \ {w}]
  <2>3. w \in Item /\ f.call \in Target
    BY <2>1 DEF ScanFrame
  <2>4. g \in ScanFrame /\ g.op = "scan"
    BY <2>1 DEF ScanFrame
  <2>5. Process(w, f.call) \in Frame /\ ~ Acting(Process(w, f.call))
    BY <2>3, ProcessType DEF Frame, Acting
  <2> HIDE DEF g
  <2>6. Replaces(f, {Process(w, f.call), g}, rest)
    BY <1>0, <2>2, <2>4, <2>5, Push2 DEF Frame, g, Replaces
  <2>7. \A x \in {Process(w, f.call), g} : ~ Acting(x)
    BY <2>4, <2>5 DEF Acting
  <2>8. items' = items /\ saved' = saved /\ insts \subseteq insts'
    BY <1>3 DEF ScanNext, tables
  <2> QED BY <1>0, <2>6, <2>7, <2>8, Aside
<1>4. CASE UpdateEndOpen
  <2>1. Replaces(f, {}, rest)
    BY <1>0, <1>4, Push0 DEF UpdateEndOpen, Replaces
  <2>2. items' = items /\ saved' = saved /\ insts \subseteq insts'
    BY <1>4 DEF UpdateEndOpen, tables
  <2>3. \A x \in {} : ~ Acting(x)
    OBVIOUS
  <2> QED BY <1>0, <2>1, <2>2, <2>3, Aside
<1>5. CASE UpdateEndDone
  <2> DEFINE i == f.call.inst
  <2>1. PICK todo : Become(<<Loop(todo)>>) /\ stack' = <<Loop(todo)>> \o Tail(stack)
    BY <1>5 DEF UpdateEndDone, Become
  <2>2. /\ items' = {IF w.sub = i THEN [w EXCEPT !.state = "complete"] ELSE w : w \in items}
        /\ insts' = {IF n.id = i THEN [n EXCEPT !.state = "complete"] ELSE n : n \in insts}
        /\ saved' = saved
    BY <1>5 DEF UpdateEndDone, WaitersComplete
  <2>3. \A w \in items : w.id \in ItemId /\ w.state \in {"active", "running", "complete"}
        /\ [w EXCEPT !.state = "complete"].id = w.id
        /\ [w EXCEPT !.state = "complete"].state = "complete"
    BY <1>0 DEF TypeOK, Item
  <2>4. ASSUME NEW w \in items, w.sub # i, Settled(w, insts)
        PROVE  Settled(w, insts')
    <3>1. CASE w.state = "complete"
      BY <3>1 DEF Settled
    <3>2. CASE w.state = "running"
      <4>1. PICK n \in insts : n.id = w.sub /\ n.state = "active"
        BY <2>4, <3>2 DEF Settled
      <4>2. n \in insts'
        BY <2>2, <2>4, <4>1
      <4> QED BY <3>2, <4>1, <4>2 DEF Settled
    <3> QED BY <2>4, <3>1, <3>2 DEF Settled
  <2>5. Frames' = {Loop(todo)} \cup rest /\ Frames = {f} \cup rest
    <3>1. stack \in Seq(Frame) /\ stack' \in Seq(Frame)
      BY <1>0 DEF TypeOK
    <3>2. Tail(stack) \in Seq(Frame) /\ Elems(stack) = {f} \cup rest
      BY <1>0, <3>1, HeadTail
    <3>3. stack' # <<>> /\ Head(stack') = Loop(todo) /\ Tail(stack') = Tail(stack)
      BY <2>1, <3>2
    <3>4. Elems(stack') = {Loop(todo)} \cup rest
      BY <3>1, <3>3, HeadTail
    <3> QED BY <3>2, <3>4 DEF Frames, Elems
  <2>6. ~ Acting(Loop(todo))
    BY DEF Loop, Acting
  <2>7. ASSUME NEW v \in items' PROVE Covered(v)'
    <3>1. PICK w \in items : v = IF w.sub = i THEN [w EXCEPT !.state = "complete"] ELSE w
      BY <2>2
    <3>2. CASE w.sub = i
      BY <2>3, <3>1, <3>2 DEF Covered, Settled
    <3>3. CASE w.sub # i /\ Settled(w, insts)
      BY <2>4, <3>1, <3>3 DEF Covered
    <3>4. CASE w.sub # i /\ \E g \in Frames : Handles(g, w.id)
      BY <1>0, <2>5, <3>1, <3>4 DEF Covered, Handles
    <3> QED BY <3>2, <3>3, <3>4 DEF HalfInv, Covered
  <2>8. ASSUME NEW g \in Frames', Acting(g), NEW v \in items', v.id = g.item.id
        PROVE  v.state # "active"
    <3>1. PICK w \in items : v = IF w.sub = i THEN [w EXCEPT !.state = "complete"] ELSE w
      BY <2>2
    <3>2. g \in Frames /\ w.id = g.item.id
      BY <2>3, <2>5, <2>6, <2>8, <3>1
    <3>3. w.state # "active"
      BY <2>8, <3>2 DEF HalfInv, Begun
    <3> QED BY <2>3, <3>1, <3>3
  <2> QED BY <2>2, <2>7, <2>8 DEF HalfInv, Begun, Acting
<1> QED BY <1>1, <1>2, <1>3, <1>4, <1>5

\* A new item is active and covered by the process frame pushed with it.
LEMMA HalfCreate ==
    ASSUME HalfInv, TypeOK', CreateNext \/ CreateEnd \/ StartNext \/ StartEnd
    PROVE  HalfInv'
<1> DEFINE f == Head(stack)
           rest == Elems(Tail(stack))
<1>0. TypeOK /\ stack # <<>> /\ f \in Frame /\ \A k : ~ Handles(f, k)
  BY TopFrame DEF HalfInv, CreateNext, CreateEnd, StartNext, StartEnd, At, Handles
<1>1. CASE CreateNext
  <2> DEFINE k == CHOOSE x \in ItemId \ UsedItems : TRUE
             w(a) == [id |-> k, act |-> a, inst |-> f.call.inst, sub |-> NoInst,
                      state |-> "active"]
  <2>1. f \in CreateFrame
    BY <1>0, <1>1, FrameOp DEF CreateNext, At
  <2>2. k \in ItemId \ UsedItems
    BY <1>1 DEF CreateNext
  <2>3. PICK a \in f.todo :
           /\ items' = items \cup {w(a)}
           /\ Become(<<Process(w(a), f.call), [f EXCEPT !.todo = @ \ {a}]>>)
    BY <1>1 DEF CreateNext
  <2> DEFINE v == w(a)
             p == Process(v, f.call)
             g == [f EXCEPT !.todo = @ \ {a}]
  <2>4. f.call \in Target /\ f.call.inst \in InstId /\ a \in Act
    BY <2>1 DEF CreateFrame, Target
  <2>5. v \in Item /\ v.id = k /\ v.state = "active"
    BY <2>2, <2>4 DEF Item
  <2>6. g \in Frame /\ g.op = "create"
    BY <2>1 DEF CreateFrame, Frame
  <2> HIDE DEF k, w, v, g
  <2>7. p \in ProcessFrame /\ p.item = v /\ p.pc \in {"send", "execute"}
    BY <2>4, <2>5, ProcessType
  <2>8. p \in Frame /\ p.op = "process"
    BY <2>7 DEF Frame, ProcessFrame
  <2> HIDE DEF p
  <2>9. Replaces(f, {p, g}, rest)
    BY <1>0, <2>3, <2>6, <2>8, Push2 DEF Replaces, p, v, g
  <2>10. Handles(p, k) /\ ~ Acting(p) /\ ~ Acting(g)
    BY <2>5, <2>6, <2>7, <2>8 DEF Handles, Acting
  <2>11. items' = items \cup {v} /\ insts' = insts /\ saved' = saved
    BY <1>1, <2>3 DEF CreateNext, v
  <2>12. ASSUME NEW x \in items' PROVE Covered(x)'
    <3>1. CASE x = v
      BY <2>5, <2>9, <2>10, <3>1 DEF Covered, Replaces, Handles
    <3>2. CASE x # v
      <4>1. x \in items /\ Covered(x)
        BY <2>11, <3>2 DEF HalfInv
      <4>2. Covered(x)'
        BY <1>0, <2>9, <2>11, <4>1 DEF Covered, Replaces, Handles
      <4> QED BY <4>2
    <3> QED BY <3>1, <3>2
  <2>13. ASSUME NEW h \in Frames', Acting(h), NEW x \in items', x.id = h.item.id
         PROVE  x.state # "active"
    <3>1. h \in Frames
      BY <2>9, <2>10, <2>13 DEF Replaces
    <3>2. h.item.id \in UsedItems
      BY <2>13, <3>1 DEF UsedItems, Acting
    <3>3. x # v
      BY <2>2, <2>5, <2>13, <3>2
    <3>4. x \in items
      BY <2>11, <3>3
    <3> QED BY <2>13, <3>1, <3>4 DEF HalfInv, Begun
  <2>14. \A x \in saved'.items : Settled(x, saved'.insts)
    BY <2>11 DEF HalfInv
  <2> QED BY <2>12, <2>13, <2>14 DEF HalfInv, Begun, Acting
<1>2. CASE CreateEnd \/ StartEnd
  <2>1. Replaces(f, {}, rest)
    BY <1>0, <1>2, Push0 DEF CreateEnd, StartEnd, Replaces
  <2>2. items' = items /\ saved' = saved /\ insts \subseteq insts'
    BY <1>2 DEF CreateEnd, StartEnd, tables
  <2>3. \A x \in {} : ~ Acting(x)
    OBVIOUS
  <2> QED BY <1>0, <2>1, <2>2, <2>3, Aside
<1>3. CASE StartNext
  <2> DEFINE i == CHOOSE x \in InstId \ UsedInsts : TRUE
  <2>1. f \in StartFrame
    BY <1>0, <1>3, FrameOp DEF StartNext, At
  <2>2. i \in InstId
    BY <1>3 DEF StartNext
  <2> HIDE DEF i
  <2>3. PICK w \in f.todo :
           Become(CreateInst(i, w, f.res) \o <<[f EXCEPT !.todo = @ \ {w}]>>)
    BY <1>3 DEF StartNext, i
  <2> DEFINE g == [f EXCEPT !.todo = @ \ {w}]
             s == CreateInst(i, w, f.res) \o <<g>>
  <2>4. f.res \in Res /\ w \in Wkf /\ g \in Frame /\ g.op = "start"
    BY <2>1 DEF StartFrame, Frame
  <2> HIDE DEF g
  <2>5. /\ s \in Seq(Frame)
        /\ \A x \in Elems(s) : x = g \/ x \in CreateFrame \/ x \in LoopFrame
    BY <2>2, <2>4, CreateInstType
  <2>6. \A x \in Elems(s) : ~ Acting(x)
    BY <2>4, <2>5 DEF CreateFrame, LoopFrame, Acting
  <2>7. Become(s)
    BY <2>3 DEF g
  <2> HIDE DEF s
  <2>8. Replaces(f, Elems(s), rest)
    BY <1>0, <2>5, <2>7, BecomeType DEF Replaces
  <2>9. items' = items /\ saved' = saved /\ insts \subseteq insts'
    BY <1>3 DEF StartNext
  <2> QED BY <1>0, <2>6, <2>8, <2>9, Aside
<1> QED BY <1>1, <1>2, <1>3

\* An item that is executed stays with its frame until the action returns.
LEMMA HalfExecute ==
    ASSUME HalfInv, TypeOK',
           SendSignal \/ ExecuteDummy \/ ExecuteFunction \/ ExecuteStopAll
           \/ ExecuteSubflow \/ ExecuteSubflowNew
    PROVE  HalfInv'
<1> DEFINE f == Head(stack)
           k == f.item.id
           rest == Elems(Tail(stack))
<1>0. TypeOK /\ stack # <<>> /\ f \in ProcessFrame /\ f \in Frame /\ f.op = "process"
  <2>1. TypeOK /\ stack # <<>> /\ f.op = "process"
    BY DEF HalfInv, SendSignal, ExecuteDummy, ExecuteFunction, ExecuteStopAll,
       ExecuteSubflow, ExecuteSubflowNew, AtPc, At
  <2> QED BY <2>1, TopFrame, FrameOp
<1>a. f.item \in Item /\ f.item.act \in Act /\ f.call \in Target
  BY <1>0 DEF ProcessFrame, Item
<1>b. items \subseteq Item /\ insts \subseteq Inst
  BY <1>0 DEF TypeOK
<1>c. ASSUME NEW s \in {"running", "complete"}, SetState(k, s)
      PROVE  \A w \in items' : IF w.id = k THEN w.state = s ELSE w \in items
  BY <1>b, <1>c DEF SetState, Item
<1>d. ASSUME NEW g \in ProcessFrame, Acting(g), g.item.id = k,
             Replaces(f, {g}, rest), saved' = saved, insts \subseteq insts',
             \A w \in items' : IF w.id = k THEN w.state = "running" ELSE w \in items
      PROVE  HalfInv'
  <2>1. Handles(g, k)
    BY <1>d DEF Handles, Acting
  <2>2. \A w \in items' :
           IF w.id = f.item.id
           THEN /\ w.state # "active"
                /\ Settled(w, insts') \/ \E h \in {g} : Handles(h, w.id)
           ELSE w \in items
    BY <1>d, <2>1
  <2>3. \A h \in {g} : Acting(h) => h.item.id = f.item.id
    BY <1>d
  <2> QED BY <1>0, <1>d, <2>2, <2>3, Advance
<1>e. ASSUME NEW calls \in Action[f.item.act], Become(<<Running(f, calls)>>)
      PROVE  \E g \in ProcessFrame : Acting(g) /\ g.item.id = k /\ Replaces(f, {g}, rest)
  <2> DEFINE g == Running(f, calls)
  <2>1. calls \in Seq(Call)
    BY <1>a, ActionCalls
  <2>2. g \in ProcessFrame /\ g.pc = "action" /\ g.item.id = k
    BY <1>0, <2>1, RunningType
  <2>3. g \in Frame /\ Acting(g)
    BY <2>2 DEF Frame, Acting, ProcessFrame
  <2> HIDE DEF g
  <2>4. Replaces(f, {g}, rest)
    BY <1>0, <1>e, <2>3, Push1 DEF Replaces, g
  <2> QED BY <2>2, <2>3, <2>4
<1>1. CASE SendSignal
  <2> DEFINE g == [f EXCEPT !.pc = "execute"]
  <2>2. g \in ProcessFrame /\ g.op = "process" /\ g.pc = "execute" /\ g.item = f.item
    BY <1>0 DEF ProcessFrame
  <2> DEFINE l == Loop({CallOn(n.id, n.res, SignalSend[f.item.act], TRUE) :
                        n \in Waiting(f.item.inst)})
  <2>1. Become(<<l, g>>)
    BY <1>1 DEF SendSignal
  <2>3. l \in LoopFrame
    BY <1>0, SendType
  <2> HIDE DEF g, l
  <2>4. Replaces(f, {l, g}, rest)
    BY <1>0, <2>1, <2>2, <2>3, Push2 DEF Replaces, Frame
  <2>5. \A x : Handles(f, x) => \E h \in {l, g} : Handles(h, x)
    BY <2>2 DEF Handles
  <2>6. \A h \in {l, g} : ~ Acting(h)
    BY <2>2, <2>3 DEF Acting, LoopFrame
  <2>7. items' = items /\ saved' = saved /\ insts \subseteq insts'
    BY <1>1 DEF SendSignal, tables
  <2> QED BY <2>4, <2>5, <2>6, <2>7, Quiet
<1>2. CASE ExecuteDummy
  <2> DEFINE g == [f EXCEPT !.pc = "split", !.item.state = "complete"]
  <2>1. g \in ProcessFrame /\ g.pc = "split"
    BY <1>0 DEF ProcessFrame, Item
  <2>2. g \in Frame /\ ~ Acting(g)
    BY <2>1 DEF Frame, Acting
  <2> HIDE DEF g
  <2>3. Replaces(f, {g}, rest)
    BY <1>0, <1>2, <2>2, Push1 DEF ExecuteDummy, Replaces, g
  <2>4. SetState(k, "complete") /\ saved' = saved /\ insts \subseteq insts'
    BY <1>2 DEF ExecuteDummy
  <2>5. \A w \in items' :
           IF w.id = f.item.id
           THEN /\ w.state # "active"
                /\ Settled(w, insts') \/ \E h \in {g} : Handles(h, w.id)
           ELSE w \in items
    BY <1>c, <2>4 DEF Settled
  <2>6. \A h \in {g} : Acting(h) => h.item.id = f.item.id
    BY <2>2
  <2> QED BY <1>0, <2>3, <2>4, <2>5, <2>6, Advance
<1>3. CASE ExecuteFunction \/ ExecuteSubflow
  <2>1. PICK calls \in Action[f.item.act] : Become(<<Running(f, calls)>>)
    BY <1>3 DEF ExecuteFunction, ExecuteSubflow
  <2>2. SetState(k, "running") /\ saved' = saved /\ insts \subseteq insts'
    BY <1>3 DEF ExecuteFunction, ExecuteSubflow, BeginAction
  <2> QED BY <1>c, <1>d, <1>e, <2>1, <2>2
<1>4. CASE ExecuteStopAll
  <2>1. PICK calls \in Action[f.item.act] : Become(<<Running(f, calls)>>)
    BY <1>4 DEF ExecuteStopAll
  <2>2. saved' = saved /\ insts \subseteq insts'
    BY <1>4 DEF ExecuteStopAll
  <2>3. \A w \in items' : IF w.id = k THEN w.state = "running" ELSE w \in items
    BY <1>4, <1>b DEF ExecuteStopAll, Item
  <2> QED BY <1>d, <1>e, <2>1, <2>2, <2>3
<1>5. CASE ExecuteSubflowNew
  <2> DEFINE i == CHOOSE x \in InstId \ UsedInsts : TRUE
             w == SubWkf[f.item.act]
             g == [Running(f, <<>>) EXCEPT !.child = i]
             s == CreateInst(i, w, f.call.res) \o <<g>>
  <2>1. i \in InstId
    BY <1>5 DEF ExecuteSubflowNew
  <2>2. SetState(k, "running") /\ Become(s) /\ saved' = saved /\ insts \subseteq insts'
    BY <1>5 DEF ExecuteSubflowNew
  <2>3. w \in Wkf /\ f.call.res \in Res
    BY <1>a, ConstantsAssumption DEF Target
  <2> HIDE DEF i, w
  <2>4. <<>> \in Seq(Call)
    OBVIOUS
  <2>5. /\ Running(f, <<>>) \in ProcessFrame /\ Running(f, <<>>).pc = "action"
        /\ Running(f, <<>>).item.id = k
    BY <1>0, <2>4, RunningType
  <2>6. g \in ProcessFrame /\ g.op = "process" /\ g.pc = "action" /\ g.item.id = k
    BY <2>1, <2>5 DEF ProcessFrame
  <2>7. g \in Frame
    BY <2>6 DEF Frame
  <2> HIDE DEF g
  <2>8. /\ s \in Seq(Frame) /\ g \in Elems(s)
        /\ \A x \in Elems(s) : x = g \/ x \in CreateFrame \/ x \in LoopFrame
    BY <2>1, <2>3, <2>7, CreateInstType
  <2> HIDE DEF s
  <2>9. Replaces(f, Elems(s), rest)
    BY <1>0, <2>2, <2>8, BecomeType DEF Replaces
  <2>10. \A h \in Elems(s) : Acting(h) => h.item.id = f.item.id
    BY <2>6, <2>8 DEF Acting, CreateFrame, LoopFrame
  <2>11. Handles(g, k)
    BY <2>6 DEF Handles
  <2>12. \A x \in items' :
            IF x.id = f.item.id
            THEN /\ x.state # "active"
                 /\ Settled(x, insts') \/ \E h \in Elems(s) : Handles(h, x.id)
            ELSE x \in items
    BY <1>c, <2>2, <2>8, <2>11
  <2> QED BY <1>0, <2>2, <2>9, <2>10, <2>12, Advance
<1> QED BY <1>1, <1>2, <1>3, <1>4, <1>5

\* The calls of an action touch no item of another frame, and its return
\* settles the item or deletes it.
LEMMA HalfAction ==
    ASSUME HalfInv, TypeOK',
           ActionWrite \/ ActionNew \/ ActionFind \/ ActionSignal \/ ActionTrigger
           \/ ActionEnd \/ ActionNoSubflow \/ ActionLink
    PROVE  HalfInv'
<1> DEFINE f == Head(stack)
           k == f.item.id
           rest == Elems(Tail(stack))
<1>0. TypeOK /\ stack # <<>> /\ f \in ProcessFrame /\ f \in Frame /\ Acting(f)
      /\ f.op = "process"
  <2>1. TypeOK /\ stack # <<>> /\ Acting(f) /\ f.op = "process"
    BY DEF HalfInv, ActionWrite, ActionNew, ActionFind, ActionSignal, ActionTrigger,
       ActionEnd, ActionNoSubflow, ActionLink, NextCall, AtPc, At, Acting
  <2> QED BY <2>1, TopFrame, FrameOp
<1>a. f.item \in Item /\ f.call.res \in Res
  BY <1>0 DEF ProcessFrame, Item, Target
<1>b. /\ items \subseteq Item /\ insts \subseteq Inst
      /\ \A r : ActiveOn(r) \in SUBSET Inst /\ Triggered(r) \in SUBSET Inst
  BY <1>0 DEF TypeOK, ActiveOn, InstsOn, Triggered
<1>c. ASSUME f.calls # <<>>
      PROVE  /\ Called(f) \in ProcessFrame /\ Called(f).item = f.item
             /\ Called(f).pc = "action" /\ Head(f.calls) \in Call
  BY <1>0, <1>c, CalledType DEF Acting
\* A call: the frame g stays in the action, below the frame l of the call.
<1>d. ASSUME NEW new, NEW g \in new, Replaces(f, new, rest),
             g \in ProcessFrame, g.pc = "action", g.item = f.item,
             \A h \in new : h # g => ~ Acting(h),
             items' = items, saved' = saved, insts \subseteq insts'
      PROVE  HalfInv'
  <2>1. g.op = "process"
    BY <1>d DEF ProcessFrame
  <2>2. \A x : Handles(f, x) => Handles(g, x)
    BY <1>d, <2>1 DEF Handles
  <2>3. \A x : Handles(f, x) => \E h \in new : Handles(h, x)
    BY <2>2
  <2>4. \A h \in new : Acting(h) => Acting(f) /\ h.item = f.item
    BY <1>0, <1>d
  <2> QED BY <1>d, <2>3, <2>4, Quiet
<1>e. ASSUME NEW l \in Frame, l.op # "process", NEW g \in ProcessFrame,
             g.pc = "action", g.item = f.item, Become(<<l, g>>),
             items' = items, saved' = saved, insts \subseteq insts'
      PROVE  HalfInv'
  <2>1. Replaces(f, {l, g}, rest)
    BY <1>0, <1>e, Push2 DEF Frame, Replaces
  <2>2. \A h \in {l, g} : h # g => ~ Acting(h)
    BY <1>e DEF Acting
  <2> QED BY <1>d, <1>e, <2>1, <2>2
<1>1. CASE ActionWrite
  <2> DEFINE l == Updates(ActiveOn(f.call.res))
             g == Called(f)
  <2>1. f.calls # <<>> /\ Become(<<l, g>>)
    BY <1>1 DEF ActionWrite, NextCall
  <2>2. l \in Frame /\ l.op # "process"
    BY <1>b, CallsType DEF Frame, LoopFrame
  <2>3. g \in ProcessFrame /\ g.pc = "action" /\ g.item = f.item
    BY <1>c, <2>1
  <2>4. items' = items /\ saved' = saved /\ insts \subseteq insts'
    BY <1>1 DEF ActionWrite
  <2> HIDE DEF l, g
  <2> QED BY <1>e, <2>1, <2>2, <2>3, <2>4
<1>2. CASE ActionNew
  <2>1. PICK r \in ForSubflow(f) : Become(<<Starting(r), [Called(f) EXCEPT !.made = r]>>)
    BY <1>2 DEF ActionNew
  <2> DEFINE l == Starting(r)
             g == [Called(f) EXCEPT !.made = r]
  <2>2. f.calls # <<>> /\ r \in Res
    BY <1>2 DEF ActionNew, NextCall, ForSubflow
  <2>3. l \in Frame /\ l.op # "process"
    BY <2>2, StartingType DEF Frame, StartFrame
  <2>4. g \in ProcessFrame /\ g.pc = "action" /\ g.item = f.item
    BY <1>c, <2>2 DEF ProcessFrame
  <2>5. items' = items /\ saved' = saved /\ insts \subseteq insts'
    BY <1>2 DEF ActionNew
  <2> HIDE DEF l, g
  <2>6. Become(<<l, g>>)
    BY <2>1 DEF l, g
  <2> QED BY <1>e, <2>3, <2>4, <2>5, <2>6
<1>3. CASE ActionFind
  <2>1. PICK r \in ForSubflow(f) : Become(<<[Called(f) EXCEPT !.made = r]>>)
    BY <1>3 DEF ActionFind
  <2> DEFINE g == [Called(f) EXCEPT !.made = r]
  <2>2. f.calls # <<>> /\ r \in Res
    BY <1>3 DEF ActionFind, NextCall, ForSubflow
  <2>3. g \in ProcessFrame /\ g.pc = "action" /\ g.item = f.item
    BY <1>c, <2>2 DEF ProcessFrame
  <2>4. items' = items /\ saved' = saved /\ insts \subseteq insts'
    BY <1>3 DEF ActionFind, tables
  <2> HIDE DEF g
  <2>5. Replaces(f, {g}, rest)
    BY <1>0, <2>1, <2>3, Push1 DEF Frame, Replaces, g
  <2> QED BY <1>d, <2>3, <2>4, <2>5
<1>4. CASE ActionSignal
  <2> DEFINE c == Head(f.calls)
             l == Validates(ActiveOn(IF c.own THEN f.call.res ELSE f.made), c.sig)
             g == Called(f)
  <2>1. f.calls # <<>> /\ c.op = "signal" /\ Become(<<l, g>>)
    BY <1>4 DEF ActionSignal, NextCall
  <2>2. c.sig \in Sig
    BY <1>c, <2>1 DEF Call
  <2>3. l \in Frame /\ l.op # "process"
    BY <1>b, <2>2, CallsType DEF Frame, LoopFrame
  <2>4. g \in ProcessFrame /\ g.pc = "action" /\ g.item = f.item
    BY <1>c, <2>1
  <2>5. items' = items /\ saved' = saved /\ insts \subseteq insts'
    BY <1>4 DEF ActionSignal, tables
  <2> HIDE DEF l, g
  <2> QED BY <1>e, <2>1, <2>3, <2>4, <2>5
<1>5. CASE ActionTrigger
  <2> DEFINE l == Updates(Triggered(Head(f.calls).rec))
             g == Called(f)
  <2>1. f.calls # <<>> /\ Become(<<l, g>>)
    BY <1>5 DEF ActionTrigger, NextCall
  <2>2. l \in Frame /\ l.op # "process"
    BY <1>b, CallsType DEF Frame, LoopFrame
  <2>3. g \in ProcessFrame /\ g.pc = "action" /\ g.item = f.item
    BY <1>c, <2>1
  <2>4. items' = items /\ saved' = saved /\ insts \subseteq insts'
    BY <1>5 DEF ActionTrigger
  <2> HIDE DEF l, g
  <2> QED BY <1>e, <2>1, <2>2, <2>3, <2>4
<1>6. CASE ActionEnd
  <2> DEFINE g == [f EXCEPT !.pc = "split", !.item.state = "complete"]
  <2>1. g \in ProcessFrame /\ g.pc = "split"
    BY <1>0 DEF ProcessFrame, Item
  <2>2. g \in Frame /\ ~ Acting(g)
    BY <2>1 DEF Frame, Acting
  <2> HIDE DEF g
  <2>3. Replaces(f, {g}, rest)
    BY <1>0, <1>6, <2>2, Push1 DEF ActionEnd, Replaces, g
  <2>4. SetState(k, "complete") /\ saved' = saved /\ insts \subseteq insts'
    BY <1>6 DEF ActionEnd
  <2>5. \A w \in items' : IF w.id = k THEN w.state = "complete" ELSE w \in items
    BY <1>b, <2>4 DEF SetState, Item
  <2>6. \A w \in items' :
           IF w.id = f.item.id
           THEN /\ w.state # "active"
                /\ Settled(w, insts') \/ \E h \in {g} : Handles(h, w.id)
           ELSE w \in items
    BY <2>5 DEF Settled
  <2>7. \A h \in {g} : Acting(h) => h.item.id = f.item.id
    BY <2>2
  <2> QED BY <1>0, <2>3, <2>4, <2>6, <2>7, Advance
<1>7. CASE ActionNoSubflow
  <2>1. Replaces(f, {}, rest)
    BY <1>0, <1>7, Push0 DEF ActionNoSubflow, Replaces
  <2>2. saved' = saved /\ insts \subseteq insts'
    BY <1>7 DEF ActionNoSubflow
  <2>3. \A w \in items' :
           IF w.id = f.item.id
           THEN /\ w.state # "active"
                /\ Settled(w, insts') \/ \E h \in {} : Handles(h, w.id)
           ELSE w \in items
    BY <1>7 DEF ActionNoSubflow, DeleteItems
  <2>4. \A h \in {} : Acting(h) => h.item.id = f.item.id
    OBVIOUS
  <2> QED BY <1>0, <2>1, <2>2, <2>3, <2>4, Advance
<1>8. CASE ActionLink
  <2>1. PICK n \in insts :
           /\ items' = {IF w.id # f.item.id THEN w
                         ELSE IF n.state = "complete"
                         THEN [w EXCEPT !.sub = n.id, !.state = "complete"]
                         ELSE [w EXCEPT !.sub = n.id] : w \in items}
           /\ Become(<<[f EXCEPT !.pc = "split", !.item.sub = n.id,
                                  !.item.state = IF n.state = "complete"
                                                 THEN "complete" ELSE @]>>)
    BY <1>8 DEF ActionLink
  <2> DEFINE g == [f EXCEPT !.pc = "split", !.item.sub = n.id,
                            !.item.state = IF n.state = "complete" THEN "complete" ELSE @]
  <2>2. n \in Inst
    BY <1>b
  <2>3. g \in ProcessFrame /\ g.pc = "split"
    BY <1>0, <2>2 DEF ProcessFrame, Item, Inst
  <2>4. g \in Frame /\ ~ Acting(g)
    BY <2>3 DEF Frame, Acting
  <2> HIDE DEF g
  <2>5. Replaces(f, {g}, rest)
    BY <1>0, <2>1, <2>4, Push1 DEF Replaces, g
  <2>6. insts' = insts /\ saved' = saved
    BY <1>8 DEF ActionLink
  <2>7. ASSUME NEW v \in items', v.id = k
        PROVE  v.state # "active" /\ Settled(v, insts)
    <3>1. PICK w \in items :
             v = IF w.id # k THEN w
                 ELSE IF n.state = "complete"
                 THEN [w EXCEPT !.sub = n.id, !.state = "complete"]
                 ELSE [w EXCEPT !.sub = n.id]
      BY <2>1
    <3>2. w \in Item
      BY <1>b
    <3>3. w.id = k
      BY <2>7, <3>1, <3>2 DEF Item
    <3>4. w.state \in {"running", "complete"}
      <4>1. f \in Frames
        BY <2>5 DEF Replaces
      <4> QED BY <1>0, <3>2, <3>3, <4>1 DEF HalfInv, Begun, Item
    <3>5. CASE n.state = "complete"
      <4>1. v.state = "complete"
        BY <3>1, <3>2, <3>3, <3>5 DEF Item
      <4> QED BY <4>1 DEF Settled
    <3>6. CASE n.state = "active"
      <4>1. v.state = w.state /\ v.sub = n.id
        BY <3>1, <3>2, <3>3, <3>6 DEF Item
      <4> QED BY <3>4, <3>6, <4>1 DEF Settled
    <3> QED BY <2>2, <3>5, <3>6 DEF Inst
  <2>8. ASSUME NEW v \in items', v.id # k PROVE v \in items
    <3>1. PICK w \in items :
             v = IF w.id # k THEN w
                 ELSE IF n.state = "complete"
                 THEN [w EXCEPT !.sub = n.id, !.state = "complete"]
                 ELSE [w EXCEPT !.sub = n.id]
      BY <2>1
    <3>2. w \in Item
      BY <1>b
    <3>3. w.id # k
      BY <2>8, <3>1, <3>2 DEF Item
    <3> QED BY <3>1, <3>3
  <2>9. \A w \in items' :
           IF w.id = f.item.id
           THEN /\ w.state # "active"
                /\ Settled(w, insts') \/ \E h \in {g} : Handles(h, w.id)
           ELSE w \in items
    BY <2>6, <2>7, <2>8
  <2>10. \A h \in {g} : Acting(h) => h.item.id = f.item.id
    BY <2>4
  <2> QED BY <1>0, <2>5, <2>6, <2>9, <2>10, Advance
<1> QED BY <1>1, <1>2, <1>3, <1>4, <1>5, <1>6, <1>7, <1>8

\* What JoinNext pushes: a create and perhaps a clear frame, or nothing.
LEMMA JoinNextFrames ==
    ASSUME TypeOK, JoinNext
    PROVE  LET f == Head(stack) IN
           \E new : /\ Replaces(f, new, Elems(Tail(stack)))
                   /\ \A g \in new : g.op \in {"create", "clear", "join"}
<1> DEFINE f == Head(stack)
           i == f.call.inst
           next(t) == Creating([f.call EXCEPT !.sig = NoSig, !.force = FALSE], {To[t]})
           clear(t) == [op |-> "clear", inst |-> i, trans |-> t]
           less(t) == [f EXCEPT !.todo = @ \ {t}]
<1>1. stack # <<>> /\ f \in JoinFrame
  BY TopFrame, FrameOp DEF JoinNext, At
<1>2. PICK t \in f.todo :
         \/ Become(<<next(t), clear(t), less(t)>>)
         \/ Become(<<next(t), less(t)>>)
         \/ Become(<<less(t)>>)
  BY DEF JoinNext
<1>3. t \in Trans /\ f.call \in Target /\ i \in InstId
  BY <1>1 DEF JoinFrame, Target
<1>4. less(t) \in Frame /\ less(t).op = "join"
  BY <1>1 DEF JoinFrame, Frame
<1>5. [f.call EXCEPT !.sig = NoSig, !.force = FALSE] \in Target
  BY <1>3 DEF Target
<1>6. {To[t]} \in SUBSET Act
  BY <1>3, ConstantsAssumption
<1>7. next(t) \in CreateFrame
  BY <1>5, <1>6, CreatingType
<1>8. next(t) \in Frame /\ next(t).op = "create"
  BY <1>7 DEF Frame, CreateFrame
<1>9. clear(t) \in Frame /\ clear(t).op = "clear"
  BY <1>3 DEF ClearFrame, Frame
<1> HIDE DEF next, clear, less
<1>10. CASE Become(<<next(t), clear(t), less(t)>>)
  <2>1. Replaces(f, {next(t), clear(t), less(t)}, Elems(Tail(stack)))
    BY <1>1, <1>4, <1>8, <1>9, <1>10, Push3 DEF Replaces
  <2> QED BY <1>4, <1>8, <1>9, <2>1
<1>11. CASE Become(<<next(t), less(t)>>)
  <2>1. Replaces(f, {next(t), less(t)}, Elems(Tail(stack)))
    BY <1>1, <1>4, <1>8, <1>11, Push2 DEF Replaces
  <2> QED BY <1>4, <1>8, <2>1
<1>12. CASE Become(<<less(t)>>)
  <2>1. Replaces(f, {less(t)}, Elems(Tail(stack)))
    BY <1>1, <1>4, <1>12, Push1 DEF Replaces
  <2> QED BY <1>4, <2>1
<1> QED BY <1>2, <1>10, <1>11, <1>12

\* _split_test and _join_test delete items at rest and push what follows.
LEMMA HalfSplit ==
    ASSUME HalfInv, TypeOK', SplitFire \/ SplitStay \/ JoinNext \/ JoinClear \/ JoinEnd
    PROVE  HalfInv'
<1> DEFINE f == Head(stack)
           rest == Elems(Tail(stack))
<1>0. TypeOK /\ stack # <<>> /\ f \in Frame /\ \A k : ~ Handles(f, k)
  <2>1. TypeOK /\ stack # <<>> /\ \A k : ~ Handles(f, k)
    BY DEF HalfInv, SplitFire, SplitStay, JoinNext, JoinClear, JoinEnd, AtPc, At, Handles
  <2> QED BY <2>1, TopFrame
<1>1. CASE SplitFire
  <2>1. f \in ProcessFrame /\ f.op = "process"
    BY <1>0, <1>1, FrameOp DEF SplitFire, AtPc, At
  <2>2. PICK fired \in Fireable(f) \ {{}} :
           Become(<<[op |-> "join", call |-> [f.call EXCEPT !.inst = f.item.inst],
                     todo |-> fired]>>)
    BY <1>1 DEF SplitFire
  <2> DEFINE g == [op |-> "join", call |-> [f.call EXCEPT !.inst = f.item.inst],
                   todo |-> fired]
  <2>3. g \in Frame /\ ~ Acting(g)
    <3>0. FromAct(f.item.act) \subseteq Trans
      BY DEF FromAct
    <3>1. fired \subseteq Trans
      BY <2>2, <3>0, FireableFrom
    <3>2. [f.call EXCEPT !.inst = f.item.inst] \in Target
      BY <2>1 DEF ProcessFrame, Item, Target
    <3> QED BY <3>1, <3>2 DEF JoinFrame, Frame, Acting
  <2> HIDE DEF g
  <2>4. Replaces(f, {g}, rest)
    BY <1>0, <2>2, <2>3, Push1 DEF Replaces, g
  <2>5. saved' = saved /\ insts \subseteq insts'
    BY <1>1 DEF SplitFire
  <2>6. \A w \in items' :
           IF w.id = f.item.id
           THEN /\ w.state # "active"
                /\ Settled(w, insts') \/ \E h \in {g} : Handles(h, w.id)
           ELSE w \in items
    BY <1>1 DEF SplitFire, DeleteItems
  <2>7. \A h \in {g} : Acting(h) => h.item.id = f.item.id
    BY <2>3
  <2> QED BY <2>1, <2>4, <2>5, <2>6, <2>7, Advance
<1>2. CASE SplitStay \/ JoinClear \/ JoinEnd
  <2>1. Replaces(f, {}, rest)
    BY <1>0, <1>2, Push0 DEF SplitStay, JoinClear, JoinEnd, Replaces
  <2>2. items' = items /\ saved' = saved /\ insts \subseteq insts'
    BY <1>2 DEF SplitStay, JoinClear, JoinEnd, tables
  <2>3. \A x \in {} : ~ Acting(x)
    OBVIOUS
  <2> QED BY <1>0, <2>1, <2>2, <2>3, Aside
<1>3. CASE JoinNext
  <2>1. PICK new : /\ Replaces(f, new, rest)
                   /\ \A g \in new : g.op \in {"create", "clear", "join"}
    BY <1>0, <1>3, JoinNextFrames
  <2>2. \A g \in new : ~ Acting(g)
    BY <2>1 DEF Acting
  <2>3. items' = items /\ saved' = saved /\ insts \subseteq insts'
    BY <1>3 DEF JoinNext
  <2> QED BY <1>0, <2>1, <2>2, <2>3, Aside
<1> QED BY <1>1, <1>2, <1>3

\* Deleting the instances of a record deletes the items that wait for them.
LEMMA HalfDelete ==
    ASSUME HalfInv, NEW r \in Res, TrgDelete(r), NEW w \in items', Settled(w, insts)
    PROVE  Settled(w, insts')
<1>1. /\ insts' = insts \ InstsOn(r)
      /\ \A n \in InstsOn(r) : n.id # w.sub
  BY DEF TrgDelete, DeleteItems
<1> QED BY <1>1 DEF Settled

\* A request begins with every item at rest, a commit saves no other, and a
\* rollback finds the items as they were saved.
LEMMA HalfRequest ==
    ASSUME HalfInv, TypeOK', Request \/ Commit \/ Rollback
    PROVE  HalfInv'
<1>0. TypeOK /\ \A w \in saved.items : Settled(w, saved.insts)
  BY DEF HalfInv
<1>a. ASSUME stack = <<>>
      PROVE  \A w \in items : Settled(w, insts)
  <2>1. Frames = {}
    BY <1>a DEF Frames
  <2> QED BY <2>1 DEF HalfInv, Covered
<1>b. ASSUME stack = <<>>, NEW g \in Frame, stack' = <<g>>, ~ Acting(g),
             items' = items, insts' = insts, saved' = saved
      PROVE  HalfInv'
  <2>1. Frames' = {g}
    BY <1>0, <1>b, One
  <2>2. \A w \in items : Settled(w, insts)
    BY <1>a, <1>b
  <2> QED BY <1>0, <1>b, <2>1, <2>2 DEF HalfInv, Covered, Begun, Settled
<1>c. ASSUME stack' = <<>>, \A w \in items' : Settled(w, insts'),
             \A w \in saved'.items : Settled(w, saved'.insts)
      PROVE  HalfInv'
  <2>1. Frames' = {}
    BY <1>c DEF Frames
  <2> QED BY <1>c, <2>1 DEF HalfInv, Covered
<1>d. \A r : ActiveOn(r) \in SUBSET Inst /\ Triggered(r) \in SUBSET Inst
  BY <1>0 DEF TypeOK, ActiveOn, InstsOn, Triggered
<1>1. CASE \E r \in Res : TrgCreate(r)
  <2>1. PICK r \in Res : TrgCreate(r)
    BY <1>1
  <2> DEFINE g == Starting(r)
  <2>2. g \in Frame /\ ~ Acting(g)
    BY StartingType DEF Frame, StartFrame, Acting
  <2>3. stack = <<>> /\ stack' = <<g>> /\ items' = items /\ insts' = insts /\ saved' = saved
    BY <2>1 DEF TrgCreate, Ready
  <2> HIDE DEF g
  <2> QED BY <1>b, <2>2, <2>3
<1>2. CASE \E r \in Res : \E d \in UserWrite[r] : TrgWrite(r, d)
  <2>0. PICK r \in Res : \E d \in UserWrite[r] : TrgWrite(r, d)
    BY <1>2
  <2>1. PICK d \in UserWrite[r] : TrgWrite(r, d)
    BY <2>0
  <2> DEFINE g == Updates(ActiveOn(r))
  <2>2. g \in Frame /\ ~ Acting(g)
    BY <1>d, CallsType DEF Frame, LoopFrame, Acting
  <2>3. stack = <<>> /\ stack' = <<g>> /\ items' = items /\ insts' = insts /\ saved' = saved
    BY <2>1 DEF TrgWrite, Ready
  <2> HIDE DEF g
  <2> QED BY <1>b, <2>2, <2>3
<1>3. CASE \E r \in Res, s \in Sig : TrgValidate(r, s)
  <2>1. PICK r \in Res, s \in Sig : TrgValidate(r, s)
    BY <1>3
  <2> DEFINE g == Validates(ActiveOn(r), s)
  <2>2. g \in Frame /\ ~ Acting(g)
    BY <1>d, CallsType DEF Frame, LoopFrame, Acting
  <2>3. stack = <<>> /\ stack' = <<g>> /\ items' = items /\ insts' = insts /\ saved' = saved
    BY <2>1 DEF TrgValidate, Ready, tables
  <2> HIDE DEF g
  <2> QED BY <1>b, <2>2, <2>3
<1>4. CASE \E r \in Res : \E d \in WatchData[r] : TrgTrigger(r, d)
  <2>0. PICK r \in Res : \E d \in WatchData[r] : TrgTrigger(r, d)
    BY <1>4
  <2>1. PICK d \in WatchData[r] : TrgTrigger(r, d)
    BY <2>0
  <2> DEFINE g == Updates(Triggered(r))
  <2>2. g \in Frame /\ ~ Acting(g)
    BY <1>d, CallsType DEF Frame, LoopFrame, Acting
  <2>3. stack = <<>> /\ stack' = <<g>> /\ items' = items /\ insts' = insts /\ saved' = saved
    BY <2>1 DEF TrgTrigger, Ready
  <2> HIDE DEF g
  <2> QED BY <1>b, <2>2, <2>3
<1>5. CASE \E r \in Deletable : TrgDelete(r)
  <2>1. PICK r \in Deletable : TrgDelete(r)
    BY <1>5
  <2>2. r \in Res
    BY ConstantsAssumption
  <2>3. stack = <<>> /\ stack' = <<>> /\ saved' = saved /\ items' \subseteq items
    BY <2>1 DEF TrgDelete, Ready, DeleteItems
  <2>4. \A w \in items' : Settled(w, insts')
    BY <1>a, <2>1, <2>2, <2>3, HalfDelete
  <2> QED BY <1>0, <1>c, <2>3, <2>4
<1>6. CASE \E r, new \in Res : TrgRedirect(r, new)
  <2>1. PICK r \in Res, new \in Res : TrgRedirect(r, new)
    BY <1>6
  <2>2. stack = <<>> /\ stack' = <<>> /\ saved' = saved /\ insts' = insts
    BY <2>1 DEF TrgRedirect, Ready
  <2> DEFINE heir(w) == CHOOSE n \in Successors(r, new, w.sub) : TRUE
  <2>3. ASSUME NEW v \in items' PROVE Settled(v, insts)
    <3>1. PICK w \in items :
             v = IF Successors(r, new, w.sub) = {} THEN w ELSE [w EXCEPT !.sub = heir(w).id]
      BY <2>1 DEF TrgRedirect
    <3>2. Settled(w, insts) /\ w \in Item
      BY <1>0, <1>a, <2>2 DEF TypeOK
    <3>3. CASE Successors(r, new, w.sub) = {}
      BY <3>1, <3>2, <3>3
    <3>4. CASE Successors(r, new, w.sub) # {}
      <4>1. heir(w) \in Successors(r, new, w.sub)
        BY <3>4
      <4>2. heir(w) \in insts /\ heir(w).state = "active"
        BY <4>1 DEF Successors, ActiveOn, InstsOn
      <4> HIDE DEF heir
      <4>3. v.state = w.state /\ v.sub = heir(w).id
        BY <3>1, <3>2, <3>4 DEF Item
      <4> QED BY <3>2, <4>2, <4>3 DEF Settled
    <3> QED BY <3>3, <3>4
  <2> QED BY <1>0, <1>c, <2>2, <2>3
<1>7. CASE Commit
  <2>1. stack' = <<>> /\ items' = items /\ insts' = insts
        /\ saved'.items = items /\ saved'.insts = insts /\ stack = <<>>
    BY <1>7 DEF Commit, Now, tables
  <2> QED BY <1>a, <1>c, <2>1
<1>8. CASE Rollback
  <2>1. stack' = <<>> /\ items' = saved.items /\ insts' = saved.insts /\ saved' = saved
    BY <1>8 DEF Rollback
  <2> QED BY <1>0, <1>c, <2>1
<1> QED BY <1>1, <1>2, <1>3, <1>4, <1>5, <1>6, <1>7, <1>8 DEF Request

\* With no items nothing is half done.
LEMMA HalfInit == Init => HalfInv
<1> SUFFICES ASSUME Init PROVE HalfInv
  OBVIOUS
<1>1. Frames = {} /\ items = {} /\ saved.items = {}
  BY DEF Init, Frames, Now
<1> QED BY <1>1, TypeInit DEF HalfInv

\* Every step keeps the invariant.
LEMMA HalfStep == HalfInv /\ [Next]_vars => HalfInv'
<1> SUFFICES ASSUME HalfInv, [Next]_vars PROVE HalfInv'
  OBVIOUS
<1>1. TypeOK'
  BY TypeStep DEF HalfInv
<1>2. CASE Engine
  BY <1>1, <1>2, HalfLoops, HalfCreate, HalfExecute, HalfAction, HalfSplit DEF Engine
<1>3. CASE Request \/ Commit \/ Rollback
  BY <1>1, <1>3, HalfRequest
<1>4. CASE UNCHANGED vars
  BY <1>4 DEF HalfInv, TypeOK, Covered, Begun, Acting, Handles, Settled, Frames, vars
<1> QED BY <1>2, <1>3, <1>4 DEF Next

\* With no frame on the stack every item is at rest.
LEMMA HalfImplies == HalfInv => NoHalfDoneItem
<1> SUFFICES ASSUME HalfInv PROVE NoHalfDoneItem
  OBVIOUS
<1>1. stack = <<>> => Frames = {}
  BY DEF Frames
<1> QED BY <1>1 DEF HalfInv, Covered, NoHalfDoneItem

\* Whatever the workflows, the actions and the order of the rows a query
\* returns, a request that ends leaves no item half executed and none waiting
\* for a subflow that is complete; neither does a commit or a rollback.
THEOREM NoHalfDoneItemHolds == Spec => []NoHalfDoneItem
BY HalfInit, HalfStep, HalfImplies, PTL DEF Spec

-----------------------------------------------------------------------------
(* No join is stranded.  Each recorded transition waits for another input   *)
(* of its AND join, or a frame on the stack is about to join or clear it.   *)

WaitsIn(p, rows) ==
    JoinMode[To[p[1]]] = "AND" /\ \E t \in IntoAct(To[p[1]]) : <<t, p[2]>> \notin rows

Joins(f, p) ==
    \/ /\ f.op = "join" /\ f.call.inst = p[2]
       /\ IF JoinMode[To[p[1]]] = "AND" THEN \E t \in f.todo : To[t] = To[p[1]]
                                        ELSE p[1] \in f.todo
    \/ f.op = "clear" /\ f.inst = p[2] /\ f.trans = p[1]

Joined(p) == WaitsIn(p, passed) \/ \E f \in Frames : Joins(f, p)

JoinInv ==
    /\ TypeOK
    /\ \A p \in passed : Joined(p)
    /\ \A p \in saved.passed : WaitsIn(p, saved.passed)

\* The frames below the top one stay through every step of the engine.
LEMMA Under ==
    ASSUME TypeOK, stack # <<>>, NEW S, NEW s \in Seq(S), Become(s)
    PROVE  Elems(Tail(stack)) \subseteq Frames'
<1> DEFINE T == S \cup Frame
<1>1. stack \in Seq(Frame)
  BY DEF TypeOK
<1>2. Tail(stack) \in Seq(Frame)
  BY <1>1, HeadTail
<1>3. s \in Seq(T)
  OBVIOUS
<1>4. Tail(stack) \in Seq(T)
  BY <1>2
<1> HIDE DEF T
<1>5. Elems(s \o Tail(stack)) = Elems(s) \cup Elems(Tail(stack))
  BY <1>3, <1>4, Concat
<1> QED BY <1>5 DEF Become, Elems, Frames

\* The same for the sequences the handlers push.
LEMMA UnderTuples ==
    ASSUME TypeOK, stack # <<>>
    PROVE  /\ Become(<<>>) => Elems(Tail(stack)) \subseteq Frames'
           /\ \A a : Become(<<a>>) => Elems(Tail(stack)) \subseteq Frames'
           /\ \A a, b : Become(<<a, b>>) => Elems(Tail(stack)) \subseteq Frames'
           /\ \A i, w, r, f : Become(CreateInst(i, w, r) \o <<f>>)
                            => Elems(Tail(stack)) \subseteq Frames'
<1>1. ASSUME Become(<<>>) PROVE Elems(Tail(stack)) \subseteq Frames'
  <2> DEFINE s == <<>>
  <2>1. s \in Seq({}) /\ Become(s)
    BY <1>1
  <2> HIDE DEF s
  <2> QED BY <2>1, Under
<1>2. ASSUME NEW a, Become(<<a>>) PROVE Elems(Tail(stack)) \subseteq Frames'
  <2>1. <<a>> \in Seq({a})
    OBVIOUS
  <2> QED BY <1>2, <2>1, Under
<1>3. ASSUME NEW a, NEW b, Become(<<a, b>>) PROVE Elems(Tail(stack)) \subseteq Frames'
  <2>1. <<a, b>> \in Seq({a, b})
    OBVIOUS
  <2> QED BY <1>3, <2>1, Under
<1>4. ASSUME NEW i, NEW w, NEW r, NEW f, Become(CreateInst(i, w, r) \o <<f>>)
      PROVE  Elems(Tail(stack)) \subseteq Frames'
  <2> DEFINE a == Creating(CallOn(i, r, NoSig, FALSE), StartActs(w))
             b == Loop({CallOn(i, r, NoSig, FALSE)})
             s == CreateInst(i, w, r)
             S == {a, b, f}
  <2>1. s = <<a, b>>
    BY DEF CreateInst
  <2> HIDE DEF a, b, s
  <2>2. s \in Seq(S)
    BY <2>1
  <2>3. <<f>> \in Seq(S)
    OBVIOUS
  <2> HIDE DEF S
  <2>4. s \o <<f>> \in Seq(S)
    BY <2>2, <2>3, Concat
  <2>5. Become(s \o <<f>>)
    BY <1>4 DEF s
  <2> QED BY <2>4, <2>5, Under
<1> QED BY <1>1, <1>2, <1>3, <1>4

\* The steps that leave wkf_witm_trans alone and join nothing.
Elsewhere ==
    \/ LoopNext \/ LoopEnd \/ ScanNext \/ UpdateEndOpen \/ UpdateEndDone
    \/ CreateNext \/ CreateEnd \/ SendSignal
    \/ ExecuteDummy \/ ExecuteFunction \/ ExecuteStopAll \/ ExecuteSubflow
    \/ ExecuteSubflowNew
    \/ ActionWrite \/ ActionNew \/ ActionFind \/ ActionSignal \/ ActionTrigger
    \/ ActionEnd \/ ActionNoSubflow \/ ActionLink
    \/ SplitStay \/ JoinEnd \/ StartNext \/ StartEnd

\* A step that is not about joins leaves the frames under the top.
LEMMA ElsewhereUnder ==
    ASSUME TypeOK, stack # <<>>, Elsewhere
    PROVE  Elems(Tail(stack)) \subseteq Frames'
<1>1. CASE LoopNext \/ LoopEnd \/ ScanNext \/ UpdateEndOpen \/ UpdateEndDone
  BY <1>1, UnderTuples DEF LoopNext, LoopEnd, ScanNext, UpdateEndOpen, UpdateEndDone
<1>2. CASE CreateNext
  <2>1. \E a, b : Become(<<a, b>>)
    BY <1>2 DEF CreateNext
  <2> QED BY <2>1, UnderTuples
<1>3. CASE CreateEnd \/ SendSignal \/ ExecuteDummy \/ ExecuteFunction \/ ExecuteStopAll
           \/ ExecuteSubflow
  BY <1>3, UnderTuples DEF CreateEnd, SendSignal, ExecuteDummy, ExecuteFunction,
     ExecuteStopAll, ExecuteSubflow
<1>4. CASE ExecuteSubflowNew
  <2>1. \E i, w, r, f : Become(CreateInst(i, w, r) \o <<f>>)
    BY <1>4 DEF ExecuteSubflowNew
  <2> QED BY <2>1, UnderTuples
<1>5. CASE ActionWrite \/ ActionNew \/ ActionFind \/ ActionSignal \/ ActionTrigger
           \/ ActionEnd \/ ActionNoSubflow \/ ActionLink
  BY <1>5, UnderTuples DEF ActionWrite, ActionNew, ActionFind, ActionSignal, ActionTrigger,
     ActionEnd, ActionNoSubflow, ActionLink
<1>6. CASE SplitStay \/ JoinEnd \/ StartEnd
  BY <1>6, UnderTuples DEF SplitStay, JoinEnd, StartEnd
<1>7. CASE StartNext
  <2>1. \E i, w, r, f : Become(CreateInst(i, w, r) \o <<f>>)
    BY <1>7 DEF StartNext
  <2> QED BY <2>1, UnderTuples
<1> QED BY <1>1, <1>2, <1>3, <1>4, <1>5, <1>6, <1>7 DEF Elsewhere

\* A step that is not about joins leaves no row uncovered.
LEMMA JoinElsewhere ==
    ASSUME JoinInv, TypeOK', Elsewhere
    PROVE  JoinInv'
<1> DEFINE f == Head(stack)
           rest == Elems(Tail(stack))
<1>1. TypeOK /\ stack # <<>> /\ passed' = passed /\ saved' = saved
  BY DEF JoinInv, Elsewhere, tables, At, AtPc, NextCall, LoopNext, LoopEnd, ScanNext,
     UpdateEndOpen, UpdateEndDone, CreateNext, CreateEnd, SendSignal, ExecuteDummy,
     ExecuteFunction, ExecuteStopAll, ExecuteSubflow, ExecuteSubflowNew, ActionWrite,
     ActionNew, ActionFind, ActionSignal, ActionTrigger, ActionEnd, ActionNoSubflow,
     ActionLink, SplitStay, JoinEnd, StartNext, StartEnd
<1>2. f.op \notin {"join", "clear"} \/ (f.op = "join" /\ f.todo = {})
  BY DEF Elsewhere, At, AtPc, NextCall, LoopNext, LoopEnd, ScanNext,
     UpdateEndOpen, UpdateEndDone, CreateNext, CreateEnd, SendSignal, ExecuteDummy,
     ExecuteFunction, ExecuteStopAll, ExecuteSubflow, ExecuteSubflowNew, ActionWrite,
     ActionNew, ActionFind, ActionSignal, ActionTrigger, ActionEnd, ActionNoSubflow,
     ActionLink, SplitStay, JoinEnd, StartNext, StartEnd
<1>3. \A p : ~ Joins(f, p)
  BY <1>2 DEF Joins
<1>4. Frames = {f} \cup rest
  BY <1>1, HeadTail DEF TypeOK, Frames, Elems
<1>5. rest \subseteq Frames'
  BY <1>1, ElsewhereUnder
<1>6. ASSUME NEW p \in passed' PROVE Joined(p)'
  <2>1. Joined(p)
    BY <1>1 DEF JoinInv
  <2> HIDE DEF f, rest
  <2>2. CASE WaitsIn(p, passed)
    BY <1>1, <2>2 DEF Joined
  <2>3. CASE \E g \in Frames : Joins(g, p)
    <3>1. \E g \in Frames' : Joins(g, p)
      BY <1>3, <1>4, <1>5, <2>3
    <3> QED BY <3>1 DEF Joined, Joins
  <2> QED BY <2>1, <2>2, <2>3 DEF Joined
<1> QED BY <1>1, <1>6 DEF JoinInv

\* The rows _split_test inserts belong to the join frame it pushes.
LEMMA JoinFire ==
    ASSUME JoinInv, TypeOK', SplitFire
    PROVE  JoinInv'
<1> DEFINE f == Head(stack)
           rest == Elems(Tail(stack))
           i == f.item.inst
<1>1. TypeOK /\ stack # <<>> /\ f \in ProcessFrame /\ f.op = "process"
  BY TopFrame, FrameOp DEF JoinInv, SplitFire, AtPc, At
<1>2. PICK fired \in Fireable(f) \ {{}} :
         /\ passed' = passed \cup (fired \X {i})
         /\ Become(<<[op |-> "join", call |-> [f.call EXCEPT !.inst = i], todo |-> fired]>>)
  BY DEF SplitFire
<1> DEFINE g == [op |-> "join", call |-> [f.call EXCEPT !.inst = i], todo |-> fired]
<1>3. saved' = saved
  BY DEF SplitFire
<1>4. g \in Frame /\ g.op = "join" /\ g.call.inst = i /\ g.todo = fired
  <2>1. FromAct(f.item.act) \subseteq Trans
    BY DEF FromAct
  <2>2. fired \subseteq Trans
    BY <1>2, <2>1, FireableFrom
  <2>3. [f.call EXCEPT !.inst = i] \in Target /\ [f.call EXCEPT !.inst = i].inst = i
    BY <1>1 DEF ProcessFrame, Item, Target
  <2> QED BY <2>2, <2>3 DEF JoinFrame, Frame
<1> HIDE DEF g
<1>5. Frames = {f} \cup rest /\ Frames' = {g} \cup rest
  BY <1>1, <1>2, <1>4, Push1 DEF g
<1>6. \A p : ~ Joins(f, p)
  BY <1>1 DEF Joins
<1>7. ASSUME NEW p \in passed' PROVE Joined(p)'
  <2>1. CASE p \in fired \X {i}
    <3>1. p[1] \in fired /\ p[2] = i
      BY <2>1
    <3>2. Joins(g, p)
      BY <1>4, <3>1 DEF Joins
    <3> QED BY <1>5, <3>2 DEF Joined, Joins
  <2>2. CASE p \in passed /\ \E h \in Frames : Joins(h, p)
    <3>1. \E h \in Frames' : Joins(h, p)
      BY <1>5, <1>6, <2>2
    <3> QED BY <3>1 DEF Joined, Joins
  <2>3. CASE p \in passed /\ WaitsIn(p, passed)
    <3>1. PICK t \in IntoAct(To[p[1]]) : <<t, p[2]>> \notin passed
      BY <2>3 DEF WaitsIn
    <3>2. CASE <<t, p[2]>> \notin passed'
      BY <2>3, <3>2 DEF Joined, WaitsIn
    <3>3. CASE <<t, p[2]>> \in passed'
      <4>1. t \in fired /\ p[2] = i
        BY <1>2, <3>1, <3>3
      <4>2. To[t] = To[p[1]]
        BY <3>1 DEF IntoAct
      <4>3. Joins(g, p)
        BY <1>4, <2>3, <4>1, <4>2 DEF Joins, WaitsIn
      <4> QED BY <1>5, <4>3 DEF Joined, Joins
    <3> QED BY <3>2, <3>3
  <2> QED BY <1>2, <2>1, <2>2, <2>3 DEF JoinInv, Joined
<1> QED BY <1>3, <1>7 DEF JoinInv

\* _join_test hands the row of an XOR join to the clear frame, deletes the rows
\* of an AND join that is complete and leaves those of one that is not.
LEMMA JoinJoin ==
    ASSUME JoinInv, TypeOK', JoinNext
    PROVE  JoinInv'
<1> DEFINE f == Head(stack)
           rest == Elems(Tail(stack))
           i == f.call.inst
           next(t) == Creating([f.call EXCEPT !.sig = NoSig, !.force = FALSE], {To[t]})
           clear(t) == [op |-> "clear", inst |-> i, trans |-> t]
           less(t) == [f EXCEPT !.todo = @ \ {t}]
           into(t) == IntoAct(To[t]) \X {i}
<1>1. TypeOK /\ stack # <<>> /\ f \in JoinFrame /\ f.op = "join" /\ saved' = saved
  BY TopFrame, FrameOp DEF JoinInv, JoinNext, At
<1>2. PICK t \in f.todo :
         \/ JoinsAny(To[t]) /\ Become(<<next(t), clear(t), less(t)>>) /\ passed' = passed
         \/ /\ ~ JoinsAny(To[t]) /\ Become(<<next(t), less(t)>>)
            /\ into(t) \subseteq passed /\ passed' = passed \ into(t)
         \/ /\ ~ JoinsAny(To[t]) /\ Become(<<less(t)>>)
            /\ ~ (into(t) \subseteq passed) /\ passed' = passed
  BY DEF JoinNext
<1>3. t \in Trans /\ f.call \in Target /\ i \in InstId
  BY <1>1 DEF JoinFrame, Target
<1>4. /\ less(t) \in Frame /\ less(t).op = "join" /\ less(t).call.inst = i
      /\ less(t).todo = f.todo \ {t}
  BY <1>1 DEF JoinFrame, Frame
<1>5. [f.call EXCEPT !.sig = NoSig, !.force = FALSE] \in Target
  BY <1>3 DEF Target
<1>6. {To[t]} \in SUBSET Act
  BY <1>3, ConstantsAssumption
<1>7. next(t) \in Frame
  BY <1>5, <1>6, CreatingType DEF Frame
<1>8. clear(t) \in Frame
  BY <1>3 DEF ClearFrame, Frame
<1>9. clear(t).op = "clear" /\ clear(t).inst = i /\ clear(t).trans = t
  OBVIOUS
<1> HIDE DEF next, clear, less
<1>10. /\ Frames = {f} \cup rest /\ rest \subseteq Frames' /\ less(t) \in Frames'
       /\ JoinsAny(To[t]) => clear(t) \in Frames'
  BY <1>1, <1>2, <1>4, <1>7, <1>8, Push1, Push2, Push3
<1>11. passed' \subseteq passed
  BY <1>2
<1>12. ASSUME NEW p \in passed' PROVE Joined(p)'
  <2>1. p \in passed /\ Joined(p) /\ p \in Trans \X InstId
    BY <1>1, <1>11 DEF JoinInv, TypeOK
  <2>2. CASE WaitsIn(p, passed)
    BY <1>11, <2>2 DEF Joined, WaitsIn
  <2>3. CASE \E h \in rest : Joins(h, p)
    <3>1. \E h \in Frames' : Joins(h, p)
      BY <1>10, <2>3
    <3> QED BY <3>1 DEF Joined, Joins
  <2>4. CASE Joins(f, p)
    <3>1. p[2] = i
      BY <1>1, <2>4 DEF Joins
    <3>2. CASE Joins(less(t), p)
      BY <1>10, <3>2 DEF Joined, Joins
    <3>3. CASE JoinMode[To[p[1]]] = "XOR" /\ p[1] = t
      <4>1. Joins(clear(t), p)
        BY <1>9, <3>1, <3>3 DEF Joins
      <4> QED BY <1>10, <3>3, <4>1 DEF JoinsAny, Joined, Joins
    <3>4. CASE JoinMode[To[p[1]]] = "AND" /\ To[t] = To[p[1]]
      <4>1. p \in into(t)
        BY <2>1, <3>1, <3>4 DEF IntoAct
      <4>2. ~ JoinsAny(To[t])
        BY <3>4 DEF JoinsAny
      <4>3. ~ (into(t) \subseteq passed) /\ passed' = passed
        BY <1>2, <4>1, <4>2
      <4>4. \E u \in IntoAct(To[t]) : <<u, i>> \notin passed
        BY <4>3
      <4> QED BY <3>1, <3>4, <4>3, <4>4 DEF Joined, WaitsIn
    <3>5. JoinMode[To[p[1]]] \in {"XOR", "AND"}
      BY <2>1, ConstantsAssumption
    <3>6. CASE JoinMode[To[p[1]]] = "XOR" /\ p[1] # t
      <4>1. Joins(less(t), p)
        BY <1>1, <1>4, <2>4, <3>6 DEF Joins
      <4> QED BY <3>2, <4>1
    <3>7. CASE JoinMode[To[p[1]]] = "AND" /\ To[t] # To[p[1]]
      <4>1. Joins(less(t), p)
        BY <1>1, <1>4, <2>4, <3>7 DEF Joins
      <4> QED BY <3>2, <4>1
    <3> QED BY <3>3, <3>4, <3>5, <3>6, <3>7
  <2> QED BY <1>10, <2>1, <2>2, <2>3, <2>4 DEF Joined
<1> QED BY <1>1, <1>12 DEF JoinInv

\* The row the clear frame stood for is deleted.
LEMMA JoinCleared ==
    ASSUME JoinInv, TypeOK', JoinClear
    PROVE  JoinInv'
<1> DEFINE f == Head(stack)
           rest == Elems(Tail(stack))
<1>1. TypeOK /\ stack # <<>> /\ f.op = "clear" /\ saved' = saved
      /\ passed' = passed \ {<<f.trans, f.inst>>}
  BY DEF JoinInv, JoinClear, At
<1>2. Frames = {f} \cup rest /\ Frames' = rest
  BY <1>1, Push0 DEF JoinClear
<1>3. ASSUME NEW p \in passed' PROVE Joined(p)'
  <2>1. p \in passed /\ Joined(p) /\ p \in Trans \X InstId
    BY <1>1 DEF JoinInv, TypeOK
  <2>2. ~ Joins(f, p)
    BY <1>1, <2>1 DEF Joins
  <2>3. CASE WaitsIn(p, passed)
    BY <1>1, <2>3 DEF Joined, WaitsIn
  <2>4. CASE \E h \in Frames : Joins(h, p)
    <3>1. \E h \in Frames' : Joins(h, p)
      BY <1>2, <2>2, <2>4
    <3> QED BY <3>1 DEF Joined, Joins
  <2> QED BY <2>1, <2>3, <2>4 DEF Joined
<1> QED BY <1>1, <1>3 DEF JoinInv

\* A request begins with the rows of unfinished AND joins only, and so do
\* commit and rollback.
LEMMA JoinRequest ==
    ASSUME JoinInv, TypeOK', Request \/ Commit \/ Rollback
    PROVE  JoinInv'
<1>1. TypeOK /\ \A p \in saved.passed : WaitsIn(p, saved.passed)
  BY DEF JoinInv
<1>2. ASSUME stack = <<>>
      PROVE  \A p \in passed : WaitsIn(p, passed)
  <2>1. Frames = {}
    BY <1>2 DEF Frames
  <2> QED BY <2>1 DEF JoinInv, Joined
<1>3. CASE Request /\ passed' = passed
  <2>1. stack = <<>> /\ saved' = saved
    BY <1>3 DEF Request, TrgCreate, TrgWrite, TrgValidate, TrgTrigger, TrgDelete,
       TrgRedirect, Ready
  <2> QED BY <1>1, <1>2, <1>3, <2>1 DEF JoinInv, Joined
<1>4. CASE \E r \in Deletable : TrgDelete(r)
  <2>1. PICK r \in Deletable : TrgDelete(r)
    BY <1>4
  <2> DEFINE dead == {n.id : n \in InstsOn(r)}
  <2>2. stack = <<>> /\ saved' = saved /\ passed' = {p \in passed : p[2] \notin dead}
    BY <2>1 DEF TrgDelete, Ready
  <2>3. \A p \in passed' : WaitsIn(p, passed) /\ passed' \subseteq passed
    BY <1>2, <2>2
  <2> HIDE DEF dead
  <2> QED BY <1>1, <2>2, <2>3 DEF JoinInv, Joined, WaitsIn
<1>5. CASE Commit
  <2>1. stack = <<>> /\ passed' = passed /\ saved'.passed = passed
    BY <1>5 DEF Commit, Now, tables
  <2> QED BY <1>2, <2>1 DEF JoinInv, Joined
<1>6. CASE Rollback
  <2>1. passed' = saved.passed /\ saved' = saved
    BY <1>6 DEF Rollback
  <2> QED BY <1>1, <2>1 DEF JoinInv, Joined
<1>7. Request => passed' = passed \/ \E r \in Deletable : TrgDelete(r)
  BY DEF Request, TrgCreate, TrgWrite, TrgValidate, TrgTrigger, TrgRedirect, tables
<1> QED BY <1>3, <1>4, <1>5, <1>6, <1>7

\* Every step keeps the invariant.
LEMMA JoinStep == JoinInv /\ [Next]_vars => JoinInv'
<1> SUFFICES ASSUME JoinInv, [Next]_vars PROVE JoinInv'
  OBVIOUS
<1>1. TypeOK'
  BY TypeStep DEF JoinInv
<1>2. CASE Engine
  BY <1>1, <1>2, JoinElsewhere, JoinFire, JoinJoin, JoinCleared DEF Engine, Elsewhere
<1>3. CASE Request \/ Commit \/ Rollback
  BY <1>1, <1>3, JoinRequest
<1>4. CASE UNCHANGED vars
  BY <1>4 DEF JoinInv, TypeOK, Joined, Joins, Frames, vars
<1> QED BY <1>2, <1>3, <1>4 DEF Next

\* With no rows nothing is stranded.
LEMMA JoinInit == Init => JoinInv
<1> SUFFICES ASSUME Init PROVE JoinInv
  OBVIOUS
<1>1. passed = {} /\ saved.passed = {}
  BY DEF Init, Now
<1> QED BY <1>1, TypeInit DEF JoinInv

\* With no frame on the stack every row waits for another input of its join.
LEMMA JoinImplies == JoinInv => NoStrandedJoin
<1> SUFFICES ASSUME JoinInv, stack = <<>>, NEW p \in passed PROVE WaitsIn(p, passed)
  BY DEF NoStrandedJoin, WaitsIn
<1>1. Frames = {}
  BY DEF Frames
<1> QED BY <1>1 DEF JoinInv, Joined

\* Whatever the workflows and the order the engine takes transitions in, a
\* request that ends leaves in wkf_witm_trans only inputs of AND joins that
\* still miss one: no token is lost before a join whose inputs all came.
THEOREM NoStrandedJoinHolds == Spec => []NoStrandedJoin
BY JoinInit, JoinStep, JoinImplies, PTL DEF Spec

-----------------------------------------------------------------------------
(* Every row belongs to the workflow of its instance.                      *)

Runs(i, w, rows) == \E n \in rows : n.id = i /\ n.wkf = w

\* What a dictionary the engine read says of the row of its item.
Alike(v, its) == \A w \in its : w.id = v.id => w.act = v.act /\ w.inst = v.inst

OwnItem(v, ins, its) == Runs(v.inst, ActWkf[v.act], ins) /\ Alike(v, its)

\* A frame that will write rows knows instances of the right workflows.
Fits(f, ins, its) ==
    /\ f.op = "scan" => \A v \in f.todo : OwnItem(v, ins, its) /\ v.inst = f.call.inst
    /\ f.op = "process" => /\ OwnItem(f.item, ins, its)
                           /\ f.child # NoInst => Runs(f.child, SubWkf[f.item.act], ins)
    /\ f.op = "create" => \A a \in f.todo : Runs(f.call.inst, ActWkf[a], ins)
    /\ f.op = "join" => \A t \in f.todo : Runs(f.call.inst, ActWkf[From[t]], ins)

OneWkf(ins) == \A m, n \in ins : m.id = n.id => m.wkf = n.wkf

Owned(d) ==
    /\ OneWkf(d.insts)
    /\ \A w \in d.items : /\ OwnItem(w, d.insts, d.items)
                          /\ w.sub # NoInst => Runs(w.sub, SubWkf[w.act], d.insts)
    /\ \A p \in d.passed : Runs(p[2], ActWkf[From[p[1]]], d.insts)

OwnInv ==
    /\ TypeOK
    /\ Owned(Now) /\ Owned(saved)
    /\ \A f \in Frames : Fits(f, insts, items)

\* What a step does to the rows.  Instances stay, with their workflows ...
Lasting ==
    /\ \A n \in insts : \E m \in insts' : m.id = n.id /\ m.wkf = n.wkf
    /\ OneWkf(insts')

\* ... an item is one that was there, perhaps with another subflow instance, or
\* has an identifier nobody holds ...
Stays(w, v) == /\ w.id = v.id /\ w.act = v.act /\ w.inst = v.inst
               /\ w.sub \in {v.sub, NoInst} \/ Runs(w.sub, SubWkf[w.act], insts')
Born(w) == /\ w.id \notin UsedItems /\ w.sub = NoInst
           /\ Runs(w.inst, ActWkf[w.act], insts')
           /\ \A v \in items' : v.id = w.id => v = w
Traced == \A w \in items' : Born(w) \/ \E v \in items : Stays(w, v)

\* ... and a recorded transition leaves from the workflow of its instance.
Recorded == \A p \in passed' : p \in passed \/ Runs(p[2], ActWkf[From[p[1]]], insts')

\* An instance goes on running its workflow.
LEMMA StillRuns ==
    ASSUME Lasting, NEW i, NEW w, Runs(i, w, insts) PROVE Runs(i, w, insts')
BY DEF Lasting, Runs

\* The dictionaries of the frames hold identifiers that are in use.
LEMMA FrameItems ==
    ASSUME NEW f \in Frames
    PROVE  /\ f.op = "process" => f.item.id \in UsedItems
           /\ f.op = "scan" => \A v \in f.todo : v.id \in UsedItems
<1>1. ASSUME f.op = "scan", NEW v \in f.todo PROVE v.id \in UsedItems
  <2>1. f \in {g \in Frames : g.op = "scan"}
    BY <1>1
  <2>2. v.id \in {i.id : i \in f.todo}
    OBVIOUS
  <2>3. v.id \in UNION {{i.id : i \in h.todo} : h \in {g \in Frames : g.op = "scan"}}
    BY <2>1, <2>2
  <2> QED BY <2>3 DEF UsedItems
<1> QED BY <1>1 DEF UsedItems

\* An item that is in use stays with its instance.
LEMMA StillOwn ==
    ASSUME Lasting, Traced, NEW v, v.id \in UsedItems, OwnItem(v, insts, items)
    PROVE  OwnItem(v, insts', items')
<1>1. Runs(v.inst, ActWkf[v.act], insts')
  BY StillRuns DEF OwnItem
<1>2. ASSUME NEW w \in items', w.id = v.id PROVE w.act = v.act /\ w.inst = v.inst
  BY <1>2 DEF Traced, Born, Stays, OwnItem, Alike
<1> QED BY <1>1, <1>2 DEF OwnItem, Alike

\* Such a step leaves what the frames know true.
LEMMA StillFits ==
    ASSUME Lasting, Traced, NEW f \in Frames, Fits(f, insts, items)
    PROVE  Fits(f, insts', items')
<1>1. f.op = "scan" => \A v \in f.todo : OwnItem(v, insts', items') /\ v.inst = f.call.inst
  BY FrameItems, StillOwn DEF Fits
<1>2. f.op = "process" => OwnItem(f.item, insts', items')
  BY FrameItems, StillOwn DEF Fits
<1> QED BY <1>1, <1>2, StillRuns DEF Fits

\* The frames a step pushes are among new, and each of them fits.
Adds(new) == Frames' \subseteq new \cup Frames
Suits(new) == \A g \in new : Fits(g, insts', items')

\* Such a step keeps the invariant when the frames it pushes fit.
LEMMA OwnStep ==
    ASSUME OwnInv, TypeOK', Lasting, Traced, Recorded, saved' = saved,
           NEW new, Adds(new), Suits(new)
    PROVE  OwnInv'
<1>1. ASSUME NEW w \in items'
      PROVE  /\ OwnItem(w, insts', items')
             /\ w.sub # NoInst => Runs(w.sub, SubWkf[w.act], insts')
  <2>1. CASE Born(w)
    BY <2>1 DEF Born, OwnItem, Alike
  <2>2. ASSUME NEW v \in items, Stays(w, v)
        PROVE  /\ OwnItem(w, insts', items')
               /\ w.sub # NoInst => Runs(w.sub, SubWkf[w.act], insts')
    <3>1. /\ OwnItem(v, insts, items) /\ v.id \in UsedItems
          /\ v.sub # NoInst => Runs(v.sub, SubWkf[v.act], insts)
      BY DEF OwnInv, Owned, Now, UsedItems
    <3>2. OwnItem(v, insts', items')
      BY <3>1, StillOwn
    <3>3. w.id = v.id /\ w.act = v.act /\ w.inst = v.inst
      BY <2>2 DEF Stays
    <3>4. v.sub # NoInst => Runs(v.sub, SubWkf[v.act], insts')
      BY <3>1, StillRuns
    <3> QED BY <2>2, <3>2, <3>3, <3>4 DEF Stays, OwnItem, Alike
  <2> QED BY <2>1, <2>2 DEF Traced
<1>2. ASSUME NEW p \in passed' PROVE Runs(p[2], ActWkf[From[p[1]]], insts')
  <2>1. p \in passed => Runs(p[2], ActWkf[From[p[1]]], insts)
    BY DEF OwnInv, Owned, Now
  <2> QED BY <2>1, StillRuns DEF Recorded
<1>3. Owned(Now)'
  BY <1>1, <1>2 DEF Owned, Now, Lasting
<1>4. Owned(saved)'
  BY DEF OwnInv, Owned, OneWkf, OwnItem, Runs, Alike
<1>5. \A f \in Frames' : Fits(f, insts', items')
  BY StillFits DEF OwnInv, Adds, Suits
<1> QED BY <1>3, <1>4, <1>5 DEF OwnInv, Fits, OwnItem, Runs, Alike

\* A step that pushes no frame pushes none that does not fit.
LEMMA NoneSuit == Suits({})
BY DEF Suits

\* Rows left alone, or changed as the statements of the engine change them.
LEMMA OwnRows ==
    ASSUME OwnInv
    PROVE  /\ insts' = insts => Lasting
           /\ items' \subseteq items => Traced
           /\ \A k, s : SetState(k, s) => Traced
           /\ passed' \subseteq passed => Recorded
<1>1. insts' = insts => Lasting
  BY DEF OwnInv, Owned, Now, Lasting
<1>2. items' \subseteq items => Traced
  BY DEF Traced, Stays
<1>3. ASSUME NEW k, NEW s, SetState(k, s) PROVE Traced
  <2> SUFFICES ASSUME NEW w \in items' PROVE \E v \in items : Stays(w, v)
    BY DEF Traced
  <2>1. PICK v \in items : w = IF v.id = k THEN [v EXCEPT !.state = s] ELSE v
    BY <1>3 DEF SetState
  <2>2. v \in Item
    BY DEF OwnInv, TypeOK
  <2>3. w.id = v.id /\ w.act = v.act /\ w.inst = v.inst /\ w.sub = v.sub
    BY <2>1, <2>2 DEF Item
  <2> QED BY <2>3 DEF Stays
<1>4. passed' \subseteq passed => Recorded
  BY DEF Recorded
<1> QED BY <1>1, <1>2, <1>3, <1>4

\* A frame that goes on with the item of another knows what that knew.
LEMMA GoesOn ==
    ASSUME NEW f, NEW g, NEW ins, NEW its, Fits(f, ins, its), f.op = "process",
           g.op = "process" => /\ g.item.id = f.item.id /\ g.item.act = f.item.act
                               /\ g.item.inst = f.item.inst
                               /\ g.child = f.child,
           g.op \in {"process", "loop", "start", "clear"}
    PROVE  Fits(g, ins, its)
BY DEF Fits, OwnItem, Alike

\* A step adds to the frames those it pushes, whatever they are.
LEMMA PushedSeq ==
    ASSUME TypeOK, stack # <<>>, NEW S, NEW s \in Seq(S), Become(s)
    PROVE  Adds(Elems(s))
<1> DEFINE T == S \cup Frame
<1>1. Tail(stack) \in Seq(Frame) /\ Elems(Tail(stack)) \subseteq Frames
  BY HeadTail DEF TypeOK, Frames, Elems
<1>2. s \in Seq(T) /\ Tail(stack) \in Seq(T)
  BY <1>1
<1> HIDE DEF T
<1>3. Elems(s \o Tail(stack)) = Elems(s) \cup Elems(Tail(stack))
  BY <1>2, Concat
<1>4. Frames' = Elems(s \o Tail(stack))
  BY DEF Become, Frames, Elems
<1> QED BY <1>1, <1>3, <1>4 DEF Adds

\* The same for the sequences the handlers push.
LEMMA Pushed ==
    ASSUME TypeOK, stack # <<>>
    PROVE  /\ Become(<<>>) => Adds({})
           /\ \A a : Become(<<a>>) => Adds({a})
           /\ \A a, b : Become(<<a, b>>) => Adds({a, b})
           /\ \A a, b, c : Become(<<a, b, c>>) => Adds({a, b, c})
<1>1. ASSUME Become(<<>>) PROVE Adds({})
  <2> DEFINE s == <<>>
  <2>1. s \in Seq({}) /\ Become(s) /\ Elems(s) = {}
    BY <1>1, SmallSeqs
  <2> HIDE DEF s
  <2>2. Adds(Elems(s))
    BY <2>1, PushedSeq
  <2> QED BY <2>1, <2>2
<1>2. ASSUME NEW a, Become(<<a>>) PROVE Adds({a})
  <2>1. <<a>> \in Seq({a}) /\ Elems(<<a>>) = {a}
    BY SmallSeqs
  <2>2. Adds(Elems(<<a>>))
    BY <1>2, <2>1, PushedSeq
  <2> QED BY <2>1, <2>2
<1>3. ASSUME NEW a, NEW b, Become(<<a, b>>) PROVE Adds({a, b})
  <2>1. <<a, b>> \in Seq({a, b}) /\ Elems(<<a, b>>) = {a, b}
    BY SmallSeqs
  <2>2. Adds(Elems(<<a, b>>))
    BY <1>3, <2>1, PushedSeq
  <2> QED BY <2>1, <2>2
<1>4. ASSUME NEW a, NEW b, NEW c, Become(<<a, b, c>>)
      PROVE  Adds({a, b, c})
  <2>1. <<a, b, c>> \in Seq({a, b, c})
    OBVIOUS
  <2>2. DOMAIN <<a, b, c>> = {1, 2, 3} /\ <<a, b, c>>[1] = a /\ <<a, b, c>>[2] = b
        /\ <<a, b, c>>[3] = c
    OBVIOUS
  <2>3. Elems(<<a, b, c>>) = {a, b, c}
    BY <2>2 DEF Elems
  <2>4. Adds(Elems(<<a, b, c>>))
    BY <1>4, <2>1, PushedSeq
  <2> QED BY <2>3, <2>4
<1> QED BY <1>1, <1>2, <1>3, <1>4

\* The frames of instance.create fit an instance that runs its workflow.
LEMMA PushedInst ==
    ASSUME TypeOK, stack # <<>>, NEW i, NEW w, NEW r, NEW g,
           Become(CreateInst(i, w, r) \o <<g>>), Runs(i, w, insts')
    PROVE  \E new : Adds(new \cup {g}) /\ Suits(new)
<1> DEFINE c == CallOn(i, r, NoSig, FALSE)
           a == Creating(c, StartActs(w))
           b == Loop({c})
           s == CreateInst(i, w, r)
           S == {a, b, g}
<1>1. Fits(a, insts', items')
  BY DEF Creating, CallOn, StartActs, Fits
<1>2. Fits(b, insts', items')
  BY DEF Fits, Loop
<1>3. s = <<a, b>> /\ Become(s \o <<g>>)
  BY DEF CreateInst
<1> HIDE DEF c, a, b, s
<1>4. <<g>> \in Seq(S) /\ Elems(<<g>>) = {g} /\ s \in Seq(S) /\ Elems(s) = {a, b}
  BY <1>3, SmallSeqs
<1> HIDE DEF S
<1>5. s \o <<g>> \in Seq(S) /\ Elems(s \o <<g>>) = {a, b} \cup {g}
  <2> DEFINE t == <<g>>
  <2>1. t \in Seq(S) /\ Elems(t) = {g} /\ s \in Seq(S) /\ Elems(s) = {a, b}
    BY <1>4
  <2> HIDE DEF t
  <2>2. s \o t \in Seq(S) /\ Elems(s \o t) = {a, b} \cup {g}
    BY <2>1, Concat
  <2> QED BY <2>2 DEF t
<1>6. Adds({a, b} \cup {g})
  <2> DEFINE t == s \o <<g>>
  <2>1. t \in Seq(S) /\ Become(t) /\ Elems(t) = {a, b} \cup {g}
    BY <1>3, <1>5
  <2> HIDE DEF t
  <2>2. Adds(Elems(t))
    BY <2>1, PushedSeq
  <2> QED BY <2>1, <2>2
<1>7. Suits({a, b})
  BY <1>1, <1>2 DEF Suits
<1> QED BY <1>6, <1>7

\* The frames of loops and starts know no workflow.
LEMMA PlainFits ==
    ASSUME NEW g, g.op \in {"loop", "start", "clear"}, NEW ins, NEW its
    PROVE  Fits(g, ins, its)
BY DEF Fits

\* The top frame fits, and a step that leaves the rows alone keeps them.
LEMMA OwnTop ==
    ASSUME OwnInv, stack # <<>>
    PROVE  /\ TypeOK /\ Head(stack) \in Frame /\ Head(stack) \in Frames
           /\ Fits(Head(stack), insts, items)
           /\ UNCHANGED tables => Lasting /\ Traced /\ Recorded
<1>1. TypeOK
  BY DEF OwnInv
<1>2. Head(stack) \in Frame /\ Head(stack) \in Frames
  BY <1>1, HeadTail DEF TypeOK, Frames, Elems
<1>3. UNCHANGED tables => Lasting /\ Traced /\ Recorded
  BY OwnRows DEF tables
<1> QED BY <1>1, <1>2, <1>3 DEF OwnInv

\* The loops of instance.py.
LEMMA OwnLoops ==
    ASSUME OwnInv, TypeOK',
           LoopNext \/ LoopEnd \/ ScanNext \/ UpdateEndOpen \/ UpdateEndDone
    PROVE  OwnInv'
<1> DEFINE f == Head(stack)
<1>0. stack # <<>> /\ saved' = saved
  BY DEF LoopNext, LoopEnd, ScanNext, UpdateEndOpen, UpdateEndDone, At
<1>a. /\ TypeOK /\ f \in Frame /\ f \in Frames /\ Fits(f, insts, items)
      /\ UNCHANGED tables => Lasting /\ Traced /\ Recorded
  BY <1>0, OwnTop
<1>1. CASE LoopNext
  <2>1. f \in LoopFrame /\ UNCHANGED tables
    BY <1>1, <1>a, FrameOp DEF LoopNext, At
  <2>2. PICK c \in f.todo :
           Become(<<Scan(c), [f EXCEPT !.todo = @ \ {c}, !.last = c.inst]>>)
    BY <1>1 DEF LoopNext
  <2> DEFINE a == Scan(c)
             b == [f EXCEPT !.todo = @ \ {c}, !.last = c.inst]
  <2>3. a.op = "scan" /\ a.todo \subseteq items /\ b.op = "loop"
        /\ \A v \in a.todo : v.inst = a.call.inst
    BY <2>1 DEF Scan, ItemsOf, LoopFrame
  <2>4. Fits(a, insts, items) /\ Fits(b, insts, items)
    BY <2>3, PlainFits DEF Fits, OwnInv, Owned, Now
  <2>5. Adds({a, b})
    BY <1>0, <1>a, <2>2, Pushed
  <2> HIDE DEF a, b
  <2>6. Suits({a, b})
    BY <2>1, <2>4 DEF tables, Suits
  <2> QED BY <1>0, <1>a, <2>1, <2>5, <2>6, OwnStep
<1>2. CASE LoopEnd \/ UpdateEndOpen
  <2>1. Adds({})
    BY <1>0, <1>a, <1>2, Pushed DEF LoopEnd, UpdateEndOpen
  <2> QED BY <1>0, <1>2, <1>a, <2>1, NoneSuit, OwnStep DEF LoopEnd, UpdateEndOpen
<1>3. CASE ScanNext
  <2>1. f \in ScanFrame /\ f.op = "scan" /\ UNCHANGED tables
    BY <1>3, <1>a, FrameOp DEF ScanNext, At
  <2>2. PICK w \in f.todo : Become(<<Process(w, f.call), [f EXCEPT !.todo = @ \ {w}]>>)
    BY <1>3 DEF ScanNext
  <2> DEFINE a == Process(w, f.call)
             b == [f EXCEPT !.todo = @ \ {w}]
  <2>3. b.op = "scan" /\ b.todo \subseteq f.todo /\ b.call = f.call
    BY <2>1 DEF ScanFrame
  <2>4. a.op = "process" /\ a.item = w /\ a.child = NoInst
    BY DEF Process
  <2>5. Fits(a, insts, items) /\ Fits(b, insts, items)
    BY <1>a, <2>1, <2>3, <2>4 DEF Fits
  <2>6. Adds({a, b})
    BY <1>0, <1>a, <2>2, Pushed
  <2> HIDE DEF a, b
  <2>7. Suits({a, b})
    BY <2>1, <2>5 DEF tables, Suits
  <2> QED BY <1>0, <1>a, <2>1, <2>6, <2>7, OwnStep
<1>4. CASE UpdateEndDone
  <2> DEFINE i == f.call.inst
             a == Loop(UNION {{CallOn(n.id, n.res, StopSig[w.act], FALSE) :
                               w \in ItemsOf(i)} : n \in Waiting(i)})
  <2>1. /\ insts' = {IF n.id = i THEN [n EXCEPT !.state = "complete"] ELSE n : n \in insts}
        /\ items' = WaitersComplete(i) /\ passed' = passed /\ Become(<<a>>)
    BY <1>4 DEF UpdateEndDone
  <2>2. Lasting
    <3> DEFINE done(n) == IF n.id = i THEN [n EXCEPT !.state = "complete"] ELSE n
    <3>1. \A n \in insts : done(n).id = n.id /\ done(n).wkf = n.wkf
      BY <1>a DEF TypeOK, Inst
    <3>2. insts' = {done(n) : n \in insts}
      BY <2>1
    <3> HIDE DEF done
    <3> QED BY <3>1, <3>2 DEF Lasting, OwnInv, Owned, OneWkf, Now
  <2>3. Traced
    <3> SUFFICES ASSUME NEW w \in items' PROVE \E v \in items : Stays(w, v)
      BY DEF Traced
    <3>1. PICK v \in items : w = IF v.sub = i THEN [v EXCEPT !.state = "complete"] ELSE v
      BY <2>1 DEF WaitersComplete
    <3>2. w.id = v.id /\ w.act = v.act /\ w.inst = v.inst /\ w.sub = v.sub
      BY <1>a, <3>1 DEF TypeOK, Item
    <3> QED BY <3>2 DEF Stays
  <2>4. Recorded
    BY <2>1 DEF Recorded
  <2>5. a.op = "loop"
    BY DEF Loop
  <2> HIDE DEF a
  <2>6. Adds({a})
    BY <1>0, <1>a, <2>1, Pushed
  <2>7. Suits({a})
    BY <2>5, PlainFits DEF Suits
  <2> QED BY <1>0, <2>2, <2>3, <2>4, <2>6, <2>7, OwnStep
<1> QED BY <1>1, <1>2, <1>3, <1>4

\* A new instance with an identifier nobody holds leaves the others be.
LEMMA NewInst ==
    ASSUME OwnInv, NEW i, i \notin UsedInsts, NEW n, n.id = i, insts' = insts \cup {n}
    PROVE  Lasting /\ Runs(i, n.wkf, insts')
<1>1. \A m \in insts : m.id # i
  BY DEF UsedInsts
<1> QED BY <1>1 DEF Lasting, OwnInv, Owned, OneWkf, Now, Runs

\* workitem.create and trg_create.
LEMMA OwnCreate ==
    ASSUME OwnInv, TypeOK', CreateNext \/ CreateEnd \/ StartNext \/ StartEnd
    PROVE  OwnInv'
<1> DEFINE f == Head(stack)
<1>0. stack # <<>> /\ saved' = saved
  BY DEF CreateNext, CreateEnd, StartNext, StartEnd, At
<1>a. /\ TypeOK /\ f \in Frame /\ f \in Frames /\ Fits(f, insts, items)
      /\ UNCHANGED tables => Lasting /\ Traced /\ Recorded
  BY <1>0, OwnTop
<1>1. CASE CreateNext
  <2> DEFINE k == CHOOSE x \in ItemId \ UsedItems : TRUE
             w(a) == [id |-> k, act |-> a, inst |-> f.call.inst, sub |-> NoInst,
                      state |-> "active"]
  <2>1. f \in CreateFrame /\ f.op = "create"
    BY <1>1, <1>a, FrameOp DEF CreateNext, At
  <2>2. k \notin UsedItems
    BY <1>1 DEF CreateNext
  <2>3. PICK a \in f.todo :
           /\ items' = items \cup {w(a)}
           /\ Become(<<Process(w(a), f.call), [f EXCEPT !.todo = @ \ {a}]>>)
    BY <1>1 DEF CreateNext
  <2>4. insts' = insts /\ passed' = passed
    BY <1>1 DEF CreateNext
  <2>5. Runs(f.call.inst, ActWkf[a], insts')
    BY <1>a, <2>1, <2>4 DEF Fits
  <2>6. /\ w(a).id = k /\ w(a).sub = NoInst /\ w(a).inst = f.call.inst /\ w(a).act = a
    OBVIOUS
  <2>7. \A v \in items : v.id # k
    BY <2>2 DEF UsedItems
  <2> DEFINE p == Process(w(a), f.call)
             b == [f EXCEPT !.todo = @ \ {a}]
  <2>8. p.op = "process" /\ p.item = w(a) /\ p.child = NoInst
    BY DEF Process
  <2>9. b.op = "create" /\ b.call = f.call /\ b.todo \subseteq f.todo
    BY <2>1 DEF CreateFrame
  <2> HIDE DEF k, w
  <2>10. Born(w(a))
    BY <2>2, <2>3, <2>5, <2>6, <2>7 DEF Born
  <2>11. \A v \in items : Stays(v, v)
    BY DEF Stays
  <2>12. Traced
    BY <2>3, <2>10, <2>11 DEF Traced
  <2>13. Lasting /\ Recorded
    BY <2>4, OwnRows
  <2>14. Fits(p, insts', items')
    BY <2>3, <2>5, <2>6, <2>7, <2>8 DEF Fits, OwnItem, Alike
  <2>15. Fits(b, insts', items')
    BY <1>a, <2>1, <2>4, <2>9 DEF Fits
  <2>16. Adds({p, b})
    BY <1>0, <1>a, <2>3, Pushed
  <2> HIDE DEF p, b
  <2>17. Suits({p, b})
    BY <2>14, <2>15 DEF Suits
  <2> QED BY <1>0, <2>12, <2>13, <2>16, <2>17, OwnStep
<1>2. CASE CreateEnd \/ StartEnd
  <2>1. Adds({})
    BY <1>0, <1>a, <1>2, Pushed DEF CreateEnd, StartEnd
  <2> QED BY <1>0, <1>2, <1>a, <2>1, NoneSuit, OwnStep DEF CreateEnd, StartEnd
<1>3. CASE StartNext
  <2> DEFINE i == CHOOSE x \in InstId \ UsedInsts : TRUE
  <2>1. f \in StartFrame
    BY <1>3, <1>a, FrameOp DEF StartNext, At
  <2>2. i \notin UsedInsts
    BY <1>3 DEF StartNext
  <2>3. PICK w \in f.todo :
           /\ insts' = insts \cup {[id |-> i, wkf |-> w, res |-> f.res, state |-> "active"]}
           /\ Become(CreateInst(i, w, f.res) \o <<[f EXCEPT !.todo = @ \ {w}]>>)
    BY <1>3 DEF StartNext
  <2>4. items' = items /\ passed' = passed
    BY <1>3 DEF StartNext
  <2> HIDE DEF i
  <2>5. Lasting /\ Runs(i, w, insts')
    <3> DEFINE n == [id |-> i, wkf |-> w, res |-> f.res, state |-> "active"]
    <3>1. n.id = i /\ n.wkf = w /\ insts' = insts \cup {n}
      BY <2>3
    <3> HIDE DEF n
    <3> QED BY <2>2, <3>1, NewInst
  <2>6. Traced /\ Recorded
    BY <2>4, OwnRows
  <2> DEFINE b == [f EXCEPT !.todo = @ \ {w}]
  <2>7. b.op = "start"
    BY <2>1 DEF StartFrame
  <2> HIDE DEF b
  <2>8. Fits(b, insts', items')
    BY <2>7, PlainFits
  <2>9. PICK new : Adds(new \cup {b}) /\ Suits(new)
    BY <1>0, <1>a, <2>3, <2>5, PushedInst DEF b
  <2>10. Suits(new \cup {b})
    BY <2>8, <2>9 DEF Suits
  <2> QED BY <1>0, <2>5, <2>6, <2>9, <2>10, OwnStep
<1> QED BY <1>1, <1>2, <1>3

\* What the top frame becomes when it goes on with its item.
Plain(g) == g.op \in {"loop", "start", "clear"}
Like(g) == /\ g.op = "process"
           /\ g.item.id = Head(stack).item.id
           /\ g.item.act = Head(stack).item.act
           /\ g.item.inst = Head(stack).item.inst
           /\ g.child = Head(stack).child

\* Such frames fit when the one they take over from did.
LEMMA OwnOnwards ==
    ASSUME OwnInv, TypeOK', stack # <<>>, Lasting, Traced, Recorded, saved' = saved,
           Head(stack).op = "process", NEW new, Adds(new),
           \A g \in new : Plain(g) \/ Like(g)
    PROVE  OwnInv'
<1> DEFINE f == Head(stack)
<1>1. f \in Frames /\ Fits(f, insts, items)
  BY OwnTop
<1>2. Fits(f, insts', items')
  BY <1>1, StillFits
<1>3. Suits(new)
  <2> SUFFICES ASSUME NEW g \in new PROVE Fits(g, insts', items')
    BY DEF Suits
  <2>1. CASE Plain(g)
    BY <2>1, PlainFits DEF Plain
  <2>2. CASE Like(g)
    BY <1>2, <2>2, GoesOn DEF Like
  <2> QED BY <2>1, <2>2
<1> QED BY <1>3, OwnStep

\* _execute, up to the call of the action.
LEMMA OwnExecute ==
    ASSUME OwnInv, TypeOK',
           SendSignal \/ ExecuteDummy \/ ExecuteFunction \/ ExecuteStopAll
           \/ ExecuteSubflow \/ ExecuteSubflowNew
    PROVE  OwnInv'
<1> DEFINE f == Head(stack)
<1>0. stack # <<>> /\ f.op = "process" /\ saved' = saved
  BY DEF SendSignal, ExecuteDummy, ExecuteFunction, ExecuteStopAll, ExecuteSubflow,
     ExecuteSubflowNew, AtPc, At
<1>a. /\ TypeOK /\ f \in Frame /\ f \in Frames /\ Fits(f, insts, items)
      /\ UNCHANGED tables => Lasting /\ Traced /\ Recorded
  BY <1>0, OwnTop
<1>b. f \in ProcessFrame
  BY <1>0, <1>a, FrameOp
<1>c. ASSUME NEW calls, Become(<<Running(f, calls)>>), Lasting, Traced, Recorded
      PROVE  OwnInv'
  <2> DEFINE g == Running(f, calls)
  <2>1. Like(g)
    BY <1>b DEF Running, ProcessFrame, Item, Like
  <2>2. Adds({g})
    BY <1>0, <1>a, <1>c, Pushed
  <2> HIDE DEF g
  <2>3. \A h \in {g} : Plain(h) \/ Like(h)
    BY <2>1
  <2> QED BY <1>0, <1>c, <2>2, <2>3, OwnOnwards
<1>1. CASE SendSignal
  <2> DEFINE l == Loop({CallOn(n.id, n.res, SignalSend[f.item.act], TRUE) :
                        n \in Waiting(f.item.inst)})
             g == [f EXCEPT !.pc = "execute"]
  <2>1. Become(<<l, g>>) /\ UNCHANGED tables
    BY <1>1 DEF SendSignal
  <2>2. Plain(l)
    BY DEF Loop, Plain
  <2>3. Like(g)
    BY <1>b DEF ProcessFrame, Like
  <2> HIDE DEF l, g
  <2>4. Adds({l, g})
    BY <1>0, <1>a, <2>1, Pushed
  <2>5. \A h \in {l, g} : Plain(h) \/ Like(h)
    BY <2>2, <2>3
  <2>6. Lasting /\ Traced /\ Recorded
    BY <1>a, <2>1
  <2> QED BY <1>0, <2>4, <2>5, <2>6, OwnOnwards
<1>2. CASE ExecuteDummy
  <2> DEFINE g == [f EXCEPT !.pc = "split", !.item.state = "complete"]
  <2>1. /\ Become(<<g>>) /\ SetState(f.item.id, "complete")
        /\ insts' = insts /\ passed' = passed
    BY <1>2 DEF ExecuteDummy
  <2>2. Like(g)
    BY <1>b DEF ProcessFrame, Item, Like
  <2>3. Lasting /\ Traced /\ Recorded
    BY <2>1, OwnRows
  <2> HIDE DEF g
  <2>4. Adds({g})
    BY <1>0, <1>a, <2>1, Pushed
  <2>5. \A h \in {g} : Plain(h) \/ Like(h)
    BY <2>2
  <2> QED BY <1>0, <2>3, <2>4, <2>5, OwnOnwards
<1>3. CASE ExecuteFunction \/ ExecuteSubflow
  <2>1. /\ SetState(f.item.id, "running") /\ insts' = insts /\ passed' = passed
        /\ \E calls : Become(<<Running(f, calls)>>)
    BY <1>3 DEF ExecuteFunction, ExecuteSubflow, BeginAction
  <2>2. Lasting /\ Traced /\ Recorded
    BY <2>1, OwnRows
  <2> QED BY <1>c, <2>1, <2>2
<1>4. CASE ExecuteStopAll
  <2> DEFINE gone == {w \in ItemsOf(f.item.inst) : w.id # f.item.id}
  <2>1. /\ items' = {IF w.id = f.item.id THEN [w EXCEPT !.state = "running"] ELSE w :
                     w \in items \ gone}
        /\ insts' = insts /\ passed' = passed
        /\ \E calls : Become(<<Running(f, calls)>>)
    BY <1>4 DEF ExecuteStopAll
  <2> HIDE DEF gone
  <2>2. Traced
    <3> SUFFICES ASSUME NEW w \in items' PROVE \E v \in items : Stays(w, v)
      BY DEF Traced
    <3>1. PICK v \in items : w = IF v.id = f.item.id THEN [v EXCEPT !.state = "running"] ELSE v
      BY <2>1
    <3>2. w.id = v.id /\ w.act = v.act /\ w.inst = v.inst /\ w.sub = v.sub
      BY <1>a, <3>1 DEF TypeOK, Item
    <3> QED BY <3>2 DEF Stays
  <2>3. Lasting /\ Recorded
    BY <2>1, OwnRows
  <2> QED BY <1>c, <2>1, <2>2, <2>3
<1>5. CASE ExecuteSubflowNew
  <2> DEFINE i == CHOOSE x \in InstId \ UsedInsts : TRUE
             w == SubWkf[f.item.act]
             g == [Running(f, <<>>) EXCEPT !.child = i]
  <2>1. i \notin UsedInsts
    BY <1>5 DEF ExecuteSubflowNew
  <2>2. /\ SetState(f.item.id, "running") /\ passed' = passed
        /\ insts' = insts \cup {[id |-> i, wkf |-> w, res |-> f.call.res, state |-> "active"]}
        /\ Become(CreateInst(i, w, f.call.res) \o <<g>>)
    BY <1>5 DEF ExecuteSubflowNew
  <2>3. /\ g.op = "process" /\ g.child = i /\ g.item.id = f.item.id
        /\ g.item.act = f.item.act /\ g.item.inst = f.item.inst
    BY <1>b DEF Running, ProcessFrame, Item
  <2> HIDE DEF i
  <2>4. Lasting /\ Runs(i, w, insts')
    <3> DEFINE n == [id |-> i, wkf |-> w, res |-> f.call.res, state |-> "active"]
    <3>1. n.id = i /\ n.wkf = w /\ insts' = insts \cup {n}
      BY <2>2
    <3> HIDE DEF n
    <3> QED BY <2>1, <3>1, NewInst
  <2>5. Traced /\ Recorded
    BY <2>2, OwnRows
  <2> HIDE DEF g
  <2>6. Fits(f, insts', items')
    BY <1>a, <2>4, <2>5, StillFits
  <2>7. Fits(g, insts', items')
    BY <1>0, <2>3, <2>4, <2>6 DEF Fits, OwnItem, Alike
  <2> HIDE DEF w
  <2>9. PICK new : Adds(new \cup {g}) /\ Suits(new)
    BY <1>0, <1>a, <2>2, <2>4, PushedInst
  <2>10. Suits(new \cup {g})
    BY <2>7, <2>9 DEF Suits
  <2> QED BY <1>0, <2>4, <2>5, <2>9, <2>10, OwnStep
<1> QED BY <1>1, <1>2, <1>3, <1>4, <1>5

\* The calls of an action, and its return.
LEMMA OwnAction ==
    ASSUME OwnInv, TypeOK',
           ActionWrite \/ ActionNew \/ ActionFind \/ ActionSignal \/ ActionTrigger
           \/ ActionEnd \/ ActionNoSubflow \/ ActionLink
    PROVE  OwnInv'
<1> DEFINE f == Head(stack)
<1>0. stack # <<>> /\ f.op = "process" /\ saved' = saved
  BY DEF ActionWrite, ActionNew, ActionFind, ActionSignal, ActionTrigger, ActionEnd,
     ActionNoSubflow, ActionLink, NextCall, AtPc, At
<1>a. /\ TypeOK /\ f \in Frame /\ f \in Frames /\ Fits(f, insts, items)
      /\ UNCHANGED tables => Lasting /\ Traced /\ Recorded
  BY <1>0, OwnTop
<1>b. f \in ProcessFrame
  BY <1>0, <1>a, FrameOp
<1>c. UNCHANGED <<insts, items, passed>> => Lasting /\ Traced /\ Recorded
  BY OwnRows
<1>d. /\ Like(Called(f))
      /\ \A r : Like([Called(f) EXCEPT !.made = r])
  BY <1>b DEF Called, ProcessFrame, Like
<1>1. ASSUME NEW a, NEW b, Become(<<a, b>>), Plain(a), Like(b),
             UNCHANGED <<insts, items, passed>>
      PROVE  OwnInv'
  <2>1. Adds({a, b})
    BY <1>0, <1>a, <1>1, Pushed
  <2>2. Lasting /\ Traced /\ Recorded
    BY <1>1, <1>c
  <2>3. \A h \in {a, b} : Plain(h) \/ Like(h)
    BY <1>1
  <2> QED BY <1>0, <2>1, <2>2, <2>3, OwnOnwards
<1>2. ASSUME NEW a, Become(<<a>>), Like(a), Lasting, Traced, Recorded
      PROVE  OwnInv'
  <2>1. Adds({a})
    BY <1>0, <1>a, <1>2, Pushed
  <2>2. \A h \in {a} : Plain(h) \/ Like(h)
    BY <1>2
  <2> QED BY <1>0, <1>2, <2>1, <2>2, OwnOnwards
<1>3. \A rows, s : Plain(Updates(rows)) /\ Plain(Validates(rows, s))
  BY DEF Updates, Validates, Loop, Plain
<1>4. CASE ActionWrite \/ ActionSignal \/ ActionTrigger
  <2>1. /\ UNCHANGED <<insts, items, passed>>
        /\ \/ \E rows : Become(<<Updates(rows), Called(f)>>)
           \/ \E rows, s : Become(<<Validates(rows, s), Called(f)>>)
    BY <1>4 DEF ActionWrite, ActionSignal, ActionTrigger, tables
  <2> QED BY <1>1, <1>3, <1>d, <2>1
<1>5. CASE ActionNew
  <2>1. PICK r : Become(<<Starting(r), [Called(f) EXCEPT !.made = r]>>)
    BY <1>5 DEF ActionNew
  <2>2. Plain(Starting(r)) /\ UNCHANGED <<insts, items, passed>>
    BY <1>5 DEF Starting, ActionNew, Plain
  <2> QED BY <1>1, <1>d, <2>1, <2>2
<1>6. CASE ActionFind
  <2>1. PICK r : Become(<<[Called(f) EXCEPT !.made = r]>>)
    BY <1>6 DEF ActionFind
  <2>2. UNCHANGED <<insts, items, passed>>
    BY <1>6 DEF ActionFind, tables
  <2> QED BY <1>2, <1>c, <1>d, <2>1, <2>2
<1>7. CASE ActionEnd
  <2> DEFINE g == [f EXCEPT !.pc = "split", !.item.state = "complete"]
  <2>1. /\ Become(<<g>>) /\ SetState(f.item.id, "complete")
        /\ insts' = insts /\ passed' = passed
    BY <1>7 DEF ActionEnd
  <2>2. Like(g)
    BY <1>b DEF ProcessFrame, Item, Like
  <2>3. Lasting /\ Traced /\ Recorded
    BY <2>1, OwnRows
  <2> QED BY <1>2, <2>1, <2>2, <2>3
<1>8. CASE ActionNoSubflow
  <2>1. /\ Become(<<>>) /\ items' \subseteq items /\ insts' = insts /\ passed' = passed
    BY <1>8 DEF ActionNoSubflow, DeleteItems
  <2>2. Adds({})
    BY <1>0, <1>a, <2>1, Pushed
  <2>3. Lasting /\ Traced /\ Recorded
    BY <2>1, OwnRows
  <2> QED BY <1>0, <2>2, <2>3, NoneSuit, OwnStep
<1>9. CASE ActionLink
  <2> DEFINE g(n) == [f EXCEPT !.pc = "split", !.item.sub = n.id,
                               !.item.state = IF n.state = "complete" THEN "complete" ELSE @]
             linked(w, n) == IF w.id # f.item.id THEN w
                             ELSE IF n.state = "complete"
                             THEN [w EXCEPT !.sub = n.id, !.state = "complete"]
                             ELSE [w EXCEPT !.sub = n.id]
  <2>1. PICK n \in insts :
           /\ IF f.child # NoInst THEN n.id = f.child
              ELSE n.res = f.made /\ n.wkf = SubWkf[f.item.act]
           /\ items' = {linked(w, n) : w \in items}
           /\ Become(<<g(n)>>)
    BY <1>9 DEF ActionLink
  <2>2. insts' = insts /\ passed' = passed
    BY <1>9 DEF ActionLink
  <2>3. Runs(n.id, SubWkf[f.item.act], insts')
    BY <1>0, <1>a, <2>1, <2>2 DEF Fits, Runs
  <2>4. Traced
    <3> SUFFICES ASSUME NEW w \in items' PROVE \E v \in items : Stays(w, v)
      BY DEF Traced
    <3>1. PICK v \in items : w = linked(v, n)
      BY <2>1
    <3>2. v \in Item
      BY <1>a DEF TypeOK
    <3>3. CASE v.id # f.item.id
      BY <3>1, <3>3 DEF Stays
    <3>4. CASE v.id = f.item.id
      <4>1. w.id = v.id /\ w.act = v.act /\ w.inst = v.inst /\ w.sub = n.id
        BY <3>1, <3>2, <3>4 DEF Item
      <4>2. v.act = f.item.act
        BY <1>0, <1>a, <3>4 DEF Fits, OwnItem, Alike
      <4> QED BY <2>3, <4>1, <4>2 DEF Stays
    <3> QED BY <3>3, <3>4
  <2>5. Lasting /\ Recorded
    BY <2>2, OwnRows
  <2>6. Like(g(n))
    BY <1>b DEF ProcessFrame, Item, Like
  <2> QED BY <1>2, <2>1, <2>4, <2>5, <2>6
<1> QED BY <1>4, <1>5, <1>6, <1>7, <1>8, <1>9

\* _split_test and _join_test: a transition leaves from and leads to activities
\* of one workflow.
LEMMA OwnSplit ==
    ASSUME OwnInv, TypeOK', SplitFire \/ SplitStay \/ JoinNext \/ JoinClear \/ JoinEnd
    PROVE  OwnInv'
<1> DEFINE f == Head(stack)
<1>0. stack # <<>> /\ saved' = saved
  BY DEF SplitFire, SplitStay, JoinNext, JoinClear, JoinEnd, AtPc, At
<1>a. /\ TypeOK /\ f \in Frame /\ f \in Frames /\ Fits(f, insts, items)
  BY <1>0, OwnTop
<1>1. CASE SplitFire
  <2>1. f \in ProcessFrame /\ f.op = "process"
    BY <1>1, <1>a, FrameOp DEF SplitFire, AtPc, At
  <2> DEFINE i == f.item.inst
             g(fired) == [op |-> "join", call |-> [f.call EXCEPT !.inst = i], todo |-> fired]
  <2>2. PICK fired \in Fireable(f) \ {{}} :
           passed' = passed \cup (fired \X {i}) /\ Become(<<g(fired)>>)
    BY <1>1 DEF SplitFire
  <2>3. items' \subseteq items /\ insts' = insts
    BY <1>1 DEF SplitFire, DeleteItems
  <2>4. fired \subseteq FromAct(f.item.act)
    BY <2>2, FireableFrom
  <2>5. \A t \in fired : Runs(i, ActWkf[From[t]], insts')
    BY <1>a, <2>1, <2>3, <2>4 DEF Fits, OwnItem, FromAct
  <2>6. Recorded
    BY <2>2, <2>5 DEF Recorded
  <2>7. Lasting /\ Traced
    BY <2>3, OwnRows
  <2>8. g(fired).op = "join" /\ g(fired).call.inst = i /\ g(fired).todo = fired
    BY <2>1 DEF ProcessFrame, Target
  <2> HIDE DEF g
  <2>9. Adds({g(fired)})
    BY <1>0, <1>a, <2>2, Pushed
  <2>10. Suits({g(fired)})
    BY <2>5, <2>8 DEF Fits, Suits
  <2> QED BY <1>0, <2>6, <2>7, <2>9, <2>10, OwnStep
<1>2. CASE SplitStay \/ JoinClear \/ JoinEnd
  <2>1. /\ Become(<<>>) /\ insts' = insts /\ items' = items /\ passed' \subseteq passed
    BY <1>2 DEF SplitStay, JoinClear, JoinEnd, tables
  <2>2. Adds({})
    BY <1>0, <1>a, <2>1, Pushed
  <2>3. Lasting /\ Traced /\ Recorded
    BY <2>1, OwnRows
  <2> QED BY <1>0, <2>2, <2>3, NoneSuit, OwnStep
<1>3. CASE JoinNext
  <2>1. f \in JoinFrame /\ f.op = "join"
    BY <1>3, <1>a, FrameOp DEF JoinNext, At
  <2> DEFINE i == f.call.inst
             next(t) == Creating([f.call EXCEPT !.sig = NoSig, !.force = FALSE], {To[t]})
             clear(t) == [op |-> "clear", inst |-> i, trans |-> t]
             less(t) == [f EXCEPT !.todo = @ \ {t}]
  <2>2. PICK t \in f.todo :
           /\ \/ Become(<<next(t), clear(t), less(t)>>)
              \/ Become(<<next(t), less(t)>>)
              \/ Become(<<less(t)>>)
           /\ passed' \subseteq passed
    BY <1>3 DEF JoinNext
  <2>3. insts' = insts /\ items' = items
    BY <1>3 DEF JoinNext
  <2>4. Lasting /\ Traced /\ Recorded
    BY <2>2, <2>3, OwnRows
  <2>5. t \in Trans /\ f.call \in Target
    BY <2>1 DEF JoinFrame
  <2>6. ActWkf[From[t]] = ActWkf[To[t]]
    BY <2>5, ConstantsAssumption
  <2>7. next(t).op = "create" /\ next(t).call.inst = i /\ next(t).todo = {To[t]}
    BY <2>5 DEF Creating, Target
  <2>8. less(t).op = "join" /\ less(t).call = f.call /\ less(t).todo \subseteq f.todo
    BY <2>1 DEF JoinFrame
  <2>9. clear(t).op = "clear"
    OBVIOUS
  <2> HIDE DEF next, less, clear
  <2>10. Fits(next(t), insts', items')
    BY <1>a, <2>1, <2>3, <2>6, <2>7 DEF Fits
  <2>11. Fits(less(t), insts', items')
    BY <1>a, <2>1, <2>3, <2>8 DEF Fits
  <2>12. Fits(clear(t), insts', items')
    BY <2>9, PlainFits
  <2>13. Adds({next(t), clear(t), less(t)})
    <3>1. ASSUME Become(<<next(t), clear(t), less(t)>>)
          PROVE  Adds({next(t), clear(t), less(t)})
      BY <1>0, <1>a, <3>1, Pushed
    <3>2. ASSUME Become(<<next(t), less(t)>>)
          PROVE  Adds({next(t), less(t)})
      BY <1>0, <1>a, <3>2, Pushed
    <3>3. ASSUME Become(<<less(t)>>) PROVE Adds({less(t)})
      BY <1>0, <1>a, <3>3, Pushed
    <3> QED BY <2>2, <3>1, <3>2, <3>3 DEF Adds
  <2>14. Suits({next(t), clear(t), less(t)})
    BY <2>10, <2>11, <2>12 DEF Suits
  <2> QED BY <1>0, <2>4, <2>13, <2>14, OwnStep
<1> QED BY <1>1, <1>2, <1>3

\* unlink takes with an instance its items, those that wait for it and the
\* transitions recorded for it.
LEMMA OwnDelete ==
    ASSUME OwnInv, TypeOK', NEW r, TrgDelete(r)
    PROVE  OwnInv'
<1> DEFINE dead == {n.id : n \in InstsOn(r)}
<1>1. /\ stack = <<>> /\ stack' = stack /\ saved' = saved
      /\ insts' = insts \ InstsOn(r)
      /\ items' = items \ {w \in items : w.inst \in dead \/ w.sub \in dead}
      /\ passed' = {p \in passed : p[2] \notin dead}
  BY DEF TrgDelete, Ready, DeleteItems
<1>2. ASSUME NEW i, i \notin dead, NEW w, Runs(i, w, insts) PROVE Runs(i, w, insts')
  BY <1>1, <1>2 DEF Runs
<1> HIDE DEF dead
<1>3. \A w \in items' : /\ OwnItem(w, insts', items')
                        /\ w.sub # NoInst => Runs(w.sub, SubWkf[w.act], insts')
  BY <1>1, <1>2 DEF OwnInv, Owned, Now, OwnItem, Alike
<1>4. \A p \in passed' : Runs(p[2], ActWkf[From[p[1]]], insts')
  BY <1>1, <1>2 DEF OwnInv, Owned, Now
<1>5. OneWkf(insts')
  BY <1>1 DEF OwnInv, Owned, Now, OneWkf
<1>6. Owned(Now)'
  BY <1>3, <1>4, <1>5 DEF Owned, Now
<1>7. Owned(saved)'
  BY <1>1 DEF OwnInv, Owned, OneWkf, OwnItem, Runs, Alike
<1>8. Frames' = {}
  BY <1>1 DEF Frames
<1> QED BY <1>6, <1>7, <1>8 DEF OwnInv

\* trg_redirect hands an item over to an instance of the same workflow.
LEMMA OwnRedirect ==
    ASSUME OwnInv, TypeOK', NEW r, NEW new, TrgRedirect(r, new)
    PROVE  OwnInv'
<1> DEFINE S(w) == Successors(r, new, w.sub)
           heir(w) == CHOOSE n \in S(w) : TRUE
           heired(w) == IF S(w) = {} THEN w ELSE [w EXCEPT !.sub = heir(w).id]
<1>1. /\ stack' = stack /\ saved' = saved /\ insts' = insts /\ passed' = passed
      /\ items' = {heired(w) : w \in items}
  BY DEF TrgRedirect
<1>2. Traced
  <2> SUFFICES ASSUME NEW w \in items' PROVE \E v \in items : Stays(w, v)
    BY DEF Traced
  <2>1. PICK v \in items : w = heired(v)
    BY <1>1
  <2>2. v \in Item
    BY DEF OwnInv, TypeOK
  <2>3. CASE S(v) = {}
    BY <2>1, <2>3 DEF Stays
  <2>4. CASE S(v) # {}
    <3>1. heir(v) \in S(v)
      BY <2>4
    <3> DEFINE n == heir(v)
    <3> HIDE DEF n
    <3>2. PICK o \in insts : o.id = v.sub /\ o.wkf = n.wkf
      BY <3>1 DEF Successors, InstsOn, n
    <3>3. n \in insts
      BY <3>1 DEF Successors, ActiveOn, InstsOn, n
    <3>4. v.sub # NoInst
      BY <3>2, ConstantsAssumption DEF OwnInv, TypeOK, Inst
    <3>5. Runs(v.sub, SubWkf[v.act], insts) /\ OneWkf(insts)
      BY <3>4 DEF OwnInv, Owned, Now
    <3>6. n.wkf = SubWkf[v.act]
      BY <3>2, <3>5 DEF Runs, OneWkf
    <3>7. w.id = v.id /\ w.act = v.act /\ w.inst = v.inst /\ w.sub = n.id
      BY <2>1, <2>2, <2>4 DEF Item, n
    <3> QED BY <1>1, <3>3, <3>6, <3>7 DEF Stays, Runs
  <2> QED BY <2>3, <2>4
<1>3. Lasting /\ Recorded
  BY <1>1, OwnRows
<1>4. Adds({})
  BY <1>1 DEF Frames, Adds
<1> QED BY <1>1, <1>2, <1>3, <1>4, NoneSuit, OwnStep

\* Requests, commit and rollback.
LEMMA OwnRequest ==
    ASSUME OwnInv, TypeOK', Request \/ Commit \/ Rollback
    PROVE  OwnInv'
<1>1. ASSUME NEW a, a.op \in {"loop", "start"}, stack' = <<a>>,
             UNCHANGED <<insts, items, passed>>, saved' = saved
      PROVE  OwnInv'
  <2>1. Adds({a})
    BY <1>1 DEF Frames, Adds
  <2>2. Suits({a})
    BY <1>1, PlainFits DEF Suits
  <2>3. Lasting /\ Traced /\ Recorded
    BY <1>1, OwnRows
  <2> QED BY <1>1, <2>1, <2>2, <2>3, OwnStep
<1>2. \A rows, s : Updates(rows).op = "loop" /\ Validates(rows, s).op = "loop"
  BY DEF Updates, Validates, Loop
<1>3. \A r : Starting(r).op = "start"
  BY DEF Starting
<1>4. CASE \E r \in Res : TrgCreate(r)
  BY <1>1, <1>3, <1>4 DEF TrgCreate
<1>5. ASSUME NEW r, NEW d, TrgWrite(r, d) \/ TrgValidate(r, d) \/ TrgTrigger(r, d)
      PROVE  OwnInv'
  BY <1>1, <1>2, <1>5 DEF TrgWrite, TrgValidate, TrgTrigger, tables
<1>6. CASE Commit
  <2>1. UNCHANGED <<insts, items, passed, stack>> /\ saved' = Now
    BY <1>6 DEF Commit, tables
  <2>2. Owned(Now)' /\ Owned(saved)'
    BY <2>1 DEF OwnInv, Owned, Now, OneWkf, OwnItem, Runs, Alike
  <2>3. \A f \in Frames' : Fits(f, insts', items')
    BY <2>1 DEF OwnInv, Frames
  <2> QED BY <2>2, <2>3 DEF OwnInv, Fits, OwnItem, Runs, Alike
<1>7. CASE Rollback
  <2>1. /\ insts' = saved.insts /\ items' = saved.items /\ passed' = saved.passed
        /\ saved' = saved /\ stack' = <<>>
    BY <1>7 DEF Rollback
  <2>2. Owned(Now)' /\ Owned(saved)'
    BY <2>1 DEF OwnInv, Owned, Now, OneWkf, OwnItem, Runs, Alike
  <2>3. Frames' = {}
    BY <2>1 DEF Frames
  <2> QED BY <2>2, <2>3 DEF OwnInv
<1> QED BY <1>4, <1>5, <1>6, <1>7, OwnDelete, OwnRedirect DEF Request

\* Every step keeps the rows in their workflows.
LEMMA OwnNext == OwnInv /\ [Next]_vars => OwnInv'
<1> SUFFICES ASSUME OwnInv, [Next]_vars PROVE OwnInv'
  OBVIOUS
<1>1. TypeOK'
  BY TypeStep DEF OwnInv
<1>2. CASE Engine
  BY <1>1, <1>2, OwnLoops, OwnCreate, OwnExecute, OwnAction, OwnSplit DEF Engine
<1>3. CASE Request \/ Commit \/ Rollback
  BY <1>1, <1>3, OwnRequest
<1>4. CASE UNCHANGED vars
  <2>1. UNCHANGED tables /\ saved' = saved /\ stack' = stack
    BY <1>4 DEF vars, tables
  <2>2. Lasting /\ Traced /\ Recorded
    BY <2>1, OwnRows DEF tables
  <2>3. Adds({})
    BY <2>1 DEF Frames, Adds
  <2> QED BY <1>1, <2>1, <2>2, <2>3, NoneSuit, OwnStep
<1> QED BY <1>2, <1>3, <1>4 DEF Next

\* Empty tables hold no stray row.
LEMMA OwnInit == Init => OwnInv
<1> SUFFICES ASSUME Init PROVE OwnInv
  OBVIOUS
<1>1. insts = {} /\ items = {} /\ passed = {} /\ saved = Now /\ stack = <<>>
  BY DEF Init
<1>2. Owned(Now)
  BY <1>1 DEF Owned, Now, OneWkf
<1>3. Frames = {}
  BY <1>1 DEF Frames
<1> QED BY <1>1, <1>2, <1>3, TypeInit DEF OwnInv

\* The invariant holds what OwnWorkflow says.
LEMMA OwnImplies == OwnInv => OwnWorkflow
BY DEF OwnInv, Owned, Now, OwnItem, Runs, OwnWorkflow

\* Whatever the workflows and whatever dictionaries the nested calls hold, a
\* work item and a recorded transition stay with an instance of their own
\* workflow, and an item waits only for an instance of the workflow its
\* activity names.
THEOREM OwnWorkflowHolds == Spec => []OwnWorkflow
BY OwnInit, OwnNext, OwnImplies, PTL DEF Spec

-----------------------------------------------------------------------------
(* Workflows of one token.  Of the workflows the documents define, all but *)
(* those of the purchase and the sale order split no token: one activity   *)
(* starts them, at most one transition leaves an activity at a time, and   *)
(* no activity signals the instances that wait for its own before it runs. *)
(* An instance of such a workflow never has two items, whatever the other  *)
(* workflows are.                                                          *)

ActsOf(k) == {a \in Act : ActWkf[a] = k}

Sequential(k) ==
    /\ \A a, b \in StartActs(k) : a = b
    /\ \A a \in ActsOf(k) :
          /\ SignalSend[a] = NoSig
          /\ SplitMode[a] = "XOR" \/ \A s, t \in FromAct(a) : s = t

\* The rows of the instances of such workflows.
Singles(rows) == {n \in rows : Sequential(n.wkf)}

\* A process call on an item of the instance i, and a frame that is to give i
\* an item.
Holds(f, i) == f.op = "process" /\ f.item.inst = i
Feeds(f, i) == f.op \in {"create", "join"} /\ f.call.inst = i

\* A frame that may move the item of i though another call runs its action:
\* the validate of i is forced, or the frame executes the item itself.
Drives(f, i) ==
    \/ f.op = "loop" /\ \E c \in f.todo : c.inst = i /\ c.force
    \/ f.op = "scan" /\ f.call.inst = i /\ f.call.force
    \/ Holds(f, i) /\ (f.call.force \/ f.pc # "split")

\* What the top frame knows of the items of i: the rows it has yet to process
\* are there, its dictionary is the row, and who gives i an item finds none.
Leading(f, i, its) ==
    /\ (f.op = "scan" /\ f.call.inst = i) => f.todo \subseteq its
    /\ (Feeds(f, i) /\ f.todo # {}) => /\ \A w \in its : w.inst # i
                                       /\ \A x, y \in f.todo : x = y
    /\ Holds(f, i) => /\ f.item \in its
                      /\ f.pc # "send"
                      /\ f.pc = "execute" => f.item.state = "active"
                      /\ f.pc = "action" => f.item.state = "running" /\ f.item.sub = NoInst

\* A frame under the top holds no row of i but that of the action it runs.
Resting(f, i, its) ==
    /\ (f.op = "scan" /\ f.call.inst = i) => f.todo = {}
    /\ Feeds(f, i) => f.todo = {}
    /\ Holds(f, i) => /\ f.item \in its
                      /\ f.pc = "action" /\ f.item.state = "running" /\ f.item.sub = NoInst

\* No frame above a call on the item of i drives it.
Apart(i, s) == \A k, l \in DOMAIN s : k < l /\ Holds(s[l], i) => ~Drives(s[k], i)

\* i has one item at most, which waits for no subflow before it is executed.
OneRow(i, its) ==
    /\ \A v, w \in its : v.inst = i /\ w.inst = i => v = w
    /\ \A w \in its : w.inst = i /\ w.state = "active" => w.sub = NoInst

Alone(i) ==
    /\ OneRow(i, items)
    /\ stack # <<>> => /\ Leading(Head(stack), i, items)
                       /\ \A f \in Elems(Tail(stack)) : Resting(f, i, items)
    /\ Apart(i, stack)

AloneInv ==
    /\ \A n \in Singles(insts) : Alone(n.id)
    /\ \A n \in Singles(saved.insts) : OneRow(n.id, saved.items)

\* A frame under the top is fit to be the top.
LEMMA RestingLeads ==
    ASSUME NEW f, NEW i, NEW its, Resting(f, i, its)
    PROVE  Leading(f, i, its)
BY DEF Resting, Leading, Feeds, Holds

\* Nothing above a call of i drives i when two stacks are put together, if no
\* frame of the upper one does.
LEMMA ApartConcat ==
    ASSUME NEW i, NEW S, NEW s \in Seq(S), NEW r \in Seq(S), Apart(i, s), Apart(i, r),
           \A g \in Elems(s), h \in Elems(r) : Holds(h, i) => ~Drives(g, i)
    PROVE  Apart(i, s \o r)
<1> DEFINE t == s \o r
<1> SUFFICES ASSUME NEW k \in DOMAIN t, NEW l \in DOMAIN t, k < l, Holds(t[l], i)
             PROVE  ~Drives(t[k], i)
  BY DEF Apart
<1>1. k \in Nat /\ l \in Nat /\ Len(s) \in Nat /\ DOMAIN s = 1 .. Len(s)
      /\ DOMAIN r = 1 .. Len(r) /\ DOMAIN t = 1 .. Len(s) + Len(r) /\ Len(r) \in Nat
  OBVIOUS
<1>2. CASE l <= Len(s)
  <2>1. k \in DOMAIN s /\ l \in DOMAIN s /\ t[k] = s[k] /\ t[l] = s[l]
    BY <1>1, <1>2
  <2> QED BY <2>1 DEF Apart
<1>3. CASE k > Len(s)
  <2>1. k - Len(s) \in DOMAIN r /\ l - Len(s) \in DOMAIN r
        /\ t[k] = r[k - Len(s)] /\ t[l] = r[l - Len(s)]
    BY <1>1, <1>3
  <2>2. k - Len(s) < l - Len(s)
    BY <1>1
  <2> QED BY <2>1, <2>2 DEF Apart
<1>4. CASE k <= Len(s) /\ l > Len(s)
  <2>1. k \in DOMAIN s /\ t[k] = s[k] /\ l - Len(s) \in DOMAIN r /\ t[l] = r[l - Len(s)]
    BY <1>1, <1>4
  <2> QED BY <2>1 DEF Elems
<1> QED BY <1>1, <1>2, <1>3, <1>4

\* What is apart in a stack is apart under its top, from the top too.
LEMMA ApartTail ==
    ASSUME NEW i, NEW S, NEW s \in Seq(S), s # <<>>, Apart(i, s)
    PROVE  /\ Apart(i, Tail(s))
           /\ \A h \in Elems(Tail(s)) : Holds(h, i) => ~Drives(Head(s), i)
<1>1. /\ Head(s) = s[1] /\ 1 \in DOMAIN s
      /\ \A k \in DOMAIN Tail(s) : k \in Nat /\ k + 1 \in DOMAIN s /\ Tail(s)[k] = s[k + 1]
                                   /\ 1 < k + 1
  OBVIOUS
<1>2. Apart(i, Tail(s))
  BY <1>1 DEF Apart
<1>3. \A h \in Elems(Tail(s)) : Holds(h, i) => ~Drives(Head(s), i)
  BY <1>1 DEF Apart, Elems
<1> QED BY <1>2, <1>3

\* A frame that drives i stands on no call of i.
Clear(g, i) == Drives(g, i) => \A h \in Elems(Tail(stack)) : ~Holds(h, i)

\* The top frame of an instance of one token is clear.
LEMMA TopClear ==
    ASSUME TypeOK, stack # <<>>, NEW i, Alone(i)
    PROVE  Clear(Head(stack), i) /\ Apart(i, Tail(stack))
BY ApartTail DEF TypeOK, Alone, Clear

\* A step that replaces the top by frames that fit leaves i alone.
LEMMA AloneStep ==
    ASSUME TypeOK, stack # <<>>, NEW i, Alone(i), OneRow(i, items'),
           \A h \in Elems(Tail(stack)) : Resting(h, i, items'),
           NEW S, NEW s \in Seq(S), Become(s), Apart(i, s), \A g \in Elems(s) : Clear(g, i),
           s # <<>> => /\ Leading(Head(s), i, items')
                       /\ \A g \in Elems(Tail(s)) : Resting(g, i, items')
    PROVE  Alone(i)'
<1> DEFINE r == Tail(stack)
           T == S \cup Frame
<1>1. stack \in Seq(Frame) /\ r \in Seq(Frame)
  BY HeadTail DEF TypeOK
<1>2. r \in Seq(T) /\ s \in Seq(T)
  BY <1>1
<1>3. stack' = s \o r
  BY DEF Become
<1>4. Apart(i, r)
  BY TopClear
<1>5. \A h \in Elems(r) : Resting(h, i, items')
  OBVIOUS
<1>6. \A g \in Elems(s), h \in Elems(r) : Holds(h, i) => ~Drives(g, i)
  BY DEF Clear
<1> HIDE DEF r, T
<1>7. Apart(i, stack')
  BY <1>2, <1>3, <1>4, <1>6, ApartConcat
<1>8. ASSUME stack' # <<>>
      PROVE  Leading(Head(stack'), i, items') /\ \A h \in Elems(Tail(stack')) : Resting(h, i, items')
  <2>1. CASE s = <<>>
    <3>1. stack' = r
      BY <1>2, <1>3, <2>1
    <3>2. Head(r) \in Elems(r) /\ Elems(Tail(r)) \subseteq Elems(r)
      BY <1>2, <1>8, <3>1, HeadTail
    <3> QED BY <1>5, <3>1, <3>2, RestingLeads
  <2>2. CASE s # <<>>
    <3>1. Tail(s) \in Seq(T)
      BY <1>2, <2>2, HeadTail
    <3>2. Head(stack') = Head(s) /\ Tail(stack') = Tail(s) \o r
      BY <1>2, <1>3, <2>2
    <3>3. Elems(Tail(stack')) = Elems(Tail(s)) \cup Elems(r)
      BY <1>2, <3>1, <3>2, Concat
    <3> QED BY <1>5, <2>2, <3>2, <3>3
  <2> QED BY <2>1, <2>2
<1> QED BY <1>7, <1>8 DEF Alone

\* The same for the sequences the handlers push.
LEMMA AloneTuples ==
    ASSUME TypeOK, stack # <<>>, NEW i, Alone(i), OneRow(i, items'),
           \A h \in Elems(Tail(stack)) : Resting(h, i, items')
    PROVE  /\ Become(<<>>) => Alone(i)'
           /\ \A a : Become(<<a>>) /\ Leading(a, i, items') /\ Clear(a, i) => Alone(i)'
           /\ \A a, b : /\ Become(<<a, b>>)
                        /\ Leading(a, i, items') /\ Clear(a, i)
                        /\ Resting(b, i, items') /\ Clear(b, i)
                        /\ Holds(b, i) => ~Drives(a, i)
                        => Alone(i)'
           /\ \A a, b, c : /\ Become(<<a, b, c>>)
                           /\ Leading(a, i, items') /\ Clear(a, i)
                           /\ Resting(b, i, items') /\ Clear(b, i) /\ ~Holds(b, i)
                           /\ Resting(c, i, items') /\ Clear(c, i)
                           /\ Holds(c, i) => ~Drives(a, i) /\ ~Drives(b, i)
                           => Alone(i)'
<1>1. ASSUME Become(<<>>) PROVE Alone(i)'
  <2> DEFINE s == <<>>
  <2>1. s \in Seq({}) /\ Become(s) /\ Elems(s) = {} /\ s = <<>> /\ Apart(i, s)
    BY <1>1, SmallSeqs DEF Apart
  <2> HIDE DEF s
  <2> QED BY <2>1, AloneStep
<1>2. ASSUME NEW a, Become(<<a>>), Leading(a, i, items'), Clear(a, i) PROVE Alone(i)'
  <2> DEFINE s == <<a>>
  <2>1. s \in Seq({a}) /\ Become(s) /\ Elems(s) = {a}
    BY <1>2, SmallSeqs
  <2>2. Head(s) = a /\ Tail(s) = <<>> /\ Apart(i, s)
    BY DEF Apart
  <2>3. Elems(Tail(s)) = {}
    BY <2>2, SmallSeqs
  <2> HIDE DEF s
  <2> QED BY <1>2, <2>1, <2>2, <2>3, AloneStep
<1>3. ASSUME NEW a, NEW b, Become(<<a, b>>), Leading(a, i, items'), Clear(a, i),
             Resting(b, i, items'), Clear(b, i), Holds(b, i) => ~Drives(a, i)
      PROVE  Alone(i)'
  <2> DEFINE s == <<a, b>>
  <2>1. s \in Seq({a, b}) /\ Become(s) /\ Elems(s) = {a, b}
    BY <1>3, SmallSeqs
  <2>2. Head(s) = a /\ Tail(s) = <<b>> /\ DOMAIN s = {1, 2} /\ s[1] = a /\ s[2] = b
    OBVIOUS
  <2>3. Elems(Tail(s)) = {b}
    BY <2>2, SmallSeqs
  <2>4. Apart(i, s)
    BY <1>3, <2>2 DEF Apart
  <2> HIDE DEF s
  <2> QED BY <1>3, <2>1, <2>2, <2>3, <2>4, AloneStep
<1>4. ASSUME NEW a, NEW b, NEW c, Become(<<a, b, c>>), Leading(a, i, items'), Clear(a, i),
             Resting(b, i, items'), Clear(b, i), ~Holds(b, i),
             Resting(c, i, items'), Clear(c, i),
             Holds(c, i) => ~Drives(a, i) /\ ~Drives(b, i)
      PROVE  Alone(i)'
  <2> DEFINE s == <<a, b, c>>
  <2>1. s \in Seq({a, b, c}) /\ Become(s)
    BY <1>4
  <2>2. /\ Head(s) = a /\ Tail(s) = <<b, c>>
        /\ DOMAIN s = {1, 2, 3} /\ s[1] = a /\ s[2] = b /\ s[3] = c /\ s # <<>>
    OBVIOUS
  <2>3. Elems(s) = {a, b, c}
    BY <2>2 DEF Elems
  <2>4. Elems(Tail(s)) = {b, c}
    BY <2>2, SmallSeqs
  <2>5. Apart(i, s)
    BY <1>4, <2>2 DEF Apart
  <2> HIDE DEF s
  <2> QED BY <1>4, <2>1, <2>2, <2>3, <2>4, <2>5, AloneStep
<1> QED BY <1>1, <1>2, <1>3, <1>4

\* The items of an instance.
RowsOf(i, its) == {w \in its : w.inst = i}

\* While its items stay, what the frames know of them holds.
LEMMA SameRows ==
    ASSUME NEW i, NEW its, NEW new, RowsOf(i, new) = RowsOf(i, its)
    PROVE  /\ OneRow(i, its) => OneRow(i, new)
           /\ \A f : Resting(f, i, its) => Resting(f, i, new)
<1>1. \A w : w.inst = i => (w \in its <=> w \in new)
  BY DEF RowsOf
<1>2. OneRow(i, its) => OneRow(i, new)
  BY <1>1 DEF OneRow
<1>3. \A f : Resting(f, i, its) => Resting(f, i, new)
  BY <1>1 DEF Resting, Holds
<1> QED BY <1>2, <1>3

\* So a step that leaves its items needs only push frames that fit.
LEMMA AloneRows ==
    ASSUME TypeOK, stack # <<>>, NEW i, Alone(i), RowsOf(i, items') = RowsOf(i, items)
    PROVE  OneRow(i, items') /\ \A h \in Elems(Tail(stack)) : Resting(h, i, items')
BY SameRows DEF Alone

\* A frame that has nothing to do with i.
Foreign(f, i) ==
    /\ f.op = "loop" => \A c \in f.todo : c.inst = i => ~c.force
    /\ f.op = "scan" => f.call.inst # i
    /\ ~Feeds(f, i) /\ ~Holds(f, i)

\* A frame that is foreign to i may lie anywhere on the stack.
LEMMA ForeignFits ==
    ASSUME NEW f, NEW i, NEW its, Foreign(f, i)
    PROVE  Leading(f, i, its) /\ Resting(f, i, its) /\ Clear(f, i) /\ ~Drives(f, i) /\ ~Holds(f, i)
BY DEF Foreign, Leading, Resting, Clear, Drives, Holds

\* What the invariants say of the top frame and of an instance of one token.
LEMMA SingleTop ==
    ASSUME OwnInv, stack # <<>>, NEW n \in Singles(insts), Alone(n.id)
    PROVE  /\ TypeOK /\ Head(stack) \in Frame /\ Head(stack) \in Frames
           /\ Fits(Head(stack), insts, items)
           /\ Leading(Head(stack), n.id, items)
           /\ \A h \in Elems(Tail(stack)) : Resting(h, n.id, items)
           /\ OneRow(n.id, items)
           /\ Clear(Head(stack), n.id)
           /\ n.id \in InstId /\ Sequential(n.wkf)
           /\ \A k : Runs(n.id, k, insts) => k = n.wkf
<1>1. n \in insts /\ Sequential(n.wkf)
  BY DEF Singles
<1>2. n.id \in InstId
  BY <1>1 DEF OwnInv, TypeOK, Inst
<1>3. \A k : Runs(n.id, k, insts) => k = n.wkf
  BY <1>1 DEF OwnInv, Owned, Now, OneWkf, Runs
<1> QED BY <1>1, <1>2, <1>3, OwnTop, TopClear DEF Alone

\* The handlers that return change no row.
LEMMA AloneEnds ==
    ASSUME OwnInv, NEW n \in Singles(insts), Alone(n.id),
           LoopEnd \/ UpdateEndOpen \/ CreateEnd \/ StartEnd \/ JoinEnd \/ SplitStay \/ JoinClear
    PROVE  Alone(n.id)'
<1>1. stack # <<>> /\ Become(<<>>) /\ items' = items
  BY DEF LoopEnd, UpdateEndOpen, CreateEnd, StartEnd, JoinEnd, SplitStay, JoinClear, At, AtPc,
     tables
<1>2. TypeOK /\ OneRow(n.id, items') /\ \A h \in Elems(Tail(stack)) : Resting(h, n.id, items')
  BY <1>1, SingleTop
<1> QED BY <1>1, <1>2, AloneTuples

\* The loop goes on with the items its instance has.
LEMMA AloneLoopNext ==
    ASSUME OwnInv, NEW n \in Singles(insts), Alone(n.id), LoopNext
    PROVE  Alone(n.id)'
<1> DEFINE f == Head(stack)
           i == n.id
<1>1. stack # <<>> /\ items' = items /\ f.op = "loop"
  BY DEF LoopNext, At, tables
<1>2. /\ TypeOK /\ OneRow(i, items') /\ \A h \in Elems(Tail(stack)) : Resting(h, i, items')
      /\ f \in LoopFrame /\ Clear(f, i)
  BY <1>1, SingleTop, FrameOp
<1>3. PICK c \in f.todo : Become(<<Scan(c), [f EXCEPT !.todo = @ \ {c}, !.last = c.inst]>>)
  BY DEF LoopNext
<1> DEFINE a == Scan(c)
           b == [f EXCEPT !.todo = @ \ {c}, !.last = c.inst]
<1>4. a.op = "scan" /\ a.call = c /\ a.todo = {w \in items : w.inst = c.inst}
  BY DEF Scan, ItemsOf
<1>5. b.op = "loop" /\ b.todo \subseteq f.todo
  BY <1>2 DEF LoopFrame
<1> HIDE DEF f, i, a, b
<1>6. Leading(a, i, items')
  BY <1>1, <1>4 DEF Leading, Feeds, Holds
<1>7. Clear(a, i)
  BY <1>1, <1>2, <1>4 DEF Clear, Drives, Holds
<1>8. Resting(b, i, items') /\ ~Holds(b, i) /\ Clear(b, i)
  BY <1>1, <1>2, <1>5 DEF Resting, Feeds, Holds, Clear, Drives
<1>9. Become(<<a, b>>)
  BY <1>3 DEF a, b, f
<1> QED BY <1>1, <1>2, <1>6, <1>7, <1>8, <1>9, AloneTuples DEF i

\* The item a scan processes is the only one of its instance.
LEMMA AloneScanNext ==
    ASSUME OwnInv, NEW n \in Singles(insts), Alone(n.id), ScanNext
    PROVE  Alone(n.id)'
<1> DEFINE f == Head(stack)
           i == n.id
<1>1. stack # <<>> /\ items' = items /\ f.op = "scan"
  BY DEF ScanNext, At, tables
<1>2. /\ TypeOK /\ OneRow(i, items') /\ \A h \in Elems(Tail(stack)) : Resting(h, i, items')
      /\ f \in ScanFrame /\ Clear(f, i) /\ Leading(f, i, items) /\ Fits(f, insts, items)
      /\ Sequential(n.wkf) /\ \A k : Runs(i, k, insts) => k = n.wkf
  BY <1>1, SingleTop, FrameOp
<1>3. PICK w \in f.todo : Become(<<Process(w, f.call), [f EXCEPT !.todo = @ \ {w}]>>)
  BY DEF ScanNext
<1> DEFINE a == Process(w, f.call)
           b == [f EXCEPT !.todo = @ \ {w}]
<1>4. /\ w \in Item /\ f.call \in Target /\ b.op = "scan" /\ b.call = f.call
      /\ b.todo = f.todo \ {w}
  BY <1>2 DEF ScanFrame
<1>5. /\ a.op = "process" /\ a.item = w /\ a.call = f.call
      /\ a.pc \in {"send", "execute", "split"}
      /\ a.pc # "split" => w.state = "active"
      /\ a.pc = "send" => SignalSend[w.act] # NoSig
  BY DEF Process
<1>6. w.inst = f.call.inst /\ \A v \in f.todo : v.inst = f.call.inst
  BY <1>1, <1>2 DEF Fits
<1>7. w.inst = i => a.pc # "send"
  <2> SUFFICES ASSUME w.inst = i PROVE SignalSend[w.act] = NoSig
    BY <1>5
  <2>1. Runs(i, ActWkf[w.act], insts)
    BY <1>1, <1>2 DEF Fits, OwnItem
  <2>2. w.act \in ActsOf(n.wkf)
    BY <1>2, <1>4, <2>1 DEF ActsOf, Item
  <2> QED BY <1>2, <2>2 DEF Sequential
<1> HIDE DEF f, i, a, b
<1>8. CASE w.inst # i
  <2>1. Foreign(a, i) /\ Foreign(b, i)
    BY <1>4, <1>5, <1>6, <1>8 DEF Foreign, Feeds, Holds
  <2>2. Become(<<a, b>>)
    BY <1>3 DEF a, b, f
  <2> QED BY <1>1, <1>2, <2>1, <2>2, ForeignFits, AloneTuples DEF i
<1>9. CASE w.inst = i
  <2>1. f.todo \subseteq items
    BY <1>1, <1>2, <1>6, <1>9 DEF Leading
  <2>2. Leading(a, i, items')
    BY <1>1, <1>5, <1>7, <2>1 DEF Leading, Feeds, Holds
  <2>3. b.todo = {}
    BY <1>1, <1>2, <1>4, <1>6, <1>9, <2>1 DEF OneRow
  <2>4. Resting(b, i, items') /\ ~Holds(b, i)
    BY <1>4, <2>3 DEF Resting, Feeds, Holds
  <2>5. Clear(b, i)
    BY <1>1, <1>2, <1>4 DEF Clear, Drives, Holds
  <2>6. Clear(a, i)
    <3>1. CASE f.call.force
      BY <1>1, <1>2, <1>6, <1>9, <3>1 DEF Clear, Drives
    <3>2. CASE ~f.call.force /\ a.pc # "split"
      <4>1. \A h \in Elems(Tail(stack)) : ~Holds(h, i)
        BY <1>1, <1>2, <1>5, <1>9, <2>1, <3>2 DEF Resting, Holds, OneRow
      <4> QED BY <4>1 DEF Clear
    <3>3. CASE ~f.call.force /\ a.pc = "split"
      BY <1>5, <3>3 DEF Clear, Drives
    <3> QED BY <3>1, <3>2, <3>3
  <2>7. Become(<<a, b>>)
    BY <1>3 DEF a, b, f
  <2> QED BY <1>1, <1>2, <2>2, <2>4, <2>5, <2>6, <2>7, AloneTuples DEF i
<1> QED BY <1>8, <1>9

\* A new loop that forces nobody, or a trg_create, has nothing to do with i.
Mild(g) == /\ g.op \in {"loop", "start", "clear"}
           /\ g.op = "loop" => \A c \in g.todo : ~c.force

\* Such a frame is foreign to every instance.
LEMMA MildPush ==
    ASSUME NEW g, NEW i, Mild(g)
    PROVE  Foreign(g, i)
BY DEF Foreign, Feeds, Holds, Mild

\* _update_end completes the items that wait; none of them is running an action.
LEMMA AloneDone ==
    ASSUME OwnInv, NEW n \in Singles(insts), Alone(n.id), UpdateEndDone
    PROVE  Alone(n.id)'
<1> DEFINE f == Head(stack)
           i == n.id
           j == f.call.inst
           todo == UNION {{CallOn(m.id, m.res, StopSig[w.act], FALSE) :
                           w \in ItemsOf(j)} : m \in Waiting(j)}
           a == Loop(todo)
           done(w) == IF w.sub = j THEN [w EXCEPT !.state = "complete"] ELSE w
<1>1. stack # <<>> /\ f.op = "scan" /\ items' = {done(w) : w \in items} /\ Become(<<a>>)
  BY DEF UpdateEndDone, At, WaitersComplete
<1>2. /\ TypeOK /\ OneRow(i, items) /\ \A h \in Elems(Tail(stack)) : Resting(h, i, items)
      /\ f \in ScanFrame
  BY <1>1, SingleTop, FrameOp
<1>3. j \in InstId /\ j # NoInst /\ items \subseteq Item
  BY <1>2, ConstantsAssumption DEF ScanFrame, Target, TypeOK
<1>4. \A w \in items : /\ done(w).inst = w.inst /\ done(w).sub = w.sub
                       /\ done(w).state = "active" => w.state = "active"
                       /\ w.sub = NoInst => done(w) = w
  BY <1>3 DEF Item
<1>5. Foreign(a, i)
  <2>1. a.op = "loop" /\ a.todo = todo
    BY DEF Loop
  <2>2. \A c \in todo : ~c.force
    BY DEF CallOn
  <2> HIDE DEF a, todo
  <2> QED BY <2>1, <2>2, MildPush DEF Mild
<1> HIDE DEF done, a, f, i, j, todo
<1>6. OneRow(i, items')
  BY <1>1, <1>2, <1>4 DEF OneRow
<1>7. \A h \in Elems(Tail(stack)) : Resting(h, i, items')
  <2> SUFFICES ASSUME NEW h \in Elems(Tail(stack)), Holds(h, i) PROVE h.item \in items'
    BY <1>2 DEF Resting
  <2>1. h.item \in items /\ h.item.sub = NoInst
    BY <1>2 DEF Resting
  <2> QED BY <1>1, <1>4, <2>1
<1> QED BY <1>1, <1>2, <1>5, <1>6, <1>7, ForeignFits, AloneTuples DEF i

\* An instance waiting for another runs no action, so it may be forced; the
\* activities of a workflow of one token force nobody.
LEMMA AloneSend ==
    ASSUME OwnInv, NEW n \in Singles(insts), Alone(n.id), SendSignal
    PROVE  Alone(n.id)'
<1> DEFINE f == Head(stack)
           i == n.id
           j == f.item.inst
           a == Loop({CallOn(m.id, m.res, SignalSend[f.item.act], TRUE) : m \in Waiting(j)})
           b == [f EXCEPT !.pc = "execute"]
<1>1. stack # <<>> /\ f.op = "process" /\ f.pc = "send" /\ items' = items /\ Become(<<a, b>>)
  BY DEF SendSignal, AtPc, At, tables
<1>2. /\ TypeOK /\ OneRow(i, items') /\ \A h \in Elems(Tail(stack)) : Resting(h, i, items')
      /\ f \in ProcessFrame /\ Leading(f, i, items)
  BY <1>1, SingleTop, FrameOp
<1>3. j \in InstId /\ j # NoInst
  BY <1>2, ConstantsAssumption DEF ProcessFrame, Item
<1>4. j # i
  BY <1>1, <1>2 DEF Leading, Holds
<1>5. b.op = "process" /\ b.item = f.item
  BY <1>2 DEF ProcessFrame
<1>6. Foreign(b, i)
  BY <1>4, <1>5 DEF Foreign, Feeds, Holds
<1>7. Leading(a, i, items')
  BY DEF Loop, Leading, Feeds, Holds
<1>8. Clear(a, i)
  <2> SUFFICES ASSUME Drives(a, i), NEW h \in Elems(Tail(stack)), Holds(h, i) PROVE FALSE
    BY DEF Clear
  <2>1. PICK m \in Waiting(j) : m.id = i
    BY DEF Drives, Holds, Loop, CallOn
  <2>2. PICK w \in items : w.inst = i /\ w.sub = j
    BY <2>1 DEF Waiting
  <2>3. h.item \in items /\ h.item.inst = i /\ h.item.sub = NoInst
    BY <1>1, <1>2 DEF Resting, Holds
  <2> QED BY <1>1, <1>2, <1>3, <2>2, <2>3 DEF OneRow
<1> HIDE DEF a, b, i
<1> QED BY <1>1, <1>2, <1>6, <1>7, <1>8, ForeignFits, AloneTuples DEF i

\* The item workitem.create puts is the only one of its instance.
LEMMA AloneCreateNext ==
    ASSUME OwnInv, NEW n \in Singles(insts), Alone(n.id), CreateNext
    PROVE  Alone(n.id)'
<1> DEFINE f == Head(stack)
           i == n.id
           j == f.call.inst
           k == CHOOSE x \in ItemId \ UsedItems : TRUE
<1>1. stack # <<>> /\ f.op = "create"
  BY DEF CreateNext, At
<1>2. /\ TypeOK /\ OneRow(i, items) /\ \A h \in Elems(Tail(stack)) : Resting(h, i, items)
      /\ f \in CreateFrame /\ Leading(f, i, items) /\ Fits(f, insts, items)
      /\ Sequential(n.wkf) /\ \A x : Runs(i, x, insts) => x = n.wkf
  BY <1>1, SingleTop, FrameOp
<1>3. PICK x \in f.todo :
         LET w == [id |-> k, act |-> x, inst |-> j, sub |-> NoInst, state |-> "active"]
         IN  items' = items \cup {w} /\ Become(<<Process(w, f.call), [f EXCEPT !.todo = @ \ {x}]>>)
  BY DEF CreateNext
<1> DEFINE w == [id |-> k, act |-> x, inst |-> j, sub |-> NoInst, state |-> "active"]
           a == Process(w, f.call)
           b == [f EXCEPT !.todo = @ \ {x}]
<1>4. items' = items \cup {w} /\ Become(<<a, b>>)
  BY <1>3
<1>5. w.inst = j /\ w.state = "active" /\ w.sub = NoInst /\ w.act = x /\ x \in Act
  BY <1>2 DEF CreateFrame
<1>6. /\ a.op = "process" /\ a.item = w
      /\ a.pc \in {"send", "execute"}
      /\ a.pc = "send" => SignalSend[w.act] # NoSig
  BY DEF Process
<1>7. b.op = "create" /\ b.call = f.call /\ b.todo = f.todo \ {x}
  BY <1>2 DEF CreateFrame
<1> HIDE DEF f, i, j, k, w, a, b
<1>8. CASE j # i
  <2>1. Foreign(a, i) /\ Foreign(b, i)
    BY <1>5, <1>6, <1>7, <1>8 DEF Foreign, Feeds, Holds, j
  <2>2. RowsOf(i, items') = RowsOf(i, items)
    BY <1>4, <1>5, <1>8 DEF RowsOf
  <2>3. OneRow(i, items') /\ \A h \in Elems(Tail(stack)) : Resting(h, i, items')
    BY <1>1, <1>2, <2>2, AloneRows DEF i
  <2> QED BY <1>1, <1>2, <1>4, <2>1, <2>3, ForeignFits, AloneTuples DEF i
<1>9. CASE j = i
  <2>1. (\A v \in items : v.inst # i) /\ \A y \in f.todo : y = x
    BY <1>1, <1>2, <1>3, <1>9 DEF Leading, Feeds, j
  <2>2. OneRow(i, items')
    BY <1>4, <1>5, <2>1 DEF OneRow
  <2>3. ASSUME NEW h \in Elems(Tail(stack)) PROVE ~Holds(h, i) /\ Resting(h, i, items')
    <3>1. ~Holds(h, i)
      BY <1>2, <2>1 DEF Resting, Holds
    <3> QED BY <1>2, <3>1 DEF Resting
  <2>4. SignalSend[x] = NoSig
    <3>1. Runs(i, ActWkf[x], insts)
      BY <1>1, <1>2, <1>9 DEF Fits, j
    <3>2. x \in ActsOf(n.wkf)
      BY <1>2, <1>5, <3>1 DEF ActsOf
    <3> QED BY <1>2, <3>2 DEF Sequential
  <2>5. Leading(a, i, items') /\ Clear(a, i)
    BY <1>4, <1>5, <1>6, <2>3, <2>4 DEF Leading, Feeds, Holds, Clear
  <2>6. Resting(b, i, items') /\ Clear(b, i) /\ ~Holds(b, i)
    BY <1>7, <2>1 DEF Resting, Clear, Drives, Holds
  <2> QED BY <1>1, <1>2, <1>4, <2>2, <2>3, <2>5, <2>6, AloneTuples DEF i
<1> QED BY <1>8, <1>9

\* Frames above a call on the item of i cannot change it; the frame that
\* executes it stands on no other call of i.
LEMMA DriverClears ==
    ASSUME TypeOK, stack # <<>>, NEW i, Alone(i), Drives(Head(stack), i)
    PROVE  /\ \A h \in Elems(Tail(stack)) : ~Holds(h, i) /\ Resting(h, i, items')
           /\ \A g : Clear(g, i)
<1>1. \A h \in Elems(Tail(stack)) : ~Holds(h, i) /\ Resting(h, i, items)
  BY TopClear DEF Clear, Alone
<1> QED BY <1>1 DEF Clear, Resting

\* What an instance of one token makes of the frame that executes its item.
LEMMA OwnRow ==
    ASSUME OwnInv, stack # <<>>, NEW n \in Singles(insts), Alone(n.id), AtPc("execute") \/ AtPc("action")
    PROVE  /\ Head(stack) \in ProcessFrame /\ Head(stack).op = "process"
           /\ Head(stack).item \in Item
           /\ \A w \in items : w.id = Head(stack).item.id => w.inst = Head(stack).item.inst
           /\ Head(stack).item.inst = n.id =>
                 /\ Drives(Head(stack), n.id)
                 /\ Head(stack).item \in items
                 /\ \A w \in items : w.inst = n.id => w = Head(stack).item
                 /\ Head(stack).item.sub = NoInst
                 /\ Head(stack).item.state \in {"active", "running"}
                 /\ AtPc("action") => Head(stack).item.state = "running"
<1> DEFINE f == Head(stack)
           i == n.id
<1>1. f.op = "process" /\ f.pc \in {"execute", "action"} /\ (AtPc("action") => f.pc = "action")
  BY DEF AtPc, At
<1>2. /\ TypeOK /\ OneRow(i, items) /\ f \in ProcessFrame /\ Leading(f, i, items)
      /\ Fits(f, insts, items)
  BY <1>1, SingleTop, FrameOp
<1>3. \A w \in items : w.id = f.item.id => w.inst = f.item.inst
  BY <1>1, <1>2 DEF Fits, OwnItem, Alike
<1>4. f.item \in Item
  BY <1>2 DEF ProcessFrame
<1>5. ASSUME f.item.inst = i
      PROVE  /\ Drives(f, i) /\ f.item \in items /\ f.item.sub = NoInst
             /\ f.item.state \in {"active", "running"}
             /\ f.pc = "action" => f.item.state = "running"
             /\ \A w \in items : w.inst = i => w = f.item
  <2>1. Holds(f, i)
    BY <1>1, <1>5 DEF Holds
  <2>2. f.item \in items /\ \A w \in items : w.inst = i => w = f.item
    BY <1>2, <1>5, <2>1 DEF Leading, OneRow
  <2> QED BY <1>1, <1>2, <1>5, <2>1, <2>2 DEF Leading, OneRow, Drives
<1> HIDE DEF f
<1> QED BY <1>1, <1>2, <1>3, <1>4, <1>5 DEF f

\* A statement that makes u of the row of the top frame's item, and leaves the
\* rows of other instances.
Rewrites(u) ==
    LET v == Head(stack).item IN
    /\ \A w \in items' : \/ w \in items /\ w.id # v.id
                         \/ \E x \in items : /\ x.id = v.id /\ w.inst = x.inst
                                             /\ x = v => w = u
    /\ \A w \in items : w.id # v.id /\ w.inst # v.inst => w \in items'
    /\ v \in items => u \in items'

\* Then the instance of that item has the row u, and every other its old ones.
LEMMA RewrittenRow ==
    ASSUME OwnInv, stack # <<>>, NEW n \in Singles(insts), Alone(n.id),
           AtPc("execute") \/ AtPc("action"),
           NEW u, u.inst = Head(stack).item.inst, Rewrites(u)
    PROVE  /\ Head(stack).item.inst = n.id => RowsOf(n.id, items') = {u}
           /\ Head(stack).item.inst # n.id => RowsOf(n.id, items') = RowsOf(n.id, items)
<1> DEFINE f == Head(stack)
           i == n.id
<1>1. \A w \in items : w.id = f.item.id => w.inst = f.item.inst
  BY OwnRow
<1>2. f.item.inst = i => f.item \in items /\ \A w \in items : w.inst = i => w = f.item
  BY OwnRow
<1> HIDE DEF f, i
<1>3. ASSUME f.item.inst = i PROVE RowsOf(i, items') = {u}
  <2>1. u \in items' /\ u.inst = i
    BY <1>2, <1>3 DEF Rewrites, f
  <2>2. ASSUME NEW w \in items', w.inst = i PROVE w = u
    BY <1>2, <1>3, <2>2 DEF Rewrites, f
  <2> QED BY <2>1, <2>2 DEF RowsOf
<1>4. ASSUME f.item.inst # i PROVE RowsOf(i, items') = RowsOf(i, items)
  <2>1. ASSUME NEW w \in items', w.inst = i PROVE w \in items
    BY <1>1, <1>4, <2>1 DEF Rewrites, f
  <2>2. ASSUME NEW w \in items, w.inst = i PROVE w \in items'
    BY <1>1, <1>4, <2>2 DEF Rewrites, f
  <2> QED BY <2>1, <2>2 DEF RowsOf
<1> QED BY <1>3, <1>4 DEF f, i

\* update wkf_workitem set state does so.
LEMMA SetStateRewrites ==
    ASSUME OwnInv, stack # <<>>, NEW n \in Singles(insts), Alone(n.id),
           AtPc("execute") \/ AtPc("action"),
           NEW s, SetState(Head(stack).item.id, s)
    PROVE  Rewrites([Head(stack).item EXCEPT !.state = s])
<1> DEFINE v == Head(stack).item
           g(w) == IF w.id = v.id THEN [w EXCEPT !.state = s] ELSE w
           u == [v EXCEPT !.state = s]
<1>1. items' = {g(w) : w \in items} /\ items \subseteq Item /\ v \in Item
  BY OwnRow DEF SetState, OwnInv, TypeOK
<1>2. \A w \in items : /\ w.id # v.id => g(w) = w
                       /\ w.id = v.id => g(w).inst = w.inst
                       /\ w = v => g(w) = u
  BY <1>1 DEF Item
<1> HIDE DEF g, u, v
<1> QED BY <1>1, <1>2 DEF Rewrites, v, u

\* A step of a call that executes its item, on an instance of one token: the
\* row and the dictionary change alike.
LEMMA AloneItem ==
    ASSUME OwnInv, stack # <<>>, NEW n \in Singles(insts), Alone(n.id),
           AtPc("execute") \/ AtPc("action"),
           NEW u, u.inst = Head(stack).item.inst, u.state # "active",
           Rewrites(u), NEW a, Become(<<a>>), a.op = "process", a.item = u, a.pc \in {"action", "split"},
           a.pc = "action" => u.state = "running" /\ u.sub = Head(stack).item.sub
    PROVE  Alone(n.id)'
<1> DEFINE f == Head(stack)
           i == n.id
<1>1. TypeOK
  BY DEF OwnInv
<1>2. CASE f.item.inst # i
  <2>1. OneRow(i, items') /\ \A h \in Elems(Tail(stack)) : Resting(h, i, items')
    BY <1>1, <1>2, RewrittenRow, AloneRows
  <2>2. Foreign(a, i)
    BY <1>2 DEF Foreign, Feeds, Holds
  <2> QED BY <1>1, <2>1, <2>2, ForeignFits, AloneTuples
<1>3. CASE f.item.inst = i
  <2>1. Drives(f, i) /\ f.item.sub = NoInst
    BY <1>3, OwnRow
  <2>2. (\A h \in Elems(Tail(stack)) : Resting(h, i, items')) /\ Clear(a, i)
    BY <1>1, <2>1, DriverClears
  <2>3. RowsOf(i, items') = {u}
    BY <1>3, RewrittenRow
  <2>4. u \in items' /\ \A w \in items' : w.inst = i => w = u
    BY <2>3 DEF RowsOf
  <2>5. OneRow(i, items')
    BY <2>4 DEF OneRow
  <2>6. Leading(a, i, items')
    BY <2>1, <2>4 DEF Leading, Feeds, Holds
  <2> HIDE DEF i
  <2> QED BY <1>1, <2>2, <2>5, <2>6, AloneTuples DEF i
<1> QED BY <1>2, <1>3

\* _execute up to the call of the action, and its return.
LEMMA AloneExecute ==
    ASSUME OwnInv, NEW n \in Singles(insts), Alone(n.id),
           ExecuteDummy \/ ExecuteFunction \/ ExecuteSubflow \/ ActionEnd
    PROVE  Alone(n.id)'
<1> DEFINE f == Head(stack)
<1>1. stack # <<>> /\ (AtPc("execute") \/ AtPc("action"))
  BY DEF ExecuteDummy, ExecuteFunction, ExecuteSubflow, ActionEnd, AtPc, At
<1>2. f \in ProcessFrame /\ f.item \in Item /\ f.op = "process"
  BY <1>1, OwnRow
<1>3. CASE ExecuteDummy \/ ActionEnd
  <2> DEFINE u == [f.item EXCEPT !.state = "complete"]
             a == [f EXCEPT !.pc = "split", !.item.state = "complete"]
  <2>1. SetState(f.item.id, "complete") /\ Become(<<a>>)
    BY <1>3 DEF ExecuteDummy, ActionEnd
  <2>2. Rewrites(u)
    BY <1>1, <2>1, SetStateRewrites
  <2>3. /\ u.inst = f.item.inst /\ u.state = "complete"
        /\ a.op = "process" /\ a.item = u /\ a.pc = "split"
    BY <1>2 DEF ProcessFrame, Item
  <2> HIDE DEF u, a
  <2> QED BY <1>1, <2>1, <2>2, <2>3, AloneItem
<1>4. CASE ExecuteFunction \/ ExecuteSubflow
  <2> DEFINE u == [f.item EXCEPT !.state = "running"]
  <2>1. SetState(f.item.id, "running") /\ \E calls : Become(<<Running(f, calls)>>)
    BY <1>4 DEF ExecuteFunction, ExecuteSubflow, BeginAction
  <2>2. PICK calls : Become(<<Running(f, calls)>>)
    BY <2>1
  <2> DEFINE a == Running(f, calls)
  <2>3. Rewrites(u)
    BY <1>1, <2>1, SetStateRewrites
  <2>4. /\ u.inst = f.item.inst /\ u.state = "running" /\ u.sub = f.item.sub
        /\ a.op = "process" /\ a.item = u /\ a.pc = "action"
    BY <1>2 DEF ProcessFrame, Item, Running
  <2> HIDE DEF u, a
  <2> QED BY <1>1, <2>2, <2>3, <2>4, AloneItem DEF a
<1> QED BY <1>3, <1>4

\* A stopall deletes the other items of its own instance only.
LEMMA AloneStopAll ==
    ASSUME OwnInv, NEW n \in Singles(insts), Alone(n.id), ExecuteStopAll
    PROVE  Alone(n.id)'
<1> DEFINE f == Head(stack)
           v == f.item
           gone == {w \in ItemsOf(v.inst) : w.id # v.id}
           g(w) == IF w.id = v.id THEN [w EXCEPT !.state = "running"] ELSE w
           u == [v EXCEPT !.state = "running"]
<1>1. /\ stack # <<>> /\ AtPc("execute")
      /\ items' = {g(w) : w \in items \ gone}
      /\ \E calls : Become(<<Running(f, calls)>>)
  BY DEF ExecuteStopAll, AtPc, At
<1>2. f \in ProcessFrame /\ v \in Item /\ f.op = "process" /\ items \subseteq Item
  BY <1>1, OwnRow DEF OwnInv, TypeOK
<1>3. PICK calls : Become(<<Running(f, calls)>>)
  BY <1>1
<1> DEFINE a == Running(f, calls)
<1>4. /\ u.inst = v.inst /\ u.state = "running" /\ u.sub = v.sub
      /\ a.op = "process" /\ a.item = u /\ a.pc = "action"
  BY <1>2 DEF ProcessFrame, Item, Running
<1>5. \A w \in items : /\ w.id # v.id => g(w) = w
                       /\ w.id = v.id => g(w).inst = w.inst
                       /\ w = v => g(w) = u
                       /\ w \in gone => w.id # v.id /\ w.inst = v.inst
  BY <1>2 DEF Item, ItemsOf
<1>6. Become(<<a>>)
  BY <1>3
<1> HIDE DEF g, u, gone, a
<1>7. Rewrites(u)
  BY <1>1, <1>5 DEF Rewrites
<1> HIDE DEF f, v
<1> QED BY <1>1, <1>4, <1>6, <1>7, AloneItem DEF f, v

\* The item is linked to the instance its activity waits for.
LEMMA AloneLink ==
    ASSUME OwnInv, NEW n \in Singles(insts), Alone(n.id), ActionLink
    PROVE  Alone(n.id)'
<1> DEFINE f == Head(stack)
           v == f.item
<1>1. stack # <<>> /\ AtPc("action")
  BY DEF ActionLink, AtPc, At
<1>2. f \in ProcessFrame /\ v \in Item /\ f.op = "process" /\ items \subseteq Item
  BY <1>1, OwnRow DEF OwnInv, TypeOK
<1>3. PICK m \in insts :
         /\ items' = {IF w.id # v.id THEN w
                      ELSE IF m.state = "complete"
                      THEN [w EXCEPT !.sub = m.id, !.state = "complete"]
                      ELSE [w EXCEPT !.sub = m.id] : w \in items}
         /\ Become(<<[f EXCEPT !.pc = "split", !.item.sub = m.id,
                               !.item.state = IF m.state = "complete"
                                              THEN "complete" ELSE @]>>)
  BY DEF ActionLink
<1> DEFINE g(w) == IF w.id # v.id THEN w
                   ELSE IF m.state = "complete"
                   THEN [w EXCEPT !.sub = m.id, !.state = "complete"]
                   ELSE [w EXCEPT !.sub = m.id]
           u == IF m.state = "complete" THEN [v EXCEPT !.sub = m.id, !.state = "complete"]
                ELSE [v EXCEPT !.sub = m.id]
           a == [f EXCEPT !.pc = "split", !.item.sub = m.id,
                          !.item.state = IF m.state = "complete" THEN "complete" ELSE @]
<1>4. items' = {g(w) : w \in items} /\ Become(<<a>>)
  BY <1>3
<1>5. \A w \in items : /\ w.id # v.id => g(w) = w
                       /\ w.id = v.id => g(w).inst = w.inst
                       /\ w = v => g(w) = u
  BY <1>2 DEF Item
<1>6. u.inst = v.inst /\ a.op = "process" /\ a.item = u /\ a.pc = "split"
  BY <1>2 DEF ProcessFrame, Item
<1>7. u.state = "complete" \/ u.state = v.state
  BY <1>2 DEF Item
<1> HIDE DEF g, u, a
<1>8. Rewrites(u)
  BY <1>4, <1>5 DEF Rewrites
<1> HIDE DEF f, v
<1>9. CASE v.inst = n.id
  <2>1. u.state # "active"
    BY <1>1, <1>7, <1>9, OwnRow DEF f, v
  <2> QED BY <1>1, <1>4, <1>6, <1>8, <2>1, AloneItem DEF f, v
<1>10. CASE v.inst # n.id
  <2>1. RowsOf(n.id, items') = RowsOf(n.id, items)
    BY <1>1, <1>6, <1>8, <1>10, RewrittenRow DEF f, v
  <2>2. TypeOK /\ OneRow(n.id, items') /\ \A h \in Elems(Tail(stack)) : Resting(h, n.id, items')
    BY <1>1, <2>1, AloneRows DEF OwnInv
  <2>3. Foreign(a, n.id)
    BY <1>6, <1>10 DEF Foreign, Feeds, Holds
  <2> QED BY <1>1, <1>4, <2>2, <2>3, ForeignFits, AloneTuples
<1> QED BY <1>9, <1>10

\* The action's calls leave the item running; what they start forces nobody.
LEMMA AloneCalls ==
    ASSUME OwnInv, NEW n \in Singles(insts), Alone(n.id),
           ActionWrite \/ ActionNew \/ ActionFind \/ ActionSignal \/ ActionTrigger
    PROVE  Alone(n.id)'
<1> DEFINE f == Head(stack)
           i == n.id
<1>1. stack # <<>> /\ AtPc("action") /\ items' = items /\ f.op = "process" /\ f.pc = "action"
  BY DEF ActionWrite, ActionNew, ActionFind, ActionSignal, ActionTrigger, NextCall, AtPc, At,
     tables
<1>2. /\ TypeOK /\ OneRow(i, items') /\ \A h \in Elems(Tail(stack)) : Resting(h, i, items')
      /\ f \in ProcessFrame /\ Leading(f, i, items) /\ Clear(f, i)
  BY <1>1, SingleTop, FrameOp
<1> DEFINE onward(b) == /\ b.op = "process" /\ b.item = f.item /\ b.call = f.call
                        /\ b.pc = "action"
<1>3. ASSUME NEW b, onward(b) PROVE Clear(b, i) /\ Resting(b, i, items') /\ Leading(b, i, items')
  <2> HIDE DEF f, i
  <2>1. Clear(b, i)
    BY <1>1, <1>2, <1>3 DEF Clear, Drives, Holds
  <2>2. Resting(b, i, items')
    BY <1>1, <1>2, <1>3 DEF Leading, Resting, Holds, Feeds
  <2> QED BY <2>1, <2>2, RestingLeads
<1>4. ASSUME NEW b, onward(b), Become(<<b>>) PROVE Alone(n.id)'
  <2>1. Clear(b, i) /\ Leading(b, i, items')
    BY <1>3, <1>4
  <2> HIDE DEF f, i
  <2> QED BY <1>1, <1>2, <1>4, <2>1, AloneTuples DEF i
<1>5. ASSUME NEW b, onward(b), NEW a, Mild(a), Become(<<a, b>>) PROVE Alone(n.id)'
  <2>1. Clear(b, i) /\ Resting(b, i, items') /\ Foreign(a, i)
    BY <1>3, <1>5, MildPush
  <2> HIDE DEF f, i
  <2> QED BY <1>1, <1>2, <1>5, <2>1, ForeignFits, AloneTuples DEF i
<1> DEFINE b == Called(f)
           made(r) == [Called(f) EXCEPT !.made = r]
<1>6. onward(b) /\ \A r : onward(made(r))
  BY <1>1, <1>2 DEF Called, ProcessFrame
<1>7. \A rows, s : Mild(Updates(rows)) /\ Mild(Validates(rows, s)) /\ Mild(Starting(s))
  BY DEF Updates, Validates, Loop, CallFor, CallOn, Starting, Mild
<1>8. CASE ActionWrite \/ ActionSignal \/ ActionTrigger
  <2>1. \/ \E rows : Become(<<Updates(rows), b>>)
        \/ \E rows, s : Become(<<Validates(rows, s), b>>)
    <3> HIDE DEF f
    <3> QED BY <1>8 DEF ActionWrite, ActionSignal, ActionTrigger, f
  <2> HIDE DEF b, onward
  <2> QED BY <1>5, <1>6, <1>7, <2>1
<1>9. CASE ActionNew
  <2>1. PICK r : Become(<<Starting(r), made(r)>>)
    BY <1>9 DEF ActionNew
  <2> HIDE DEF made, onward
  <2> QED BY <1>5, <1>6, <1>7, <2>1
<1>10. CASE ActionFind
  <2>1. PICK r : Become(<<made(r)>>)
    BY <1>10 DEF ActionFind
  <2> HIDE DEF made, onward
  <2> QED BY <1>4, <1>6, <2>1
<1> QED BY <1>8, <1>9, <1>10

\* A subflow that does not come takes the item with it.
LEMMA AloneNoSubflow ==
    ASSUME OwnInv, NEW n \in Singles(insts), Alone(n.id), ActionNoSubflow
    PROVE  Alone(n.id)'
<1> DEFINE f == Head(stack)
           i == n.id
<1>1. stack # <<>> /\ AtPc("action") /\ Become(<<>>) /\ items' = {w \in items : w.id # f.item.id}
  BY DEF ActionNoSubflow, DeleteItems, AtPc, At
<1>2. TypeOK /\ OneRow(i, items) /\ \A h \in Elems(Tail(stack)) : Resting(h, i, items)
  BY <1>1, SingleTop
<1>3. /\ \A w \in items : w.id = f.item.id => w.inst = f.item.inst
      /\ f.item.inst = i => Drives(f, i)
  BY <1>1, OwnRow
<1>4. OneRow(i, items')
  BY <1>1, <1>2 DEF OneRow
<1>5. \A h \in Elems(Tail(stack)) : Resting(h, i, items')
  <2>1. CASE f.item.inst = i
    BY <1>1, <1>2, <1>3, <2>1, DriverClears
  <2>2. CASE f.item.inst # i
    <3> HIDE DEF f
    <3>1. RowsOf(i, items') = RowsOf(i, items)
      BY <1>1, <1>3, <2>2 DEF RowsOf
    <3> QED BY <1>1, <1>2, <3>1, AloneRows
  <2> QED BY <2>1, <2>2
<1> HIDE DEF i, f
<1> QED BY <1>1, <1>2, <1>4, <1>5, AloneTuples DEF i

\* _split_test deletes the item and fires one transition at most.
LEMMA AloneFire ==
    ASSUME OwnInv, NEW n \in Singles(insts), Alone(n.id), SplitFire
    PROVE  Alone(n.id)'
<1> DEFINE f == Head(stack)
           i == n.id
<1>1. /\ stack # <<>> /\ f.op = "process" /\ f.pc = "split"
      /\ items' = {w \in items : w.id # f.item.id}
  BY DEF SplitFire, AtPc, At, DeleteItems
<1>2. /\ TypeOK /\ OneRow(i, items) /\ \A h \in Elems(Tail(stack)) : Resting(h, i, items)
      /\ f \in ProcessFrame /\ Leading(f, i, items) /\ Clear(f, i) /\ Fits(f, insts, items)
      /\ Sequential(n.wkf) /\ \A x : Runs(i, x, insts) => x = n.wkf
  BY <1>1, SingleTop, FrameOp
<1>3. PICK fired \in Fireable(f) \ {{}} :
         Become(<<[op |-> "join", call |-> [f.call EXCEPT !.inst = f.item.inst], todo |-> fired]>>)
  BY DEF SplitFire
<1> DEFINE a == [op |-> "join", call |-> [f.call EXCEPT !.inst = f.item.inst], todo |-> fired]
<1>4. a.op = "join" /\ a.call.inst = f.item.inst /\ a.todo = fired /\ f.item.act \in Act
  BY <1>2 DEF ProcessFrame, Target, Item
<1>5. \A w \in items : w.id = f.item.id => w.inst = f.item.inst
  BY <1>1, <1>2 DEF Fits, OwnItem, Alike
<1>6. OneRow(i, items')
  BY <1>1, <1>2 DEF OneRow
<1>7. Clear(a, i)
  BY <1>4 DEF Clear, Drives, Holds
<1> HIDE DEF i, a
<1>8. CASE f.item.inst # i
  <2>1. RowsOf(i, items') = RowsOf(i, items)
    BY <1>1, <1>5, <1>8 DEF RowsOf
  <2>2. \A h \in Elems(Tail(stack)) : Resting(h, i, items')
    BY <1>1, <1>2, <2>1, AloneRows DEF i
  <2>3. Leading(a, i, items')
    BY <1>4, <1>8 DEF Leading, Feeds, Holds
  <2>4. Become(<<a>>)
    BY <1>3 DEF a
  <2> HIDE DEF f
  <2> QED BY <1>1, <1>2, <1>6, <1>7, <2>2, <2>3, <2>4, AloneTuples DEF i
<1>9. CASE f.item.inst = i
  <2>1. f.item \in items /\ \A w \in items : w.inst = i => w = f.item
    BY <1>1, <1>2, <1>9 DEF Leading, Holds, OneRow
  <2>2. \A w \in items' : w.inst # i
    BY <1>1, <2>1
  <2>3. f.item.state = "complete" \/ f.call.force
    <3> HIDE DEF f
    <3> SUFFICES ASSUME f.item.state # "complete", ~f.call.force PROVE Fireable(f) = {{}}
      BY <1>3
    <3> QED BY DEF Fireable
  <2>4. ASSUME NEW h \in Elems(Tail(stack)) PROVE ~Holds(h, i) /\ Resting(h, i, items')
    <3>1. ~Holds(h, i)
      BY <1>1, <1>2, <1>9, <2>1, <2>3 DEF Clear, Drives, Resting, Holds
    <3> QED BY <1>2, <3>1 DEF Resting
  <2>5. \A s, t \in fired : s = t
    <3>1. SplitMode[f.item.act] = "XOR" \/ \A s, t \in FromAct(f.item.act) : s = t
      <4>1. Runs(i, ActWkf[f.item.act], insts)
        BY <1>1, <1>2, <1>9 DEF Fits, OwnItem
      <4>2. f.item.act \in ActsOf(n.wkf)
        BY <1>2, <1>4, <4>1 DEF ActsOf
      <4> QED BY <1>2, <4>2 DEF Sequential
    <3>2. fired \subseteq FromAct(f.item.act)
      BY <1>3, FireableFrom
    <3>3. ASSUME SplitMode[f.item.act] = "XOR" PROVE \E t : fired = {t}
      BY <1>3, <2>3, <3>3 DEF Fireable
    <3> QED BY <3>1, <3>2, <3>3
  <2>6. Leading(a, i, items')
    BY <1>4, <2>2, <2>5 DEF Leading, Feeds, Holds
  <2>7. Become(<<a>>)
    BY <1>3 DEF a
  <2> HIDE DEF f
  <2> QED BY <1>1, <1>2, <1>6, <1>7, <2>4, <2>6, <2>7, AloneTuples DEF i
<1> QED BY <1>8, <1>9

\* _join_test hands the token on, or keeps it in wkf_witm_trans.
LEMMA AloneJoinNext ==
    ASSUME OwnInv, NEW n \in Singles(insts), Alone(n.id), JoinNext
    PROVE  Alone(n.id)'
<1> DEFINE f == Head(stack)
           i == n.id
           j == f.call.inst
<1>1. stack # <<>> /\ f.op = "join" /\ items' = items
  BY DEF JoinNext, At
<1>2. /\ TypeOK /\ OneRow(i, items') /\ \A h \in Elems(Tail(stack)) : Resting(h, i, items')
      /\ f \in JoinFrame /\ Leading(f, i, items)
  BY <1>1, SingleTop, FrameOp
<1>3. PICK t \in f.todo :
         LET rest == [f EXCEPT !.todo = @ \ {t}]
             next == Creating([f.call EXCEPT !.sig = NoSig, !.force = FALSE], {To[t]})
         IN  \/ Become(<<next, [op |-> "clear", inst |-> j, trans |-> t], rest>>)
             \/ Become(<<next, rest>>)
             \/ Become(<<rest>>)
  <2> HIDE DEF f
  <2> QED BY DEF JoinNext, f
<1> DEFINE a == Creating([f.call EXCEPT !.sig = NoSig, !.force = FALSE], {To[t]})
           b == [op |-> "clear", inst |-> j, trans |-> t]
           c == [f EXCEPT !.todo = @ \ {t}]
<1>4. /\ a.op = "create" /\ a.call.inst = j /\ a.todo = {To[t]}
      /\ b.op = "clear" /\ c.op = "join" /\ c.call.inst = j /\ c.todo = f.todo \ {t}
  BY <1>2 DEF Creating, JoinFrame, Target
<1>5. Foreign(b, i)
  BY <1>4 DEF Foreign, Feeds, Holds
<1>6. Become(<<a, b, c>>) \/ Become(<<a, c>>) \/ Become(<<c>>)
  BY <1>3
<1> HIDE DEF a, b, c
<1>7. Clear(a, i) /\ Clear(c, i) /\ ~Holds(c, i)
  BY <1>4 DEF Clear, Drives, Holds
<1>8. Leading(a, i, items') /\ Resting(c, i, items')
  <2>1. CASE j = i
    BY <1>1, <1>2, <1>3, <1>4, <2>1 DEF Leading, Resting, Feeds, Holds
  <2>2. CASE j # i
    BY <1>4, <2>2 DEF Leading, Resting, Feeds, Holds
  <2> QED BY <2>1, <2>2
<1> HIDE DEF f, i, j
<1>9. Leading(c, i, items')
  BY <1>8, RestingLeads
<1> QED BY <1>1, <1>2, <1>5, <1>6, <1>7, <1>8, <1>9, ForeignFits, AloneTuples DEF i

\* The sequence of frames instance.create and its caller make.
LEMMA ThreeFrames ==
    ASSUME NEW a, NEW b, NEW g
    PROVE  <<a, b>> \o <<g>> = <<a, b, g>>
<1> DEFINE S == {a, b, g}
           s == <<a, b>>
           t == <<g>>
           u == <<a, b, g>>
<1>1. s \in Seq(S) /\ t \in Seq(S) /\ u \in Seq(S)
  OBVIOUS
<1>2. /\ Len(s) = 2 /\ s[1] = a /\ s[2] = b /\ Len(t) = 1 /\ t[1] = g
      /\ Len(u) = 3 /\ u[1] = a /\ u[2] = b /\ u[3] = g
  OBVIOUS
<1> HIDE DEF s, t, u, S
<1>3. /\ s \o t \in Seq(S) /\ Len(s \o t) = Len(s) + Len(t)
      /\ \A k \in 1 .. Len(s) + Len(t) :
            (s \o t)[k] = IF k <= Len(s) THEN s[k] ELSE t[k - Len(s)]
  BY <1>1
<1> DEFINE v == s \o t
<1>4. v \in Seq(S) /\ Len(v) = 3 /\ v[1] = a /\ v[2] = b /\ v[3] = g
  <2>1. 1 \in 1 .. Len(s) + Len(t) /\ 2 \in 1 .. Len(s) + Len(t) /\ 3 \in 1 .. Len(s) + Len(t)
    BY <1>2
  <2>2. v[1] = s[1] /\ v[2] = s[2] /\ v[3] = t[1]
    BY <1>2, <1>3, <2>1
  <2> QED BY <1>2, <1>3, <2>2
<1> HIDE DEF v
<1>5. v = u
  BY <1>1, <1>2, <1>4
<1> QED BY <1>5 DEF s, t, u, v

\* The frames of a new instance have nothing to do with another.
LEMMA AloneBeside ==
    ASSUME TypeOK, stack # <<>>, NEW i, Alone(i), OneRow(i, items'),
           \A h \in Elems(Tail(stack)) : Resting(h, i, items'),
           NEW j, j # i, NEW w, NEW r, NEW g, Become(CreateInst(j, w, r) \o <<g>>),
           Resting(g, i, items'), Clear(g, i)
    PROVE  Alone(i)'
<1> DEFINE c == CallOn(j, r, NoSig, FALSE)
           a == Creating(c, StartActs(w))
           b == Loop({c})
<1>1. CreateInst(j, w, r) \o <<g>> = <<a, b, g>>
  BY ThreeFrames DEF CreateInst
<1>2. Foreign(a, i)
  BY DEF Foreign, Feeds, Holds, Creating, CallOn
<1>3. Foreign(b, i)
  BY DEF Foreign, Feeds, Holds, Loop, CallOn
<1>4. Become(<<a, b, g>>)
  BY <1>1
<1> HIDE DEF a, b
<1> QED BY <1>2, <1>3, <1>4, ForeignFits, AloneTuples

\* Nothing knows of an identifier that is not in use.
LEMMA NobodyKnows ==
    ASSUME OwnInv, NEW i \in InstId, i \notin UsedInsts
    PROVE  /\ \A w \in items : w.inst # i
           /\ \A f \in Frames : Resting(f, i, items) /\ ~Holds(f, i)
<1>1. \A m \in insts : m.id # i
  BY DEF UsedInsts
<1>2. \A w \in items : w.inst # i
  BY <1>1 DEF OwnInv, Owned, Now, OwnItem, Runs
<1>3. ASSUME NEW f \in Frames PROVE Resting(f, i, items) /\ ~Holds(f, i)
  <2>1. ~Holds(f, i)
    BY <1>1 DEF OwnInv, Fits, OwnItem, Runs, Holds
  <2>2. f.op \in {"scan", "create", "join"} => f.call.inst # i
    BY DEF UsedInsts
  <2> QED BY <2>1, <2>2 DEF Resting, Feeds
<1> QED BY <1>2, <1>3

\* instance.create gives a new instance one item at most.
LEMMA AloneBorn ==
    ASSUME OwnInv, stack # <<>>, NEW i \in InstId, i \notin UsedInsts, NEW w, Sequential(w),
           NEW r, NEW g, Become(CreateInst(i, w, r) \o <<g>>),
           Foreign(g, i), \A v \in items' : v.inst # i
    PROVE  Alone(i)'
<1> DEFINE c == CallOn(i, r, NoSig, FALSE)
           a == Creating(c, StartActs(w))
           b == Loop({c})
           s == <<a, b, g>>
           rest == Tail(stack)
           S == {a, b, g}
           T == S \cup Frame
<1>1. s = CreateInst(i, w, r) \o <<g>>
  BY ThreeFrames DEF CreateInst
<1>2. a.op = "create" /\ a.call.inst = i /\ a.todo = StartActs(w)
  BY DEF Creating, CallOn
<1>3. Foreign(b, i)
  BY DEF Foreign, Feeds, Holds, Loop, CallOn
<1>4. stack' = s \o rest
  BY <1>1 DEF Become
<1>5. Elems(rest) \subseteq Frames /\ rest \in Seq(Frame)
  BY HeadTail DEF OwnInv, TypeOK, Frames, Elems
<1>6. ~Holds(a, i) /\ ~Holds(b, i) /\ ~Holds(g, i)
  BY <1>2, <1>3 DEF Foreign, Holds
<1> HIDE DEF a, b
<1>7. \A h \in Elems(rest) : ~Holds(h, i) /\ Resting(h, i, items')
  <2>1. \A h \in Elems(rest) : ~Holds(h, i) /\ Resting(h, i, items)
    BY <1>5, NobodyKnows
  <2> QED BY <2>1 DEF Resting
<1>8. /\ s \in Seq(S) /\ Head(s) = a /\ Tail(s) = <<b, g>> /\ s # <<>>
      /\ DOMAIN s = {1, 2, 3} /\ s[1] = a /\ s[2] = b /\ s[3] = g
  OBVIOUS
<1> HIDE DEF s
<1>9. Elems(s) = {a, b, g}
  BY <1>8 DEF Elems
<1>10. Elems(Tail(s)) = {b, g} /\ Tail(s) \in Seq(S)
  BY <1>8, SmallSeqs
<1> HIDE DEF S
<1>11. s \in Seq(T) /\ rest \in Seq(T) /\ Tail(s) \in Seq(T)
  BY <1>5, <1>8, <1>10
<1> HIDE DEF T, rest
<1>12. /\ stack' # <<>> /\ Head(stack') = a /\ Tail(stack') = Tail(s) \o rest
  BY <1>4, <1>8, <1>11
<1>13. Elems(Tail(stack')) = {b, g} \cup Elems(rest)
  <2> DEFINE t == Tail(s)
  <2>1. t \in Seq(T) /\ rest \in Seq(T) /\ Elems(t) = {b, g} /\ Tail(stack') = t \o rest
    BY <1>10, <1>11, <1>12
  <2> HIDE DEF t
  <2>2. Elems(t \o rest) = Elems(t) \cup Elems(rest)
    BY <2>1, Concat
  <2> QED BY <2>1, <2>2
<1>14. Elems(stack') = {a, b, g} \cup Elems(rest)
  BY <1>4, <1>9, <1>11, Concat
<1>15. Apart(i, stack')
  BY <1>6, <1>7, <1>14 DEF Apart, Elems
<1>16. Leading(a, i, items')
  BY <1>2, <1>6 DEF Leading, Sequential
<1>17. \A h \in Elems(Tail(stack')) : Resting(h, i, items')
  BY <1>3, <1>7, <1>13, ForeignFits
<1>18. OneRow(i, items')
  BY DEF OneRow
<1> QED BY <1>12, <1>15, <1>16, <1>17, <1>18 DEF Alone

\* A subflow without an action starts an instance while its item runs.
LEMMA AloneSubflowNew ==
    ASSUME OwnInv, ExecuteSubflowNew, \A n \in Singles(insts) : Alone(n.id)
    PROVE  \A n \in Singles(insts') : Alone(n.id)'
<1> DEFINE f == Head(stack)
           k == SubWkf[f.item.act]
           u == [f.item EXCEPT !.state = "running"]
<1>0. PICK i \in InstId :
         /\ i \notin UsedInsts
         /\ insts' = insts \cup {[id |-> i, wkf |-> k, res |-> f.call.res, state |-> "active"]}
         /\ Become(CreateInst(i, k, f.call.res) \o <<[Running(f, <<>>) EXCEPT !.child = i]>>)
  <2> DEFINE j == CHOOSE x \in InstId \ UsedInsts : TRUE
  <2>1. j \in InstId /\ j \notin UsedInsts
    BY DEF ExecuteSubflowNew
  <2>2. /\ insts' = insts \cup {[id |-> j, wkf |-> k, res |-> f.call.res, state |-> "active"]}
        /\ Become(CreateInst(j, k, f.call.res) \o <<[Running(f, <<>>) EXCEPT !.child = j]>>)
    BY DEF ExecuteSubflowNew
  <2> HIDE DEF j
  <2> QED BY <2>1, <2>2
<1> DEFINE m == [id |-> i, wkf |-> k, res |-> f.call.res, state |-> "active"]
           g == [Running(f, <<>>) EXCEPT !.child = i]
<1>1. /\ stack # <<>> /\ AtPc("execute") /\ i \in InstId /\ i \notin UsedInsts
      /\ SetState(f.item.id, "running") /\ insts' = insts \cup {m}
      /\ Become(CreateInst(i, k, f.call.res) \o <<g>>)
  BY <1>0 DEF ExecuteSubflowNew, AtPc, At
<1>2. TypeOK /\ f \in ProcessFrame /\ f.item \in Item /\ Fits(f, insts, items) /\ f.op = "process"
  BY <1>1, OwnTop, FrameOp DEF OwnInv, ProcessFrame, AtPc, At
<1>3. /\ g.op = "process" /\ g.item = u /\ g.pc = "action" /\ g.call = f.call
      /\ u.inst = f.item.inst /\ u.state = "running" /\ u.sub = f.item.sub
  BY <1>2 DEF Running, ProcessFrame, Item
<1>4. f.item.inst # i /\ \A n \in insts : n.id # i
  <2>1. \A n \in insts : n.id # i
    BY <1>1 DEF UsedInsts
  <2> QED BY <1>2, <2>1 DEF Fits, OwnItem, Runs
<1>5. m.id = i /\ m.wkf = k
  OBVIOUS
<1> HIDE DEF k, m, g, u
<1>6. ASSUME NEW n \in Singles(insts) PROVE Alone(n.id)'
  <2>1. Alone(n.id) /\ n.id # i
    BY <1>4 DEF Singles
  <2>2. Rewrites(u)
    BY <1>1, <2>1, SetStateRewrites DEF u
  <2>3. CASE f.item.inst # n.id
    <3>1. RowsOf(n.id, items') = RowsOf(n.id, items)
      BY <1>1, <1>3, <2>1, <2>2, <2>3, RewrittenRow
    <3>2. OneRow(n.id, items') /\ \A h \in Elems(Tail(stack)) : Resting(h, n.id, items')
      BY <1>1, <1>2, <2>1, <3>1, AloneRows
    <3>3. Foreign(g, n.id)
      BY <1>3, <2>3 DEF Foreign, Feeds, Holds
    <3> QED BY <1>1, <1>2, <2>1, <3>2, <3>3, ForeignFits, AloneBeside
  <2>4. CASE f.item.inst = n.id
    <3>1. RowsOf(n.id, items') = {u} /\ Drives(f, n.id) /\ f.item.sub = NoInst
      BY <1>1, <1>3, <2>1, <2>2, <2>4, RewrittenRow, OwnRow
    <3>2. u \in items' /\ \A w \in items' : w.inst = n.id => w = u
      BY <3>1 DEF RowsOf
    <3>3. OneRow(n.id, items')
      BY <1>3, <3>2 DEF OneRow
    <3>4. (\A h \in Elems(Tail(stack)) : Resting(h, n.id, items')) /\ Clear(g, n.id)
      BY <1>1, <1>2, <2>1, <3>1, DriverClears
    <3>5. Resting(g, n.id, items')
      BY <1>3, <3>1, <3>2 DEF Resting, Feeds, Holds
    <3> QED BY <1>1, <1>2, <2>1, <3>3, <3>4, <3>5, AloneBeside
  <2> QED BY <2>3, <2>4
<1>7. ASSUME Sequential(k) PROVE Alone(i)'
  <2>1. Foreign(g, i)
    BY <1>3, <1>4 DEF Foreign, Feeds, Holds
  <2>2. \A w \in items' : w.inst # i
    <3> SUFFICES ASSUME NEW w \in items' PROVE w.inst # i
      OBVIOUS
    <3>1. PICK v \in items : w = IF v.id = f.item.id THEN [v EXCEPT !.state = "running"] ELSE v
      BY <1>1 DEF SetState
    <3>2. v.inst # i /\ v \in Item
      BY <1>1, NobodyKnows DEF OwnInv, TypeOK
    <3> QED BY <3>1, <3>2 DEF Item
  <2> HIDE DEF f
  <2> QED BY <1>1, <1>7, <2>1, <2>2, AloneBorn
<1>8. ASSUME NEW n \in Singles(insts') PROVE Alone(n.id)'
  <2>1. n \in Singles(insts) \/ (n.id = i /\ Sequential(k))
    BY <1>1, <1>5 DEF Singles
  <2> QED BY <1>6, <1>7, <2>1
<1> QED BY <1>8

\* trg_create starts instances one after the other.
LEMMA AloneStartNext ==
    ASSUME OwnInv, StartNext, \A n \in Singles(insts) : Alone(n.id)
    PROVE  \A n \in Singles(insts') : Alone(n.id)'
<1> DEFINE f == Head(stack)
<1>2. PICK i \in InstId, k \in f.todo :
         /\ i \notin UsedInsts
         /\ insts' = insts \cup {[id |-> i, wkf |-> k, res |-> f.res, state |-> "active"]}
         /\ Become(CreateInst(i, k, f.res) \o <<[f EXCEPT !.todo = @ \ {k}]>>)
  <2> DEFINE j == CHOOSE x \in InstId \ UsedInsts : TRUE
  <2>1. j \in InstId /\ j \notin UsedInsts
    BY DEF StartNext
  <2>2. PICK k \in f.todo :
           /\ insts' = insts \cup {[id |-> j, wkf |-> k, res |-> f.res, state |-> "active"]}
           /\ Become(CreateInst(j, k, f.res) \o <<[f EXCEPT !.todo = @ \ {k}]>>)
    BY DEF StartNext
  <2> HIDE DEF j
  <2> QED BY <2>1, <2>2
<1>1. stack # <<>> /\ f.op = "start" /\ i \in InstId /\ i \notin UsedInsts /\ items' = items
  BY <1>2 DEF StartNext, At
<1> DEFINE m == [id |-> i, wkf |-> k, res |-> f.res, state |-> "active"]
           g == [f EXCEPT !.todo = @ \ {k}]
<1>3. TypeOK /\ f \in StartFrame
  BY <1>1, OwnTop, FrameOp DEF OwnInv
<1>4. g.op = "start" /\ m.id = i /\ m.wkf = k
  BY <1>3 DEF StartFrame
<1>5. insts' = insts \cup {m} /\ Become(CreateInst(i, k, f.res) \o <<g>>)
  BY <1>2
<1>6. \A j : Foreign(g, j)
  BY <1>4, MildPush DEF Mild
<1>7. \A n \in insts : n.id # i
  BY <1>1 DEF UsedInsts
<1> HIDE DEF m, g
<1>8. ASSUME NEW n \in Singles(insts) PROVE Alone(n.id)'
  <2>1. Alone(n.id) /\ n.id # i
    BY <1>7 DEF Singles
  <2>2. OneRow(n.id, items') /\ \A h \in Elems(Tail(stack)) : Resting(h, n.id, items')
    BY <1>1, <2>1 DEF Alone
  <2> QED BY <1>1, <1>3, <1>5, <1>6, <2>1, <2>2, ForeignFits, AloneBeside
<1>9. ASSUME Sequential(k) PROVE Alone(i)'
  <2>1. \A w \in items' : w.inst # i
    BY <1>1, NobodyKnows
  <2> HIDE DEF f
  <2> QED BY <1>1, <1>5, <1>6, <1>9, <2>1, AloneBorn
<1>10. ASSUME NEW n \in Singles(insts') PROVE Alone(n.id)'
  <2>1. n \in Singles(insts) \/ (n.id = i /\ Sequential(k))
    BY <1>4, <1>5 DEF Singles
  <2> QED BY <1>8, <1>9, <2>1
<1> QED BY <1>10

\* With an empty stack only the rows count.
LEMMA AloneEmpty ==
    ASSUME NEW i, OneRow(i, items'), stack' = <<>>
    PROVE  Alone(i)'
BY DEF Alone, Apart

\* A request that calls the engine starts with one frame that knows no item.
LEMMA AloneFirst ==
    ASSUME NEW i, OneRow(i, items'), NEW a, stack' = <<a>>, Mild(a)
    PROVE  Alone(i)'
<1> DEFINE s == <<a>>
<1>1. Foreign(a, i)
  BY MildPush
<1>2. Leading(a, i, items')
  BY <1>1, ForeignFits
<1>3. s # <<>> /\ Head(s) = a /\ Tail(s) = <<>> /\ Elems(Tail(s)) = {} /\ Apart(i, s)
  <2>1. s # <<>> /\ Head(s) = a /\ Tail(s) = <<>>
    OBVIOUS
  <2>2. DOMAIN s = {1}
    OBVIOUS
  <2> QED BY <2>1, <2>2, SmallSeqs DEF Apart
<1> QED BY <1>2, <1>3 DEF Alone

\* The requests.
LEMMA AloneRequest ==
    ASSUME OwnInv, \A n \in Singles(insts) : OneRow(n.id, items), Request
    PROVE  \A n \in Singles(insts') : Alone(n.id)'
<1>1. ASSUME NEW r, TrgCreate(r) PROVE \A n \in Singles(insts') : Alone(n.id)'
  <2>1. stack' = <<Starting(r)>> /\ insts' = insts /\ items' = items
    BY <1>1 DEF TrgCreate
  <2>2. Mild(Starting(r))
    BY DEF Mild, Starting
  <2> QED BY <2>1, <2>2, AloneFirst
<1>2. ASSUME NEW rows, NEW s, stack' = <<Validates(rows, s)>>, insts' = insts, items' = items
      PROVE  \A n \in Singles(insts') : Alone(n.id)'
  <2>1. Mild(Validates(rows, s))
    BY DEF Mild, Validates, Loop, CallFor, CallOn
  <2> QED BY <1>2, <2>1, AloneFirst
<1>3. ASSUME NEW rows, stack' = <<Updates(rows)>>, insts' = insts, items' = items
      PROVE  \A n \in Singles(insts') : Alone(n.id)'
  <2>1. Mild(Updates(rows))
    BY DEF Mild, Updates, Loop, CallFor, CallOn
  <2> QED BY <1>3, <2>1, AloneFirst
<1>4. ASSUME NEW r, TrgDelete(r) PROVE \A n \in Singles(insts') : Alone(n.id)'
  <2>1. stack' = <<>> /\ insts' \subseteq insts /\ items' \subseteq items
    BY <1>4 DEF TrgDelete, Ready, DeleteItems
  <2>2. ASSUME NEW n \in Singles(insts') PROVE Alone(n.id)'
    <3>1. OneRow(n.id, items)
      BY <2>1 DEF Singles
    <3>2. OneRow(n.id, items')
      BY <2>1, <3>1 DEF OneRow
    <3> QED BY <2>1, <3>2, AloneEmpty
  <2> QED BY <2>2
<1>5. ASSUME NEW r, NEW new, TrgRedirect(r, new) PROVE \A n \in Singles(insts') : Alone(n.id)'
  <2> DEFINE g(w) == IF Successors(r, new, w.sub) = {} THEN w
                     ELSE [w EXCEPT !.sub = (CHOOSE n \in Successors(r, new, w.sub) : TRUE).id]
  <2>1. stack' = <<>> /\ insts' = insts /\ items' = {g(w) : w \in items}
    BY <1>5 DEF TrgRedirect, Ready
  <2>2. Successors(r, new, NoInst) = {}
    BY ConstantsAssumption DEF Successors, InstsOn, OwnInv, TypeOK, Inst
  <2>3. \A w \in items : /\ g(w).inst = w.inst /\ g(w).state = w.state
                         /\ w.sub = NoInst => g(w) = w
    BY <2>2 DEF OwnInv, TypeOK, Item
  <2> HIDE DEF g
  <2>4. ASSUME NEW n \in Singles(insts') PROVE Alone(n.id)'
    <3>1. OneRow(n.id, items)
      BY <2>1
    <3>2. OneRow(n.id, items')
      BY <2>1, <2>3, <3>1 DEF OneRow
    <3> QED BY <2>1, <3>2, AloneEmpty
  <2> QED BY <2>4
<1>6. ASSUME NEW r, NEW d, TrgWrite(r, d) PROVE \A n \in Singles(insts') : Alone(n.id)'
  BY <1>3, <1>6 DEF TrgWrite
<1>7. ASSUME NEW r, NEW s, TrgValidate(r, s) PROVE \A n \in Singles(insts') : Alone(n.id)'
  BY <1>2, <1>7 DEF TrgValidate, tables
<1>8. ASSUME NEW r, NEW d, TrgTrigger(r, d) PROVE \A n \in Singles(insts') : Alone(n.id)'
  BY <1>3, <1>8 DEF TrgTrigger
<1> QED BY <1>1, <1>4, <1>5, <1>6, <1>7, <1>8 DEF Request

\* Only a commit writes the committed tables.
LEMMA SavedStays ==
    ASSUME Engine \/ Request
    PROVE  saved' = saved
<1>1. CASE LoopNext \/ LoopEnd \/ ScanNext \/ UpdateEndOpen \/ UpdateEndDone \/ CreateNext \/ CreateEnd
  BY <1>1 DEF LoopNext, LoopEnd, ScanNext, UpdateEndOpen, UpdateEndDone, CreateNext, CreateEnd
<1>2. CASE SendSignal \/ ExecuteDummy \/ ExecuteFunction \/ ExecuteStopAll \/ ExecuteSubflow
           \/ ExecuteSubflowNew
  BY <1>2 DEF SendSignal, ExecuteDummy, ExecuteFunction, ExecuteStopAll, ExecuteSubflow,
              ExecuteSubflowNew
<1>3. CASE ActionWrite \/ ActionNew \/ ActionFind \/ ActionSignal \/ ActionTrigger \/ ActionEnd
           \/ ActionNoSubflow \/ ActionLink
  BY <1>3 DEF ActionWrite, ActionNew, ActionFind, ActionSignal, ActionTrigger, ActionEnd,
              ActionNoSubflow, ActionLink
<1>4. CASE SplitFire \/ SplitStay \/ JoinNext \/ JoinClear \/ JoinEnd \/ StartNext \/ StartEnd
  BY <1>4 DEF SplitFire, SplitStay, JoinNext, JoinClear, JoinEnd, StartNext, StartEnd
<1>5. CASE Request
  BY <1>5 DEF Request, TrgCreate, TrgTrigger, TrgDelete, TrgWrite, TrgValidate, TrgRedirect
<1> QED BY <1>1, <1>2, <1>3, <1>4, <1>5 DEF Engine

\* Three steps of the engine write wkf_instance.
LEMMA InstsStay ==
    ASSUME Engine, ~ExecuteSubflowNew, ~StartNext, ~UpdateEndDone
    PROVE  insts' = insts
<1>1. CASE LoopNext \/ LoopEnd \/ ScanNext \/ UpdateEndOpen \/ CreateNext \/ CreateEnd
           \/ SendSignal \/ ExecuteDummy \/ ExecuteFunction \/ ExecuteStopAll \/ ExecuteSubflow
  BY <1>1 DEF LoopNext, LoopEnd, ScanNext, UpdateEndOpen, CreateNext, CreateEnd, SendSignal,
              ExecuteDummy, ExecuteFunction, ExecuteStopAll, ExecuteSubflow, tables
<1>2. CASE ActionWrite \/ ActionNew \/ ActionFind \/ ActionSignal \/ ActionTrigger \/ ActionEnd
           \/ ActionNoSubflow \/ ActionLink
  BY <1>2 DEF ActionWrite, ActionNew, ActionFind, ActionSignal, ActionTrigger, ActionEnd,
              ActionNoSubflow, ActionLink, tables
<1>3. CASE SplitFire \/ SplitStay \/ JoinNext \/ JoinClear \/ JoinEnd \/ StartEnd
  BY <1>3 DEF SplitFire, SplitStay, JoinNext, JoinClear, JoinEnd, StartEnd, tables
<1> QED BY <1>1, <1>2, <1>3 DEF Engine

\* _update_end changes the state of a row.
LEMMA InstsDone ==
    ASSUME UpdateEndDone, NEW n \in insts'
    PROVE  \E m \in insts : /\ n.id = m.id /\ n.wkf = m.wkf
                            /\ m.id # Head(stack).call.inst => n = m
                            /\ n.state = "complete" =>
                                  m.state = "complete" \/ m.id = Head(stack).call.inst
<1> DEFINE g(m) == IF m.id = Head(stack).call.inst THEN [m EXCEPT !.state = "complete"] ELSE m
<1>1. PICK m \in insts : n = g(m)
  BY DEF UpdateEndDone
<1>2. n.id = m.id /\ n.wkf = m.wkf /\ (m.id # Head(stack).call.inst => n = m)
  BY <1>1
<1> HIDE DEF g
<1> QED BY <1>2

\* The other two add one, with an identifier that is not in use.
LEMMA InstsBorn ==
    ASSUME ExecuteSubflowNew \/ StartNext
    PROVE  \E i \in InstId \ UsedInsts : \E k, r, g :
              /\ insts' = insts \cup {[id |-> i, wkf |-> k, res |-> r, state |-> "active"]}
              /\ Become(CreateInst(i, k, r) \o <<g>>)
<1> DEFINE i == CHOOSE x \in InstId \ UsedInsts : TRUE
<1>1. i \in InstId \ UsedInsts
  BY DEF ExecuteSubflowNew, StartNext
<1>2. \E k, r, g :
         /\ insts' = insts \cup {[id |-> i, wkf |-> k, res |-> r, state |-> "active"]}
         /\ Become(CreateInst(i, k, r) \o <<g>>)
  BY DEF ExecuteSubflowNew, StartNext
<1> HIDE DEF i
<1> QED BY <1>1, <1>2

\* The rows of the instances a step of the engine keeps.
LEMMA SameSingles ==
    ASSUME Engine, ~ExecuteSubflowNew, ~StartNext, NEW n \in Singles(insts')
    PROVE  \E m \in Singles(insts) : m.id = n.id
<1>1. \E m \in insts : m.id = n.id /\ m.wkf = n.wkf
  BY InstsDone, InstsStay DEF Singles
<1> QED BY <1>1 DEF Singles

\* The engine leaves every instance of one token alone.
LEMMA AloneEngine ==
    ASSUME OwnInv, \A n \in Singles(insts) : Alone(n.id), Engine
    PROVE  \A n \in Singles(insts') : Alone(n.id)'
<1>1. CASE ExecuteSubflowNew \/ StartNext
  BY <1>1, AloneSubflowNew, AloneStartNext
<1>2. CASE ~ExecuteSubflowNew /\ ~StartNext
  <2>1. ASSUME NEW n \in Singles(insts) PROVE Alone(n.id)'
    BY <1>2, AloneEnds, AloneLoopNext, AloneScanNext, AloneDone, AloneSend, AloneCreateNext,
       AloneExecute, AloneStopAll, AloneLink, AloneCalls, AloneNoSubflow, AloneFire, AloneJoinNext
       DEF Engine
  <2>2. ASSUME NEW n \in Singles(insts') PROVE Alone(n.id)'
    <3>1. PICK m \in Singles(insts) : m.id = n.id
      BY <1>2, SameSingles
    <3> QED BY <2>1, <3>1
  <2> QED BY <2>2
<1> QED BY <1>1, <1>2

\* Every step does.
LEMMA AloneNext == OwnInv /\ AloneInv /\ [Next]_vars => AloneInv'
<1> SUFFICES ASSUME OwnInv, AloneInv, [Next]_vars PROVE AloneInv'
  OBVIOUS
<1>1. /\ \A n \in Singles(insts) : Alone(n.id) /\ OneRow(n.id, items)
      /\ \A n \in Singles(saved.insts) : OneRow(n.id, saved.items)
  BY DEF AloneInv, Alone
<1>2. CASE Engine \/ Request
  <2>1. saved' = saved
    BY <1>2, SavedStays
  <2>2. \A n \in Singles(insts') : Alone(n.id)'
    BY <1>1, <1>2, AloneEngine, AloneRequest
  <2> QED BY <1>1, <2>1, <2>2 DEF AloneInv, Singles
<1>3. CASE Commit
  <2>1. /\ insts' = insts /\ items' = items /\ stack' = stack
        /\ saved'.insts = insts /\ saved'.items = items
    BY <1>3 DEF Commit, tables, Now
  <2> QED BY <1>1, <2>1 DEF AloneInv, Alone, Singles
<1>4. CASE Rollback
  <2>1. insts' = saved.insts /\ items' = saved.items /\ stack' = <<>> /\ saved' = saved
    BY <1>4 DEF Rollback
  <2>2. ASSUME NEW n \in Singles(insts') PROVE Alone(n.id)'
    BY <1>1, <2>1, AloneEmpty
  <2> QED BY <1>1, <2>1, <2>2 DEF AloneInv, Singles
<1>5. CASE UNCHANGED vars
  BY <1>1, <1>5 DEF vars, AloneInv, Alone, Singles
<1> QED BY <1>2, <1>3, <1>4, <1>5 DEF Next

\* No instance is there at the start.
LEMMA AloneInit == Init => AloneInv
BY DEF Init, Now, AloneInv, Singles

\* One item for each of these instances, from the start and after every step.
LEMMA AloneHolds == Spec => [](OwnInv /\ AloneInv)
BY OwnInit, OwnNext, AloneInit, AloneNext, PTL DEF Spec

\* The instances of the workflow k have one item at most, in the tables a
\* request works on and in the committed ones.
OneTokenIn(k) ==
    /\ \A n \in insts, v, w \in items :
          n.wkf = k /\ v.inst = n.id /\ w.inst = n.id => v = w
    /\ \A n \in saved.insts, v, w \in saved.items :
          n.wkf = k /\ v.inst = n.id /\ w.inst = n.id => v = w

\* A workflow that splits no token never has two, in the middle of nested calls,
\* after a rollback or between requests, whatever the other workflows do: no
\* activity of a document is executed twice over.
THEOREM OneToken ==
    ASSUME NEW k \in Wkf, Sequential(k)
    PROVE  Spec => []OneTokenIn(k)
<1>1. OwnInv /\ AloneInv => OneTokenIn(k)
  BY DEF AloneInv, Alone, OneRow, Singles, OneTokenIn
<1> QED BY <1>1, AloneHolds, PTL

\* The dictionary the running workitem.process holds of an item of the workflow
\* k is the row of the table, and it executes an active row.
FreshIn(k) ==
    At("process") /\ ActWkf[Head(stack).item.act] = k =>
        /\ Head(stack).item \in items
        /\ AtPc("execute") => Head(stack).item.state = "active"

\* The invariants say so of a workflow that splits no token.
LEMMA FreshTop ==
    ASSUME OwnInv, AloneInv, NEW k, Sequential(k)
    PROVE  FreshIn(k)
<1> SUFFICES ASSUME At("process"), ActWkf[Head(stack).item.act] = k
             PROVE  /\ Head(stack).item \in items
                    /\ AtPc("execute") => Head(stack).item.state = "active"
  BY DEF FreshIn
<1> DEFINE f == Head(stack)
<1>1. stack # <<>> /\ f.op = "process"
  BY DEF At
<1>2. Fits(f, insts, items)
  BY <1>1, OwnTop
<1>3. PICK n \in insts : n.id = f.item.inst /\ n.wkf = k
  BY <1>1, <1>2 DEF Fits, OwnItem, Runs
<1>4. Leading(f, n.id, items)
  BY <1>1, <1>3 DEF AloneInv, Alone, Singles
<1> QED BY <1>1, <1>3, <1>4 DEF Leading, Holds, AtPc

\* In a workflow that splits no token the engine never works on a dictionary that
\* has gone stale, though it keeps them across every nested call it makes.
THEOREM FreshHolds ==
    ASSUME NEW k \in Wkf, Sequential(k)
    PROVE  Spec => []FreshIn(k)
<1>1. OwnInv /\ AloneInv => FreshIn(k)
  BY FreshTop
<1> QED BY <1>1, AloneHolds, PTL

\* Where no workflow splits a token none comes back from a stale dictionary: an
\* item is executed while its row is active and fires while its row is there.
THEOREM NoTokenRevivedHolds ==
    ASSUME \A k \in Wkf : Sequential(k)
    PROVE  Spec => NoTokenRevived
<1> DEFINE Fresh ==
      stack' # <<>> =>
         /\ AtPc("execute") =>
              \E w \in items : w.id = Head(stack).item.id /\ w.state = "active"
         /\ AtPc("split") /\ Head(stack').op = "join" =>
              \/ \E w \in items : w.id = Head(stack).item.id
              \/ \A t \in Head(stack').todo : Kind[To[t]] = "stopall"
<1>1. ASSUME OwnInv, AloneInv PROVE Fresh
  <2>1. ASSUME AtPc("execute") \/ AtPc("split")
        PROVE  Head(stack).item \in items /\ (AtPc("execute") => Head(stack).item.state = "active")
    <3>1. stack # <<>> /\ Head(stack).op = "process" /\ At("process")
      BY <2>1 DEF AtPc, At
    <3>2. Head(stack) \in ProcessFrame
      BY <1>1, <3>1, OwnTop, FrameOp
    <3>3. ActWkf[Head(stack).item.act] \in Wkf
      BY <3>2, ConstantsAssumption DEF ProcessFrame, Item
    <3> QED BY <1>1, <3>1, <3>3, FreshTop DEF FreshIn
  <2> QED BY <2>1
<1>2. OwnInv /\ AloneInv => Fresh
  BY <1>1
<1>3. NoTokenRevived <=> [][Fresh]_vars
  BY DEF NoTokenRevived
<1> HIDE DEF Fresh
<1>4. Spec => [][Fresh]_vars
  BY <1>2, AloneHolds, PTL
<1> QED BY <1>3, <1>4

-----------------------------------------------------------------------------
(* The life of the one token.  At a step of the engine an instance of such *)
(* a workflow is told by its item and by whether the top frame is to give  *)
(* it one.                                                                 *)

Fed(i) == stack # <<>> /\ Feeds(Head(stack), i) /\ Head(stack).todo # {}

\* What a step makes of an item that stays.
Onward(w, v) ==
    /\ w.act = v.act
    /\ v.state = "complete" => w.state = "complete"
    /\ v.sub = NoInst /\ Kind[v.act] # "subflow" => w.sub = NoInst

\* The token stays where it is, only the item of a subflow may go ...
Stand(i) ==
    /\ ~Fed(i) /\ ~Fed(i)'
    /\ \A w \in RowsOf(i, items') : \E v \in RowsOf(i, items) : Onward(w, v)
    /\ \A v \in RowsOf(i, items) : Kind[v.act] # "subflow" => RowsOf(i, items') # {}
\* ... or it leaves an activity that has a transition ...
Leave(i) ==
    /\ ~Fed(i) /\ Fed(i)' /\ RowsOf(i, items') = {}
    /\ \E v \in RowsOf(i, items) : FromAct(v.act) # {}
\* ... passes a join ...
Pass(i) == Fed(i) /\ Fed(i)' /\ RowsOf(i, items') = RowsOf(i, items)
\* ... comes to its activity ...
Come(i) == Fed(i) /\ ~Fed(i)' /\ \E w : RowsOf(i, items') = {w} /\ w.sub = NoInst
\* ... or waits in wkf_witm_trans for the other inputs of an AND join.
Wait(i, k) ==
    /\ Fed(i) /\ ~Fed(i)' /\ RowsOf(i, items') = RowsOf(i, items)
    /\ \E a \in ActsOf(k) : JoinMode[a] # "XOR"

Turn(n) == Stand(n.id) \/ Leave(n.id) \/ Pass(n.id) \/ Come(n.id) \/ Wait(n.id, n.wkf)

\* Who is to give i an item after a step is among the frames pushed.
LEMMA FedStep ==
    ASSUME TypeOK, stack # <<>>, NEW i, Alone(i)
    PROVE  /\ Become(<<>>) => ~Fed(i)'
           /\ \A a : Become(<<a>>) => (Fed(i)' <=> Feeds(a, i) /\ a.todo # {})
           /\ \A a, b : Become(<<a, b>>) => (Fed(i)' <=> Feeds(a, i) /\ a.todo # {})
           /\ \A a, b, c : Become(<<a, b, c>>) => (Fed(i)' <=> Feeds(a, i) /\ a.todo # {})
<1> DEFINE r == Tail(stack)
<1>1. r \in Seq(Frame)
  BY HeadTail DEF TypeOK
<1>2. \A h \in Elems(r) : Feeds(h, i) => h.todo = {}
  BY DEF Alone, Resting
<1> HIDE DEF r
<1>3. ASSUME Become(<<>>) PROVE ~Fed(i)'
  <2>1. stack' = r
    BY <1>1, <1>3 DEF Become, r
  <2>2. stack' # <<>> => Head(stack') \in Elems(r)
    BY <1>1, <2>1, HeadTail
  <2> QED BY <1>2, <2>2 DEF Fed
<1>4. ASSUME NEW a, stack' # <<>>, Head(stack') = a PROVE Fed(i)' <=> Feeds(a, i) /\ a.todo # {}
  BY <1>4 DEF Fed
<1>5. ASSUME NEW a, Become(<<a>>) PROVE stack' # <<>> /\ Head(stack') = a
  <2>1. <<a>> \in Seq({a} \cup Frame) /\ r \in Seq({a} \cup Frame) /\ stack' = <<a>> \o r
    BY <1>1, <1>5 DEF Become, r
  <2> QED BY <2>1
<1>6. ASSUME NEW a, NEW b, Become(<<a, b>>) PROVE stack' # <<>> /\ Head(stack') = a
  <2>1. <<a, b>> \in Seq({a, b} \cup Frame) /\ r \in Seq({a, b} \cup Frame) /\ stack' = <<a, b>> \o r
    BY <1>1, <1>6 DEF Become, r
  <2> QED BY <2>1
<1>7. ASSUME NEW a, NEW b, NEW c, Become(<<a, b, c>>) PROVE stack' # <<>> /\ Head(stack') = a
  <2>1. /\ <<a, b, c>> \in Seq({a, b, c} \cup Frame) /\ r \in Seq({a, b, c} \cup Frame)
        /\ stack' = <<a, b, c>> \o r
    BY <1>1, <1>7 DEF Become, r
  <2> QED BY <2>1
<1> QED BY <1>3, <1>4, <1>5, <1>6, <1>7

\* instance.create is to give an item to the new instance, if it has a start.
LEMMA FedBorn ==
    ASSUME TypeOK, stack # <<>>, NEW j, NEW k, NEW r, NEW g, Become(CreateInst(j, k, r) \o <<g>>)
    PROVE  \A i : Fed(i)' <=> i = j /\ StartActs(k) # {}
<1> DEFINE a == Creating(CallOn(j, r, NoSig, FALSE), StartActs(k))
           b == Loop({CallOn(j, r, NoSig, FALSE)})
           rest == Tail(stack)
           S == {a, b, g} \cup Frame
<1>1. CreateInst(j, k, r) \o <<g>> = <<a, b, g>>
  BY ThreeFrames DEF CreateInst
<1>2. a.op = "create" /\ a.call.inst = j /\ a.todo = StartActs(k)
  BY DEF Creating, CallOn
<1>3. stack' = <<a, b, g>> \o rest /\ rest \in Seq(Frame)
  BY <1>1, HeadTail DEF Become, TypeOK
<1> HIDE DEF a, b, rest
<1>4. <<a, b, g>> \in Seq(S) /\ rest \in Seq(S)
  BY <1>3
<1> HIDE DEF S
<1>5. stack' # <<>> /\ Head(stack') = a
  BY <1>3, <1>4
<1> QED BY <1>2, <1>5 DEF Fed, Feeds

\* A step that leaves the rows of i and puts no frame that feeds it on top.
LEMMA StandStill ==
    ASSUME NEW i, ~Fed(i), ~Fed(i)', RowsOf(i, items') = RowsOf(i, items)
    PROVE  Stand(i)
BY DEF Stand, Onward

\* The steps that write no work item and neither split nor join.
LEMMA TurnQuiet ==
    ASSUME OwnInv, NEW n \in Singles(insts), Alone(n.id),
           \/ LoopNext \/ LoopEnd \/ ScanNext \/ UpdateEndOpen \/ CreateEnd \/ SendSignal
           \/ SplitStay \/ JoinClear \/ JoinEnd \/ StartEnd
           \/ ActionWrite \/ ActionNew \/ ActionFind \/ ActionSignal \/ ActionTrigger
    PROVE  Turn(n)
<1> DEFINE f == Head(stack)
           i == n.id
<1>1. CASE LoopEnd \/ UpdateEndOpen \/ CreateEnd \/ SplitStay \/ JoinClear \/ JoinEnd \/ StartEnd
  <2>1. stack # <<>> /\ Become(<<>>) /\ items' = items /\ (Feeds(f, i) => f.todo = {})
    BY <1>1 DEF LoopEnd, UpdateEndOpen, CreateEnd, SplitStay, JoinClear, JoinEnd, StartEnd,
                At, AtPc, tables, Feeds
  <2>2. ~Fed(i)'
    BY <2>1, FedStep DEF OwnInv
  <2> QED BY <2>1, <2>2, StandStill DEF Fed, Turn
<1>2. ASSUME stack # <<>>, items' = items, ~Feeds(f, i),
             NEW a, ~Feeds(a, i), Become(<<a>>) \/ \E b : Become(<<a, b>>)
      PROVE  Turn(n)
  <2>1. ~Fed(i)'
    BY <1>2, FedStep DEF OwnInv
  <2> QED BY <1>2, <2>1, StandStill DEF Fed, Turn
<1>3. CASE LoopNext
  <2>1. stack # <<>> /\ items' = items /\ ~Feeds(f, i)
    BY <1>3 DEF LoopNext, At, tables, Feeds
  <2>2. PICK c : \E b : Become(<<Scan(c), b>>)
    BY <1>3 DEF LoopNext
  <2>3. ~Feeds(Scan(c), i)
    BY DEF Scan, Feeds
  <2> HIDE DEF f, i
  <2> QED BY <1>2, <2>1, <2>2, <2>3
<1>4. CASE ScanNext
  <2>1. stack # <<>> /\ items' = items /\ ~Feeds(f, i)
    BY <1>4 DEF ScanNext, At, tables, Feeds
  <2>2. PICK w, c : \E b : Become(<<Process(w, c), b>>)
    BY <1>4 DEF ScanNext
  <2>3. ~Feeds(Process(w, c), i)
    BY DEF Process, Feeds
  <2> HIDE DEF f, i
  <2> QED BY <1>2, <2>1, <2>2, <2>3
<1>5. CASE SendSignal
  <2>1. stack # <<>> /\ items' = items /\ ~Feeds(f, i)
    BY <1>5 DEF SendSignal, AtPc, At, tables, Feeds
  <2>2. PICK todo : \E b : Become(<<Loop(todo), b>>)
    BY <1>5 DEF SendSignal
  <2>3. ~Feeds(Loop(todo), i)
    BY DEF Loop, Feeds
  <2> HIDE DEF f, i
  <2> QED BY <1>2, <2>1, <2>2, <2>3
<1>6. CASE ActionWrite \/ ActionSignal \/ ActionTrigger
  <2>1. stack # <<>> /\ items' = items /\ ~Feeds(f, i)
    BY <1>6 DEF ActionWrite, ActionSignal, ActionTrigger, NextCall, AtPc, At, tables, Feeds
  <2>2. PICK todo : \E b : Become(<<Loop(todo), b>>)
    BY <1>6 DEF ActionWrite, ActionSignal, ActionTrigger, Updates, Validates
  <2>3. ~Feeds(Loop(todo), i)
    BY DEF Loop, Feeds
  <2> HIDE DEF f, i
  <2> QED BY <1>2, <2>1, <2>2, <2>3
<1>7. CASE ActionNew
  <2>1. stack # <<>> /\ items' = items /\ ~Feeds(f, i)
    BY <1>7 DEF ActionNew, NextCall, AtPc, At, tables, Feeds
  <2>2. PICK r : \E b : Become(<<Starting(r), b>>)
    BY <1>7 DEF ActionNew
  <2>3. ~Feeds(Starting(r), i)
    BY DEF Starting, Feeds
  <2> HIDE DEF f, i
  <2> QED BY <1>2, <2>1, <2>2, <2>3
<1>8. CASE ActionFind
  <2>1. stack # <<>> /\ items' = items /\ ~Feeds(f, i) /\ f \in ProcessFrame
    BY <1>8, OwnTop, FrameOp DEF ActionFind, NextCall, AtPc, At, tables, Feeds, OwnInv
  <2>2. PICK r : Become(<<[Called(f) EXCEPT !.made = r]>>)
    BY <1>8 DEF ActionFind
  <2>3. ~Feeds([Called(f) EXCEPT !.made = r], i)
    BY <2>1 DEF Called, ProcessFrame, Feeds
  <2> HIDE DEF f, i
  <2> QED BY <1>2, <2>1, <2>2, <2>3
<1> QED BY <1>1, <1>3, <1>4, <1>5, <1>6, <1>7, <1>8

\* The items that wait for an instance become complete with it.
LEMMA TurnDone ==
    ASSUME OwnInv, NEW n \in Singles(insts), Alone(n.id), UpdateEndDone
    PROVE  Stand(n.id)
<1> DEFINE f == Head(stack)
           i == n.id
           j == f.call.inst
           done(w) == IF w.sub = j THEN [w EXCEPT !.state = "complete"] ELSE w
<1>1. /\ stack # <<>> /\ f.op = "scan" /\ items' = {done(w) : w \in items}
      /\ \E todo : Become(<<Loop(todo)>>)
  BY DEF UpdateEndDone, At, WaitersComplete
<1>2. PICK todo : Become(<<Loop(todo)>>)
  BY <1>1
<1>3. ~Feeds(Loop(todo), i)
  BY DEF Loop, Feeds
<1>4. ~Fed(i) /\ ~Fed(i)'
  <2> HIDE DEF f, i
  <2> QED BY <1>1, <1>2, <1>3, FedStep DEF OwnInv, Fed, Feeds, f, i
<1>5. \A w \in items : /\ done(w).inst = w.inst /\ Onward(done(w), w)
  BY DEF OwnInv, TypeOK, Item, Onward
<1> HIDE DEF done, f, i, j
<1>6. \A w \in RowsOf(i, items') : \E v \in RowsOf(i, items) : Onward(w, v)
  BY <1>1, <1>5 DEF RowsOf
<1>7. \A v \in RowsOf(i, items) : RowsOf(i, items') # {}
  BY <1>1, <1>5 DEF RowsOf
<1> QED BY <1>4, <1>6, <1>7 DEF Stand, i

\* A call that executes its item makes u of the row and keeps i unfed.
LEMMA StandItem ==
    ASSUME OwnInv, stack # <<>>, NEW n \in Singles(insts), Alone(n.id),
           AtPc("execute") \/ AtPc("action"),
           NEW u, u.inst = Head(stack).item.inst, Rewrites(u), ~Fed(n.id)',
           u.act = Head(stack).item.act,
           Kind[u.act] # "subflow" => u.sub = Head(stack).item.sub
    PROVE  Stand(n.id)
<1> DEFINE f == Head(stack)
           i == n.id
<1>1. ~Fed(i)
  BY DEF AtPc, At, Fed, Feeds
<1>2. CASE f.item.inst # i
  BY <1>1, <1>2, RewrittenRow, StandStill
<1>3. CASE f.item.inst = i
  <2>1. RowsOf(i, items') = {u}
    BY <1>3, RewrittenRow
  <2>2. f.item \in RowsOf(i, items) /\ f.item.state \in {"active", "running"}
    BY <1>3, OwnRow DEF RowsOf
  <2> HIDE DEF i
  <2>3. Onward(u, f.item)
    BY <2>2 DEF Onward
  <2> QED BY <1>1, <2>1, <2>2, <2>3 DEF Stand, i
<1> QED BY <1>2, <1>3

\* _execute.
LEMMA TurnExecute ==
    ASSUME OwnInv, NEW n \in Singles(insts), Alone(n.id),
           ExecuteDummy \/ ExecuteFunction \/ ExecuteSubflow \/ ExecuteSubflowNew \/ ActionEnd
    PROVE  Stand(n.id)
<1> DEFINE f == Head(stack)
           u(s) == [f.item EXCEPT !.state = s]
<1>1. stack # <<>> /\ (AtPc("execute") \/ AtPc("action"))
  BY DEF ExecuteDummy, ExecuteFunction, ExecuteSubflow, ExecuteSubflowNew, ActionEnd, AtPc, At
<1>2. f \in ProcessFrame /\ f.item \in Item /\ f.op = "process" /\ TypeOK
  BY <1>1, OwnRow DEF OwnInv
<1>3. \A s : u(s).inst = f.item.inst /\ u(s).act = f.item.act /\ u(s).sub = f.item.sub
  BY <1>2 DEF Item
<1>4. PICK s : SetState(f.item.id, s)
  BY DEF ExecuteDummy, ExecuteFunction, ExecuteSubflow, ExecuteSubflowNew, ActionEnd, BeginAction
<1>5. Rewrites(u(s))
  BY <1>1, <1>4, SetStateRewrites
<1>6. ~Fed(n.id)'
  <2>1. ASSUME NEW a, Become(<<a>>), a.op = "process" PROVE ~Fed(n.id)'
    BY <1>1, <1>2, <2>1, FedStep DEF Feeds
  <2>2. CASE ExecuteDummy \/ ActionEnd
    <3> DEFINE a == [f EXCEPT !.pc = "split", !.item.state = "complete"]
    <3>1. Become(<<a>>)
      BY <2>2 DEF ExecuteDummy, ActionEnd
    <3>2. a.op = "process"
      BY <1>2 DEF ProcessFrame
    <3> HIDE DEF a
    <3> QED BY <2>1, <3>1, <3>2
  <2>3. CASE ExecuteFunction \/ ExecuteSubflow
    <3>1. PICK calls : Become(<<Running(f, calls)>>)
      BY <2>3 DEF ExecuteFunction, ExecuteSubflow
    <3>2. Running(f, calls).op = "process"
      BY <1>2 DEF ProcessFrame, Running
    <3> QED BY <2>1, <3>1, <3>2
  <2>4. CASE ExecuteSubflowNew
    <3>1. PICK i \in InstId \ UsedInsts : \E k, r, g : Become(CreateInst(i, k, r) \o <<g>>)
      BY <2>4, InstsBorn
    <3>2. n.id # i
      BY <3>1 DEF UsedInsts, Singles
    <3> QED BY <1>1, <1>2, <3>1, <3>2, FedBorn
  <2> QED BY <2>2, <2>3, <2>4
<1> HIDE DEF f, u
<1> QED BY <1>1, <1>3, <1>5, <1>6, StandItem DEF f

\* A stopall leaves its own item, which is the only one.
LEMMA TurnStopAll ==
    ASSUME OwnInv, NEW n \in Singles(insts), Alone(n.id), ExecuteStopAll
    PROVE  Stand(n.id)
<1> DEFINE f == Head(stack)
           v == f.item
           gone == {w \in ItemsOf(v.inst) : w.id # v.id}
           g(w) == IF w.id = v.id THEN [w EXCEPT !.state = "running"] ELSE w
           u == [v EXCEPT !.state = "running"]
<1>1. /\ stack # <<>> /\ AtPc("execute")
      /\ items' = {g(w) : w \in items \ gone}
      /\ \E calls : Become(<<Running(f, calls)>>)
  BY DEF ExecuteStopAll, AtPc, At
<1>2. f \in ProcessFrame /\ v \in Item /\ f.op = "process" /\ items \subseteq Item /\ TypeOK
  BY <1>1, OwnRow DEF OwnInv, TypeOK
<1>3. PICK calls : Become(<<Running(f, calls)>>)
  BY <1>1
<1>4. Running(f, calls).op = "process"
  BY <1>2 DEF ProcessFrame, Running
<1>5. \A w \in items : /\ w.id # v.id => g(w) = w
                       /\ w.id = v.id => g(w).inst = w.inst
                       /\ w = v => g(w) = u
                       /\ w \in gone => w.id # v.id /\ w.inst = v.inst
  BY <1>2 DEF Item, ItemsOf
<1>6. u.inst = v.inst /\ u.act = v.act /\ u.sub = v.sub
  BY <1>2 DEF Item
<1> HIDE DEF g, u, gone
<1>7. Rewrites(u)
  BY <1>1, <1>5 DEF Rewrites
<1> HIDE DEF f, v
<1>8. ~Fed(n.id)'
  BY <1>1, <1>2, <1>3, <1>4, FedStep DEF Feeds
<1> QED BY <1>1, <1>6, <1>7, <1>8, StandItem DEF f, v

\* The link to the instance, or the loss of the item, of a subflow.
LEMMA TurnLink ==
    ASSUME OwnInv, NEW n \in Singles(insts), Alone(n.id), ActionLink
    PROVE  Stand(n.id)
<1> DEFINE f == Head(stack)
           v == f.item
<1>1. stack # <<>> /\ AtPc("action") /\ Kind[v.act] = "subflow"
  BY DEF ActionLink, AtPc, At
<1>2. f \in ProcessFrame /\ v \in Item /\ f.op = "process" /\ items \subseteq Item /\ TypeOK
  BY <1>1, OwnRow DEF OwnInv, TypeOK
<1>3. PICK m \in insts :
         /\ items' = {IF w.id # v.id THEN w
                      ELSE IF m.state = "complete"
                      THEN [w EXCEPT !.sub = m.id, !.state = "complete"]
                      ELSE [w EXCEPT !.sub = m.id] : w \in items}
         /\ Become(<<[f EXCEPT !.pc = "split", !.item.sub = m.id,
                               !.item.state = IF m.state = "complete"
                                              THEN "complete" ELSE @]>>)
  BY DEF ActionLink
<1> DEFINE g(w) == IF w.id # v.id THEN w
                   ELSE IF m.state = "complete"
                   THEN [w EXCEPT !.sub = m.id, !.state = "complete"]
                   ELSE [w EXCEPT !.sub = m.id]
           u == IF m.state = "complete" THEN [v EXCEPT !.sub = m.id, !.state = "complete"]
                ELSE [v EXCEPT !.sub = m.id]
           a == [f EXCEPT !.pc = "split", !.item.sub = m.id,
                          !.item.state = IF m.state = "complete" THEN "complete" ELSE @]
<1>4. items' = {g(w) : w \in items} /\ Become(<<a>>)
  BY <1>3
<1>5. \A w \in items : /\ w.id # v.id => g(w) = w
                       /\ w.id = v.id => g(w).inst = w.inst
                       /\ w = v => g(w) = u
  BY <1>2 DEF Item
<1>6. u.inst = v.inst /\ u.act = v.act /\ a.op = "process"
  BY <1>2 DEF ProcessFrame, Item
<1> HIDE DEF g, u, a
<1>7. Rewrites(u)
  BY <1>4, <1>5 DEF Rewrites
<1> HIDE DEF f, v
<1>8. ~Fed(n.id)'
  BY <1>1, <1>2, <1>4, <1>6, FedStep DEF Feeds
<1> QED BY <1>1, <1>6, <1>7, <1>8, StandItem DEF f, v

\* Only a subflow activity loses its item without a transition.
LEMMA TurnNoSubflow ==
    ASSUME OwnInv, NEW n \in Singles(insts), Alone(n.id), ActionNoSubflow
    PROVE  Stand(n.id)
<1> DEFINE f == Head(stack)
           i == n.id
<1>1. /\ stack # <<>> /\ AtPc("action") /\ Kind[f.item.act] = "subflow" /\ Become(<<>>)
      /\ items' = {w \in items : w.id # f.item.id}
  BY DEF ActionNoSubflow, DeleteItems, AtPc, At
<1>2. /\ \A w \in items : w.id = f.item.id => w.inst = f.item.inst
      /\ f.item.inst = i => f.item \in items /\ \A w \in items : w.inst = i => w = f.item
  BY <1>1, OwnRow
<1>3. ~Fed(i) /\ ~Fed(i)'
  BY <1>1, FedStep DEF OwnInv, AtPc, At, Fed, Feeds
<1> HIDE DEF f, i
<1>4. CASE f.item.inst # i
  <2>1. RowsOf(i, items') = RowsOf(i, items)
    BY <1>1, <1>2, <1>4 DEF RowsOf
  <2> QED BY <1>3, <2>1, StandStill DEF i
<1>5. CASE f.item.inst = i
  <2>1. RowsOf(i, items') = {} /\ RowsOf(i, items) = {f.item}
    BY <1>1, <1>2, <1>5 DEF RowsOf
  <2> QED BY <1>1, <1>3, <2>1 DEF Stand, i
<1> QED BY <1>4, <1>5

\* trg_create feeds the new instance only.
LEMMA TurnStartNext ==
    ASSUME OwnInv, NEW n \in Singles(insts), Alone(n.id), StartNext
    PROVE  Stand(n.id)
<1>1. stack # <<>> /\ items' = items /\ ~Fed(n.id)
  BY DEF StartNext, At, Fed, Feeds
<1>2. PICK i \in InstId \ UsedInsts : \E k, r, g : Become(CreateInst(i, k, r) \o <<g>>)
  BY InstsBorn
<1>3. n.id # i
  BY <1>2 DEF UsedInsts, Singles
<1>4. ~Fed(n.id)'
  BY <1>1, <1>2, <1>3, FedBorn DEF OwnInv
<1> QED BY <1>1, <1>4, StandStill

\* workitem.create ends the move of a token.
LEMMA TurnCreateNext ==
    ASSUME OwnInv, NEW n \in Singles(insts), Alone(n.id), CreateNext
    PROVE  Turn(n)
<1> DEFINE f == Head(stack)
           i == n.id
           j == f.call.inst
           k == CHOOSE x \in ItemId \ UsedItems : TRUE
<1>1. stack # <<>> /\ f.op = "create"
  BY DEF CreateNext, At
<1>2. Leading(f, i, items) /\ TypeOK
  BY <1>1, SingleTop
<1>3. PICK x \in f.todo :
         LET w == [id |-> k, act |-> x, inst |-> j, sub |-> NoInst, state |-> "active"]
         IN  items' = items \cup {w} /\ Become(<<Process(w, f.call), [f EXCEPT !.todo = @ \ {x}]>>)
  BY DEF CreateNext
<1> DEFINE w == [id |-> k, act |-> x, inst |-> j, sub |-> NoInst, state |-> "active"]
           a == Process(w, f.call)
           b == [f EXCEPT !.todo = @ \ {x}]
<1>4. items' = items \cup {w} /\ Become(<<a, b>>)
  BY <1>3
<1>5. w.inst = j /\ w.sub = NoInst /\ a.op = "process"
  BY DEF Process
<1>6. f.todo # {}
  BY <1>3
<1> HIDE DEF w, a, b, k, f, i, j
<1>7. ~Fed(i)'
  BY <1>1, <1>2, <1>4, <1>5, FedStep DEF Feeds, i
<1>8. CASE j # i
  <2>1. RowsOf(i, items') = RowsOf(i, items)
    BY <1>4, <1>5, <1>8 DEF RowsOf
  <2>2. ~Fed(i)
    BY <1>8 DEF Fed, Feeds, f, j
  <2> QED BY <1>7, <2>1, <2>2, StandStill DEF Turn, i
<1>9. CASE j = i
  <2>1. Fed(i)
    BY <1>1, <1>6, <1>9 DEF Fed, Feeds, f, j
  <2>2. \A v \in items : v.inst # i
    BY <1>1, <1>2, <1>6, <1>9 DEF Leading, Feeds, j
  <2>3. RowsOf(i, items') = {w}
    BY <1>4, <1>5, <1>9, <2>2 DEF RowsOf
  <2> QED BY <1>5, <1>7, <2>1, <2>3 DEF Come, Turn, i
<1> QED BY <1>8, <1>9

\* _split_test deletes the item and fires transitions of its activity.
LEMMA TurnFire ==
    ASSUME OwnInv, NEW n \in Singles(insts), Alone(n.id), SplitFire
    PROVE  Turn(n)
<1> DEFINE f == Head(stack)
           i == n.id
<1>1. /\ stack # <<>> /\ f.op = "process" /\ f.pc = "split"
      /\ items' = {w \in items : w.id # f.item.id}
  BY DEF SplitFire, AtPc, At, DeleteItems
<1>2. /\ TypeOK /\ OneRow(i, items) /\ f \in ProcessFrame /\ Leading(f, i, items)
      /\ Fits(f, insts, items)
  BY <1>1, SingleTop, FrameOp
<1>3. PICK fired \in Fireable(f) \ {{}} :
         Become(<<[op |-> "join", call |-> [f.call EXCEPT !.inst = f.item.inst], todo |-> fired]>>)
  BY DEF SplitFire
<1> DEFINE a == [op |-> "join", call |-> [f.call EXCEPT !.inst = f.item.inst], todo |-> fired]
<1>4. a.op = "join" /\ a.call.inst = f.item.inst /\ a.todo = fired
  BY <1>2 DEF ProcessFrame, Target
<1>5. \A w \in items : w.id = f.item.id => w.inst = f.item.inst
  BY <1>1, <1>2 DEF Fits, OwnItem, Alike
<1>6. fired # {} /\ fired \subseteq FromAct(f.item.act)
  BY <1>3, FireableFrom
<1>7. Become(<<a>>)
  BY <1>3
<1> HIDE DEF f, i, a
<1>8. Fed(i)' <=> f.item.inst = i
  BY <1>1, <1>2, <1>4, <1>6, <1>7, FedStep DEF Feeds, i
<1>9. ~Fed(i)
  BY <1>1 DEF Fed, Feeds, f
<1>10. CASE f.item.inst # i
  <2>1. RowsOf(i, items') = RowsOf(i, items)
    BY <1>1, <1>5, <1>10 DEF RowsOf
  <2> QED BY <1>8, <1>9, <1>10, <2>1, StandStill DEF Turn, i
<1>11. CASE f.item.inst = i
  <2>1. f.item \in items /\ \A w \in items : w.inst = i => w = f.item
    BY <1>1, <1>2, <1>11 DEF Leading, Holds, OneRow
  <2>2. RowsOf(i, items') = {} /\ f.item \in RowsOf(i, items)
    BY <1>1, <1>11, <2>1 DEF RowsOf
  <2>3. FromAct(f.item.act) # {}
    BY <1>6
  <2> QED BY <1>8, <1>9, <1>11, <2>2, <2>3 DEF Leave, Turn, i
<1> QED BY <1>10, <1>11

\* _join_test hands the token on, or an AND join keeps it.
LEMMA TurnJoin ==
    ASSUME OwnInv, NEW n \in Singles(insts), Alone(n.id), JoinNext
    PROVE  Turn(n)
<1> DEFINE f == Head(stack)
           i == n.id
           j == f.call.inst
           next(t) == Creating([f.call EXCEPT !.sig = NoSig, !.force = FALSE], {To[t]})
           rest(t) == [f EXCEPT !.todo = @ \ {t}]
           into(t) == IntoAct(To[t]) \X {j}
<1>1. stack # <<>> /\ f.op = "join" /\ items' = items
  BY DEF JoinNext, At
<1>2. TypeOK /\ f \in JoinFrame /\ Fits(f, insts, items) /\ Leading(f, i, items)
      /\ \A x : Runs(i, x, insts) => x = n.wkf
  BY <1>1, SingleTop, FrameOp
<1>3. PICK t \in f.todo :
         \/ \E c : Become(<<next(t), c, rest(t)>>)
         \/ Become(<<next(t), rest(t)>>)
         \/ JoinMode[To[t]] # "XOR" /\ Become(<<rest(t)>>)
  BY DEF JoinNext, JoinsAny
<1>4. t \in Trans /\ j \in InstId
  BY <1>2 DEF JoinFrame, Target
<1> DEFINE a == next(t)
           b == rest(t)
<1>5. a.op = "create" /\ a.call.inst = j /\ a.todo # {}
  BY <1>2 DEF Creating, JoinFrame, Target
<1>6. b.op = "join" /\ b.call = f.call /\ b.todo = f.todo \ {t}
  BY <1>2 DEF JoinFrame
<1>7. \/ \E c : Become(<<a, c, b>>)
      \/ Become(<<a, b>>)
      \/ JoinMode[To[t]] # "XOR" /\ Become(<<b>>)
  BY <1>3
<1>8. RowsOf(i, items') = RowsOf(i, items)
  BY <1>1
<1>9. j = i => ActWkf[From[t]] = n.wkf
  BY <1>1, <1>2 DEF Fits
<1> HIDE DEF f, i, j, next, rest, into, a, b
<1>10. CASE j # i
  <2>1. ~Feeds(f, i) /\ ~Feeds(a, i) /\ ~Feeds(b, i)
    BY <1>5, <1>6, <1>10 DEF Feeds, j
  <2>2. ~Fed(i)
    BY <2>1 DEF Fed, f
  <2>3. ~Fed(i)'
    BY <1>1, <1>2, <1>7, <2>1, FedStep DEF i
  <2> QED BY <1>8, <2>2, <2>3, StandStill DEF Turn, i
<1>11. CASE j = i
  <2>1. Fed(i)
    BY <1>1, <1>3, <1>11 DEF Fed, Feeds, f, j
  <2>2. CASE (\E c : Become(<<a, c, b>>)) \/ Become(<<a, b>>)
    <3>1. Fed(i)'
      BY <1>1, <1>2, <1>5, <1>11, <2>2, FedStep DEF Feeds, i
    <3> QED BY <1>8, <2>1, <3>1 DEF Pass, Turn, i
  <2>3. CASE JoinMode[To[t]] # "XOR" /\ Become(<<b>>)
    <3>1. \A s \in f.todo : s = t
      BY <1>1, <1>2, <1>3, <1>11 DEF Leading, Feeds, j
    <3>2. b.todo = {}
      BY <1>6, <3>1
    <3>3. ~Fed(i)'
      BY <1>1, <1>2, <2>3, <3>2, FedStep DEF i
    <3>4. To[t] \in ActsOf(n.wkf)
      BY <1>4, <1>9, <1>11, ConstantsAssumption DEF ActsOf
    <3> QED BY <1>8, <2>1, <2>3, <3>3, <3>4 DEF Wait, Turn, i
  <2> QED BY <1>7, <2>2, <2>3
<1> QED BY <1>10, <1>11

\* Every step of the engine is a turn of each instance of one token.
LEMMA TurnEngine ==
    ASSUME OwnInv, NEW n \in Singles(insts), Alone(n.id), Engine
    PROVE  Turn(n)
BY TurnQuiet, TurnDone, TurnExecute, TurnStopAll, TurnLink, TurnNoSubflow, TurnStartNext,
   TurnCreateNext, TurnFire, TurnJoin DEF Engine, Turn

-----------------------------------------------------------------------------
(* What is complete is over.  No activity of a document that stops its     *)
(* workflow has a transition out of it.                                    *)

StopsEnd(k) == \A a \in ActsOf(k) \cap FlowStop : FromAct(a) = {}

OverRows(i, its) == \A w \in its : w.inst = i => w.state = "complete" /\ w.act \in FlowStop
Over(i) == OverRows(i, items) /\ ~Fed(i)

OverInv ==
    /\ \A n \in Singles(insts) : StopsEnd(n.wkf) /\ n.state = "complete" => Over(n.id)
    /\ \A n \in Singles(saved.insts) :
          StopsEnd(n.wkf) /\ n.state = "complete" => OverRows(n.id, saved.items)

\* An item of an instance is on an activity of its workflow.
LEMMA RowAct ==
    ASSUME OwnInv, NEW n \in insts, NEW w \in RowsOf(n.id, items)
    PROVE  w.act \in ActsOf(n.wkf)
<1>1. w \in items /\ w.inst = n.id /\ w.act \in Act
  BY DEF RowsOf, OwnInv, TypeOK, Item
<1>2. PICK m \in insts : m.id = w.inst /\ m.wkf = ActWkf[w.act]
  BY <1>1 DEF OwnInv, Owned, Now, OwnItem, Runs
<1>3. m.wkf = n.wkf
  BY <1>1, <1>2 DEF OwnInv, Owned, Now, OneWkf
<1> QED BY <1>1, <1>2, <1>3 DEF ActsOf

\* A token on a stopping activity goes nowhere.
LEMMA OverTurn ==
    ASSUME OwnInv, NEW n \in Singles(insts), Turn(n), StopsEnd(n.wkf), Over(n.id)
    PROVE  Over(n.id)'
<1>1. ~Fed(n.id) /\ \A w \in RowsOf(n.id, items) : w.state = "complete" /\ w.act \in FlowStop
  BY DEF Over, OverRows, RowsOf
<1>2. ~Leave(n.id)
  <2> SUFFICES ASSUME NEW v \in RowsOf(n.id, items), FromAct(v.act) # {} PROVE FALSE
    BY DEF Leave
  <2>1. v.act \in ActsOf(n.wkf) \cap FlowStop
    BY <1>1, RowAct DEF Singles
  <2> QED BY <2>1 DEF StopsEnd
<1>3. Stand(n.id)
  BY <1>1, <1>2 DEF Turn, Pass, Come, Wait
<1>4. \A w \in RowsOf(n.id, items') : w.state = "complete" /\ w.act \in FlowStop
  BY <1>1, <1>3 DEF Stand, Onward
<1> QED BY <1>3, <1>4 DEF Over, OverRows, RowsOf, Stand

\* The engine completes an instance that is over, and leaves it so.
LEMMA OverEngine ==
    ASSUME OwnInv, AloneInv, OverInv, Engine,
           NEW n \in Singles(insts'), StopsEnd(n.wkf), n.state = "complete"
    PROVE  Over(n.id)'
<1>1. ASSUME NEW m \in Singles(insts), m.id = n.id, m.wkf = n.wkf, Over(m.id) PROVE Over(n.id)'
  <2>1. Turn(m)
    BY TurnEngine DEF AloneInv
  <2>2. Over(m.id)'
    BY <1>1, <2>1, OverTurn
  <2> QED BY <1>1, <2>2
<1>2. ASSUME n \in insts PROVE Over(n.id)'
  BY <1>1, <1>2 DEF OverInv, Singles
<1>3. CASE ExecuteSubflowNew \/ StartNext
  <2>1. PICK i, k, r : insts' = insts \cup {[id |-> i, wkf |-> k, res |-> r, state |-> "active"]}
    BY <1>3, InstsBorn
  <2>2. n \in insts
    BY <2>1 DEF Singles
  <2> QED BY <1>2, <2>2
<1>4. CASE UpdateEndDone
  <2>1. PICK m \in insts : /\ n.id = m.id /\ n.wkf = m.wkf
                           /\ m.state = "complete" \/ m.id = Head(stack).call.inst
    BY <1>4, InstsDone DEF Singles
  <2>2. m \in Singles(insts)
    BY <2>1 DEF Singles
  <2>3. CASE m.state = "complete"
    BY <1>1, <2>1, <2>2, <2>3 DEF OverInv
  <2>4. CASE m.id = Head(stack).call.inst
    <3>1. Finished(m.id) /\ ~Fed(m.id)
      BY <1>4, <2>4 DEF UpdateEndDone, At, Fed, Feeds
    <3>2. Over(m.id)
      BY <3>1 DEF Finished, ItemsOf, Over, OverRows
    <3> QED BY <1>1, <2>1, <2>2, <3>2
  <2> QED BY <2>1, <2>3, <2>4
<1>5. CASE ~ExecuteSubflowNew /\ ~StartNext /\ ~UpdateEndDone
  <2>1. n \in insts
    BY <1>5, InstsStay DEF Singles
  <2> QED BY <1>2, <2>1
<1> QED BY <1>3, <1>4, <1>5

\* A request starts with an empty stack, and what it pushes feeds nobody.
LEMMA RequestFeeds ==
    ASSUME Request
    PROVE  stack = <<>> /\ \A i : ~Fed(i)'
<1>1. ASSUME NEW a, stack' = <<a>>, a.op \notin {"create", "join"} PROVE \A i : ~Fed(i)'
  <2>1. Head(stack') = a
    BY <1>1
  <2> QED BY <1>1, <2>1 DEF Fed, Feeds
<1>2. stack = <<>>
  BY DEF Request, TrgCreate, TrgTrigger, TrgDelete, TrgWrite, TrgValidate, TrgRedirect, Ready
<1>3. CASE \E r : TrgCreate(r)
  <2>1. PICK r : stack' = <<Starting(r)>>
    BY <1>3 DEF TrgCreate
  <2> QED BY <1>1, <1>2, <2>1 DEF Starting
<1>4. CASE \E r, d : TrgTrigger(r, d) \/ TrgWrite(r, d) \/ TrgValidate(r, d)
  <2>1. PICK todo : stack' = <<Loop(todo)>>
    BY <1>4 DEF TrgTrigger, TrgWrite, TrgValidate, Updates, Validates
  <2> QED BY <1>1, <1>2, <2>1 DEF Loop
<1>5. CASE \E r, new : TrgDelete(r) \/ TrgRedirect(r, new)
  <2>1. stack' = <<>>
    BY <1>2, <1>5 DEF TrgDelete, TrgRedirect
  <2> QED BY <1>2, <2>1 DEF Fed
<1> QED BY <1>3, <1>4, <1>5 DEF Request

\* Requests write no item but in trg_delete and trg_redirect.
LEMMA RequestRows ==
    ASSUME OwnInv, Request
    PROVE  /\ insts' \subseteq insts
           /\ \A w \in items' : \E v \in items :
                 /\ w.inst = v.inst /\ w.act = v.act /\ w.state = v.state
                 /\ v.sub = NoInst => w = v
<1>1. CASE \E r, d : TrgCreate(r) \/ TrgTrigger(r, d) \/ TrgWrite(r, d) \/ TrgValidate(r, d)
  BY <1>1 DEF TrgCreate, TrgTrigger, TrgWrite, TrgValidate, tables
<1>2. CASE \E r : TrgDelete(r)
  BY <1>2 DEF TrgDelete, DeleteItems
<1>3. CASE \E r, new : TrgRedirect(r, new)
  <2>1. PICK r, new : TrgRedirect(r, new)
    BY <1>3
  <2> DEFINE g(w) == IF Successors(r, new, w.sub) = {} THEN w
                     ELSE [w EXCEPT !.sub = (CHOOSE n \in Successors(r, new, w.sub) : TRUE).id]
  <2>2. insts' = insts /\ items' = {g(w) : w \in items}
    BY <2>1 DEF TrgRedirect
  <2>3. Successors(r, new, NoInst) = {}
    BY ConstantsAssumption DEF Successors, InstsOn, OwnInv, TypeOK, Inst
  <2>4. \A w \in items : /\ g(w).inst = w.inst /\ g(w).state = w.state /\ g(w).act = w.act
                         /\ w.sub = NoInst => g(w) = w
    BY <2>3 DEF OwnInv, TypeOK, Item
  <2> HIDE DEF g
  <2> QED BY <2>2, <2>4
<1> QED BY <1>1, <1>2, <1>3 DEF Request

\* Every step leaves over what is over, in the tables and in the committed ones.
LEMMA OverNext == OwnInv /\ AloneInv /\ OverInv /\ [Next]_vars => OverInv'
<1> SUFFICES ASSUME OwnInv, AloneInv, OverInv, [Next]_vars PROVE OverInv'
  OBVIOUS
<1>1. CASE Engine
  BY <1>1, SavedStays, OverEngine DEF OverInv, Singles
<1>2. CASE Request
  <2>1. saved' = saved
    BY <1>2, SavedStays
  <2>2. ASSUME NEW n \in Singles(insts'), StopsEnd(n.wkf), n.state = "complete" PROVE Over(n.id)'
    <3>1. n \in Singles(insts)
      BY <1>2, RequestRows DEF Singles
    <3>2. OverRows(n.id, items)
      BY <2>2, <3>1 DEF OverInv, Over
    <3>3. OverRows(n.id, items')
      BY <1>2, <3>2, RequestRows DEF OverRows
    <3> QED BY <1>2, <3>3, RequestFeeds DEF Over
  <2> QED BY <2>1, <2>2 DEF OverInv, Singles
<1>3. CASE Commit
  <2>1. /\ insts' = insts /\ items' = items /\ stack' = stack
        /\ saved'.insts = insts /\ saved'.items = items
    BY <1>3 DEF Commit, tables, Now
  <2> QED BY <2>1 DEF OverInv, Over, Fed, Singles
<1>4. CASE Rollback
  <2>1. insts' = saved.insts /\ items' = saved.items /\ stack' = <<>> /\ saved' = saved
    BY <1>4 DEF Rollback
  <2> QED BY <2>1 DEF OverInv, Over, Fed, Singles
<1>5. CASE UNCHANGED vars
  BY <1>5 DEF vars, OverInv, Over, Fed, Singles
<1> QED BY <1>1, <1>2, <1>3, <1>4, <1>5 DEF Next

\* No instance is complete at the start.
LEMMA OverInit == Init => OverInv
BY DEF Init, Now, OverInv, Singles

\* From the start and after every step.
LEMMA OverHolds == Spec => [](OwnInv /\ AloneInv /\ OverInv)
BY OwnInit, OwnNext, AloneInit, AloneNext, OverInit, OverNext, PTL DEF Spec

\* The items of a complete instance of the workflow k have nothing left to do,
\* at every step and not only between the requests.
OverIn(k) ==
    \A n \in insts, w \in items :
        n.wkf = k /\ n.state = "complete" /\ w.inst = n.id =>
            w.state = "complete" /\ w.act \in FlowStop

\* An instance of a workflow that splits no token and whose stopping activities
\* lead nowhere is complete for good: no signal, forced validate or late trigger
\* wakes one of its items, whatever the other workflows do.
THEOREM OverInHolds ==
    ASSUME NEW k \in Wkf, Sequential(k), StopsEnd(k)
    PROVE  Spec => []OverIn(k)
<1>1. OverInv => OverIn(k)
  BY DEF OverInv, Over, OverRows, Singles, OverIn
<1> QED BY <1>1, OverHolds, PTL

\* Where all workflows are of that kind a complete instance stays over.
THEOREM CompleteIsOverHolds ==
    ASSUME \A k \in Wkf : Sequential(k) /\ StopsEnd(k)
    PROVE  Spec => []CompleteIsOver
<1>1. ASSUME OwnInv, OverInv PROVE CompleteIsOver
  <2>1. \A n \in insts : n.wkf \in Wkf
    BY <1>1 DEF OwnInv, TypeOK, Inst
  <2> QED BY <1>1, <2>1 DEF OverInv, Over, OverRows, Singles, CompleteIsOver
<1>2. OwnInv /\ OverInv => CompleteIsOver
  BY <1>1
<1> QED BY <1>2, OverHolds, PTL

-----------------------------------------------------------------------------
(* What is complete came to an end.  A workflow without subflows and AND   *)
(* joins never loses its token: a request finds every instance with one.   *)

SelfContained(k) ==
    /\ StartActs(k) # {}
    /\ \A a \in ActsOf(k) : Kind[a] # "subflow" /\ JoinMode[a] = "XOR"

\* No two rows of wkf_instance have one identifier.
OneId(rows) == \A m, n \in rows : m.id = n.id => m = n

KeptRows(i, its) == \A w \in RowsOf(i, its) : w.sub = NoInst
Kept(i) == KeptRows(i, items) /\ (RowsOf(i, items) # {} \/ Fed(i))

KeptInv ==
    /\ OneId(insts) /\ OneId(saved.insts)
    /\ \A n \in Singles(insts) : SelfContained(n.wkf) => Kept(n.id)
    /\ \A n \in Singles(saved.insts) :
          SelfContained(n.wkf) => /\ KeptRows(n.id, saved.items)
                                  /\ RowsOf(n.id, saved.items) # {}

\* Identifiers of instances are unique.
LEMMA OneIdEngine ==
    ASSUME OneId(insts), Engine
    PROVE  OneId(insts')
<1>1. CASE ExecuteSubflowNew \/ StartNext
  <2>1. PICK i \in InstId \ UsedInsts : \E k, r :
           insts' = insts \cup {[id |-> i, wkf |-> k, res |-> r, state |-> "active"]}
    BY <1>1, InstsBorn
  <2>2. \A n \in insts : n.id # i
    BY <2>1 DEF UsedInsts
  <2> QED BY <2>1, <2>2 DEF OneId
<1>2. CASE UpdateEndDone
  <2> DEFINE j == Head(stack).call.inst
             g(m) == IF m.id = j THEN [m EXCEPT !.state = "complete"] ELSE m
  <2>1. insts' = {g(m) : m \in insts}
    BY <1>2 DEF UpdateEndDone
  <2>2. \A m \in insts : g(m).id = m.id
    OBVIOUS
  <2> HIDE DEF g
  <2> QED BY <2>1, <2>2 DEF OneId
<1>3. CASE ~ExecuteSubflowNew /\ ~StartNext /\ ~UpdateEndDone
  BY <1>3, InstsStay
<1> QED BY <1>1, <1>2, <1>3

\* The token of such a workflow is on an activity or about to come to one.
LEMMA KeptTurn ==
    ASSUME OwnInv, NEW n \in Singles(insts), Turn(n), SelfContained(n.wkf), Kept(n.id)
    PROVE  Kept(n.id)'
<1> DEFINE i == n.id
<1>1. \A v \in RowsOf(i, items) : Kind[v.act] # "subflow" /\ v.sub = NoInst
  BY RowAct DEF SelfContained, Kept, KeptRows, Singles
<1> HIDE DEF i
<1>2. CASE Stand(i)
  <2>1. \A w \in RowsOf(i, items') : w.sub = NoInst
    BY <1>1, <1>2 DEF Stand, Onward
  <2>2. RowsOf(i, items') # {}
    BY <1>1, <1>2 DEF Stand, Kept, i
  <2> QED BY <2>1, <2>2 DEF Kept, KeptRows, i
<1>3. CASE Leave(i)
  BY <1>3 DEF Leave, Kept, KeptRows, i
<1>4. CASE Pass(i)
  BY <1>1, <1>4 DEF Pass, Kept, KeptRows, i
<1>5. CASE Come(i)
  BY <1>5 DEF Come, Kept, KeptRows, i
<1>6. ~Wait(i, n.wkf)
  BY DEF Wait, SelfContained
<1> QED BY <1>2, <1>3, <1>4, <1>5, <1>6 DEF Turn, i

\* A new instance is about to get its token.
LEMMA KeptBorn ==
    ASSUME OwnInv, ExecuteSubflowNew \/ StartNext,
           NEW n \in insts', n \notin insts, SelfContained(n.wkf)
    PROVE  Kept(n.id)'
<1>1. PICK i \in InstId \ UsedInsts : \E k, r, g :
         /\ insts' = insts \cup {[id |-> i, wkf |-> k, res |-> r, state |-> "active"]}
         /\ Become(CreateInst(i, k, r) \o <<g>>)
  BY InstsBorn
<1>2. PICK k, r, g :
         /\ insts' = insts \cup {[id |-> i, wkf |-> k, res |-> r, state |-> "active"]}
         /\ Become(CreateInst(i, k, r) \o <<g>>)
  BY <1>1
<1>3. n.id = i /\ n.wkf = k
  BY <1>2
<1>4. stack # <<>>
  BY DEF ExecuteSubflowNew, StartNext, AtPc, At
<1>5. Fed(i)'
  BY <1>2, <1>3, <1>4, FedBorn DEF OwnInv, SelfContained
<1>6. \A w \in items' : w.inst # i
  <2>1. \A w \in items : w.inst # i /\ w \in Item
    BY <1>1, NobodyKnows DEF OwnInv, TypeOK
  <2>2. CASE ExecuteSubflowNew
    <3>1. \A w \in items' : \E v \in items :
             w = v \/ w = [v EXCEPT !.state = "running"]
      BY <2>2 DEF ExecuteSubflowNew, SetState
    <3> QED BY <2>1, <3>1 DEF Item
  <2>3. CASE StartNext
    BY <2>1, <2>3 DEF StartNext
  <2> QED BY <2>2, <2>3
<1> QED BY <1>3, <1>5, <1>6 DEF Kept, KeptRows, RowsOf

\* The engine keeps the token of every such instance, old or new.
LEMMA KeptEngine ==
    ASSUME OwnInv, AloneInv, KeptInv, Engine, NEW n \in Singles(insts'), SelfContained(n.wkf)
    PROVE  Kept(n.id)'
<1>1. ASSUME NEW m \in Singles(insts), m.id = n.id, m.wkf = n.wkf PROVE Kept(n.id)'
  <2>1. Turn(m) /\ Kept(m.id)
    BY <1>1, TurnEngine DEF AloneInv, KeptInv
  <2>2. Kept(m.id)'
    BY <1>1, <2>1, KeptTurn
  <2> QED BY <1>1, <2>2
<1>2. CASE ExecuteSubflowNew \/ StartNext
  BY <1>1, <1>2, KeptBorn DEF Singles
<1>3. CASE ~ExecuteSubflowNew /\ ~StartNext
  <2>1. PICK m \in insts : m.id = n.id /\ m.wkf = n.wkf
    BY <1>3, InstsDone, InstsStay DEF Singles
  <2> QED BY <1>1, <2>1 DEF Singles
<1> QED BY <1>2, <1>3

\* trg_delete deletes the items of the instances it deletes and the items that
\* wait for one of them.
LEMMA KeptRequest ==
    ASSUME OwnInv, OneId(insts), Request, NEW n \in insts', n \in insts,
           NEW w \in RowsOf(n.id, items), w.sub = NoInst
    PROVE  w \in items'
<1>1. w \in items /\ w.inst = n.id
  BY DEF RowsOf
<1>2. CASE \E r, d : TrgCreate(r) \/ TrgTrigger(r, d) \/ TrgWrite(r, d) \/ TrgValidate(r, d)
  BY <1>1, <1>2 DEF TrgCreate, TrgTrigger, TrgWrite, TrgValidate, tables
<1>3. CASE \E r : TrgDelete(r)
  <2>1. PICK r : TrgDelete(r)
    BY <1>3
  <2> DEFINE dead == {m.id : m \in InstsOn(r)}
  <2>2. insts' = insts \ InstsOn(r) /\ items' = {v \in items : v.inst \notin dead /\ v.sub \notin dead}
    BY <2>1 DEF TrgDelete, DeleteItems
  <2>3. n.id \notin dead
    BY <2>2 DEF OneId, InstsOn
  <2>4. NoInst \notin dead
    BY ConstantsAssumption DEF InstsOn, OwnInv, TypeOK, Inst
  <2> QED BY <1>1, <2>2, <2>3, <2>4
<1>4. CASE \E r, new : TrgRedirect(r, new)
  <2>1. PICK r, new : TrgRedirect(r, new)
    BY <1>4
  <2> DEFINE g(v) == IF Successors(r, new, v.sub) = {} THEN v
                     ELSE [v EXCEPT !.sub = (CHOOSE m \in Successors(r, new, v.sub) : TRUE).id]
  <2>2. items' = {g(v) : v \in items}
    BY <2>1 DEF TrgRedirect
  <2>3. Successors(r, new, NoInst) = {}
    BY ConstantsAssumption DEF Successors, InstsOn, OwnInv, TypeOK, Inst
  <2>4. g(w) = w
    BY <2>3
  <2> HIDE DEF g
  <2> QED BY <1>1, <2>2, <2>4
<1> QED BY <1>2, <1>3, <1>4 DEF Request

\* So does every step.
LEMMA KeptNext == OwnInv /\ AloneInv /\ KeptInv /\ [Next]_vars => KeptInv'
<1> SUFFICES ASSUME OwnInv, AloneInv, KeptInv, [Next]_vars PROVE KeptInv'
  OBVIOUS
<1>1. CASE Engine
  BY <1>1, SavedStays, KeptEngine, OneIdEngine DEF KeptInv, Singles
<1>2. CASE Request
  <2>1. saved' = saved
    BY <1>2, SavedStays
  <2>2. insts' \subseteq insts /\ OneId(insts')
    BY <1>2, RequestRows DEF KeptInv, OneId
  <2>3. ASSUME NEW n \in Singles(insts'), SelfContained(n.wkf) PROVE Kept(n.id)'
    <3>1. n \in Singles(insts) /\ n \in insts /\ n \in insts'
      BY <2>2 DEF Singles
    <3>2. KeptRows(n.id, items) /\ RowsOf(n.id, items) # {}
      BY <1>2, <2>3, <3>1, RequestFeeds DEF KeptInv, Kept, Fed
    <3>3. PICK w \in RowsOf(n.id, items) : w \in items'
      BY <1>2, <3>1, <3>2, KeptRequest DEF KeptInv, KeptRows
    <3>4. w \in RowsOf(n.id, items')
      BY <3>3 DEF RowsOf
    <3>5. \A v \in RowsOf(n.id, items') : v.sub = NoInst
      BY <1>2, <3>2, RequestRows DEF KeptRows, RowsOf
    <3> QED BY <3>4, <3>5 DEF Kept, KeptRows
  <2> QED BY <2>1, <2>2, <2>3 DEF KeptInv, Singles
<1>3. CASE Commit
  <2>1. /\ insts' = insts /\ items' = items /\ stack' = stack /\ stack = <<>>
        /\ saved'.insts = insts /\ saved'.items = items
    BY <1>3 DEF Commit, tables, Now
  <2> QED BY <2>1 DEF KeptInv, Kept, Fed, Singles
<1>4. CASE Rollback
  <2>1. insts' = saved.insts /\ items' = saved.items /\ stack' = <<>> /\ saved' = saved
    BY <1>4 DEF Rollback
  <2> QED BY <2>1 DEF KeptInv, Kept, Fed, Singles
<1>5. CASE UNCHANGED vars
  BY <1>5 DEF vars, KeptInv, Kept, Fed, Singles
<1> QED BY <1>1, <1>2, <1>3, <1>4, <1>5 DEF Next

\* There is no token to keep at the start.
LEMMA KeptInit == Init => KeptInv
BY DEF Init, Now, KeptInv, OneId, Singles

\* From the start and after every step.
LEMMA KeptHolds == Spec => [](OwnInv /\ AloneInv /\ KeptInv)
BY OwnInit, OwnNext, AloneInit, AloneNext, KeptInit, KeptNext, PTL DEF Spec

\* Between requests every instance of the workflow k has an item.
KeptIn(k) == stack = <<>> => \A n \in insts : n.wkf = k => ItemsOf(n.id) # {}

\* A workflow that splits no token, starts no subflow and joins nothing keeps its
\* token for good: it never ends, nor stays behind, without one.
THEOREM KeptInHolds ==
    ASSUME NEW k \in Wkf, Sequential(k), SelfContained(k)
    PROVE  Spec => []KeptIn(k)
<1>1. KeptInv => KeptIn(k)
  BY DEF KeptInv, Kept, Fed, RowsOf, ItemsOf, Singles, KeptIn
<1> QED BY <1>1, KeptHolds, PTL

\* Where all workflows are of that kind a complete instance has its end.
THEOREM CompleteHasEndHolds ==
    ASSUME \A k \in Wkf : Sequential(k) /\ SelfContained(k)
    PROVE  Spec => []CompleteHasEnd
<1>1. ASSUME OwnInv, KeptInv PROVE CompleteHasEnd
  <2>1. \A n \in insts : n.wkf \in Wkf
    BY <1>1 DEF OwnInv, TypeOK, Inst
  <2> QED BY <1>1, <2>1 DEF KeptInv, Kept, Fed, RowsOf, ItemsOf, Singles, CompleteHasEnd
<1>2. OwnInv /\ KeptInv => CompleteHasEnd
  BY <1>1
<1> QED BY <1>2, KeptHolds, PTL
=============================================================================
