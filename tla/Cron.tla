--------------------------------- MODULE Cron ---------------------------------
(***************************************************************************)
(* The scheduler (bin/addons/base/ir/ir_cron.py, ir_cron._poolJobs).  A    *)
(* chain of timer threads wakes, reads the rows of ir_cron that are due,   *)
(* and calls and stores one after the other, with a commit after each; it  *)
(* sets the timer of the next thread last, so that an exception ends the   *)
(* chain.  A chain starts with the object pool (bin/pooler.py), when the   *)
(* server starts and again after each system upgrade.                      *)
(*                                                                         *)
(* The rows of the list are those the first query returned, however long   *)
(* ago.  A transaction sees the database as it was at its first statement  *)
(* and its update of a row fails if another has changed the row since      *)
(* (SERIALIZABLE, which psycopg 1 sets and PostgreSQL 8 implements so).    *)
(* What a function does is abstracted to the number of its calls that are  *)
(* committed.                                                              *)
(***************************************************************************)
EXTENDS Integers, Sequences, FiniteSets, SequencesExt

CONSTANTS
    Job,        \* the rows of ir_cron
    Priority,   \* priority: a lower one goes first
    Interval,   \* interval_number and interval_type, in ticks of the clock
    DoAll,      \* doall: call once for each period that was missed
    Calls,      \* numbercall at first; negative: always
    First,      \* nextcall at first
    Chain,      \* the chains of threads there can be
    NextWait,   \* next_wait
    LastTick    \* bound: the clock stops there

ASSUME CronAssumption ==
    /\ IsFiniteSet(Job) /\ Priority \in [Job -> Int]
    /\ Interval \in [Job -> Nat \ {0}] /\ DoAll \in [Job -> BOOLEAN]
    /\ Calls \in [Job -> Int \ {0}] /\ First \in [Job -> Nat]
    /\ NextWait \in Nat \ {0} /\ LastTick \in Nat

VARIABLES
    clock,
    row,        \* ir_cron: active, nextcall, numbercall
    ran,        \* the committed calls of each job
    chain       \* the local variables of _poolJobs in each chain

vars == <<clock, row, ran, chain>>

\* What numbercall may become: a negative one stays.
Left(j) == IF Calls[j] < 0 THEN {Calls[j]} ELSE 0 .. Calls[j]

Row == [active : BOOLEAN, next : Nat, num : Int]
Listed == [job : Job, next : Nat, num : Int]

TypeOK ==
    /\ clock \in 0 .. LastTick
    /\ row \in [Job -> Row] /\ \A j \in Job : row[j].num \in Left(j)
    /\ ran \in [Job -> Nat]
    /\ chain \in [Chain ->
        [pc : {"off", "wait", "select", "jobs", "dead"},
         wake : 0 .. LastTick, now : 0 .. LastTick, jobs : Seq(Listed),
         called : Nat, open : BOOLEAN, dirty : SUBSET Job]]

At(c, pc) == chain[c].pc = pc

\* The update of row j is committed: transactions that began before cannot
\* update it any more.
Dirty(j) == [c \in Chain |->
    IF chain[c].open THEN [chain[c] EXCEPT !.dirty = @ \cup {j}] ELSE chain[c]]

-----------------------------------------------------------------------------
\* The thread starts: now = DateTime.now().
Begun(m) == [m EXCEPT !.pc = "select", !.now = clock]

\* get_db_and_pool calls _poolJobs of a new pool.
Start(c) ==
    /\ chain[c].pc \in {"off", "dead"}
    /\ chain' = [chain EXCEPT ![c] = Begun(@)]
    /\ UNCHANGED <<clock, row, ran>>

\* The timer fires.
Wake(c) ==
    /\ At(c, "wait") /\ chain[c].wake <= clock
    /\ chain' = [chain EXCEPT ![c] = Begun(@)]
    /\ UNCHANGED <<clock, row, ran>>

\* select ... where numbercall<>0 and active and nextcall<=now()
\* order by priority: rows of one priority come in any order.
Due(j) == row[j].num # 0 /\ row[j].active /\ row[j].next <= clock
ByPriority(jobs) ==
    {s \in SetToSeqs(jobs) :
        \A i, k \in DOMAIN s : i < k => Priority[s[i]] <= Priority[s[k]]}
Select(c) ==
    /\ At(c, "select")
    /\ \E due \in ByPriority({j \in Job : Due(j)}) :
         chain' = [chain EXCEPT ![c] = [@ EXCEPT
            !.pc = "jobs", !.open = TRUE, !.dirty = {}, !.called = 0,
            !.jobs = [i \in DOMAIN due |->
                        [job |-> due[i], next |-> row[due[i]].next, num |-> row[due[i]].num]]]]
    /\ UNCHANGED <<clock, row, ran>>

\* The first job of the list has a call to make: nextcall<now and numbercall.
Missed(c) ==
    /\ At(c, "jobs") /\ chain[c].jobs # <<>>
    /\ Head(chain[c].jobs).next < chain[c].now
    /\ Head(chain[c].jobs).num # 0

\* Mutant: a negative number is counted down too.
CallCounted(c) ==
    /\ Missed(c)
    /\ chain' = [chain EXCEPT ![c] = [@ EXCEPT
            !.jobs[1].num = @ - 1,
            !.jobs[1].next = @ + Interval[Head(chain[c].jobs).job],
            !.called = IF @ = 0 \/ DoAll[Head(chain[c].jobs).job] THEN @ + 1 ELSE @,
            !.open = TRUE]]
    /\ UNCHANGED <<clock, row, ran>>

\* A period: the function is called, but for the further periods of a job
\* that does not repeat the calls missed, which only count.
Period(m) ==
    LET first == Head(m.jobs)
        left == IF first.num > 0 THEN first.num - 1 ELSE first.num
        next == IF left # 0 THEN first.next + Interval[first.job] ELSE first.next
    IN [m EXCEPT
            !.jobs[1] = [first EXCEPT !.num = left, !.next = next],
            !.called = IF m.called = 0 \/ DoAll[first.job] THEN m.called + 1 ELSE m.called,
            !.open = TRUE]

Call(c) ==
    /\ Missed(c)
    /\ chain' = [chain EXCEPT ![c] = Period(@)]
    /\ UNCHANGED <<clock, row, ran>>

\* The row is updated, and the calls and the row committed.
Stored(m) == [m EXCEPT !.jobs = Tail(m.jobs), !.called = 0, !.open = FALSE, !.dirty = {}]
Stores(c, next, num) ==
    LET job == Head(chain[c].jobs).job
    IN /\ At(c, "jobs") /\ chain[c].jobs # <<>> /\ ~ Missed(c)
       /\ job \notin chain[c].dirty
       /\ row' = [row EXCEPT ![job] =
            [active |-> @.active /\ num # 0, next |-> next, num |-> num]]
       /\ ran' = [ran EXCEPT ![job] = @ + chain[c].called]
       /\ chain' = [Dirty(job) EXCEPT ![c] = Stored(@)]
       /\ UNCHANGED clock

\* Mutant: nextcall is not moved.
StoreOld(c) ==
    LET first == Head(chain[c].jobs) IN Stores(c, row[first.job].next, first.num)
Store(c) ==
    LET first == Head(chain[c].jobs) IN Stores(c, first.next, first.num)

\* Mutant: as if check were given.
RearmNever(c) ==
    /\ At(c, "jobs") /\ chain[c].jobs = <<>>
    /\ chain' = [chain EXCEPT ![c] = [@ EXCEPT !.pc = "off", !.open = FALSE, !.dirty = {}]]
    /\ UNCHANGED <<clock, row, ran>>

\* The list is done: the cursor is closed and the next timer set.
Rearm(c) ==
    /\ At(c, "jobs") /\ chain[c].jobs = <<>>
    /\ chain' = [chain EXCEPT ![c] = [@ EXCEPT
            !.pc = "wait", !.open = FALSE, !.dirty = {},
            !.wake = IF clock + NextWait <= LastTick THEN clock + NextWait ELSE LastTick]]
    /\ UNCHANGED <<clock, row, ran>>

\* The chain ends: what it has not committed is lost.
Dead(m) == [m EXCEPT !.pc = "dead", !.jobs = <<>>, !.called = 0, !.open = FALSE, !.dirty = {}]

\* Mutant: the cursor is committed as it is closed.
DieCommitting(c) ==
    /\ chain[c].pc \in {"select", "jobs"}
    /\ chain' = [chain EXCEPT ![c] = Dead(@)]
    /\ ran' = IF chain[c].called = 0 THEN ran
              ELSE [ran EXCEPT ![Head(chain[c].jobs).job] = @ + chain[c].called]
    /\ UNCHANGED <<clock, row>>

\* The database cannot be reached, a function raises, or the update of the
\* row fails because another has changed it.
Die(c) ==
    /\ chain[c].pc \in {"select", "jobs"}
    /\ chain' = [chain EXCEPT ![c] = Dead(@)]
    /\ UNCHANGED <<clock, row, ran>>

\* The server stops: Agent.quit, or a crash.
Stop ==
    /\ \E c \in Chain : chain[c].pc # "off"
    /\ chain' = [c \in Chain |-> IF At(c, "off") THEN chain[c] ELSE Dead(chain[c])]
    /\ UNCHANGED <<clock, row, ran>>

\* A user ticks or unticks the box Active of a job.
SetActive(j) ==
    /\ row' = [row EXCEPT ![j].active = ~ @]
    /\ chain' = Dirty(j)
    /\ UNCHANGED <<clock, ran>>

Tick == clock < LastTick /\ clock' = clock + 1 /\ UNCHANGED <<row, ran, chain>>

-----------------------------------------------------------------------------
Init ==
    /\ clock = 0
    /\ row = [j \in Job |-> [active |-> TRUE, next |-> First[j], num |-> Calls[j]]]
    /\ ran = [j \in Job |-> 0]
    /\ chain = [c \in Chain |->
        [pc |-> "off", wake |-> 0, now |-> 0, jobs |-> <<>>, called |-> 0,
         open |-> FALSE, dirty |-> {}]]

Thread(c) == Wake(c) \/ Select(c) \/ Call(c) \/ Store(c) \/ Rearm(c)

Next ==
    \/ \E c \in Chain : Start(c) \/ Thread(c) \/ Die(c)
    \/ \E j \in Job : SetActive(j)
    \/ Stop \/ Tick

Spec == Init /\ [][Next]_vars

\* Threads are scheduled, timers fire, and time passes; a chain whose update
\* can never succeed does not go on waiting.
FairSpec ==
    /\ Spec /\ WF_vars(Tick)
    /\ \A c \in Chain :
        /\ WF_vars(Thread(c))
        /\ WF_vars(Die(c) /\ ~ ENABLED Thread(c))

-----------------------------------------------------------------------------
\* The calls that are committed and those the row says are left never exceed
\* the number asked for; they make it up exactly if missed calls are
\* repeated, whatever raises, stops or is unticked between a call and the
\* update of its row.
CallsAccounted ==
    \A j \in Job : Calls[j] > 0 =>
        /\ ran[j] + row[j].num <= Calls[j]
        /\ DoAll[j] => ran[j] + row[j].num = Calls[j]

\* No call is committed before the period it is for has begun.
NoEarlyCall ==
    \A j \in Job : ran[j] > 0 => First[j] + (ran[j] - 1) * Interval[j] < clock

\* A job that is due gets its turn, unless it is unticked or the chain ends.
DueIsServed ==
    \A j \in Job : \A t \in 0 .. LastTick :
        (Due(j) /\ row[j].next = t /\ t < clock /\ \E c \in Chain : ~ At(c, "off"))
            ~> \/ row[j].next # t \/ row[j].num = 0 \/ ~ row[j].active
               \/ \E c \in Chain : At(c, "dead")

\* "Number of time the function is called"
NumberOfCalls == \A j \in Job : Calls[j] > 0 => ran[j] <= Calls[j]
=============================================================================
