------------------------------ MODULE CronProofs ------------------------------
(***************************************************************************)
(* The scheduler, for any finite set of jobs, any intervals, numbers of    *)
(* calls, first calls and length of the run.  The types are proved for any *)
(* number of chains; what is said of the calls of a job for one chain, the *)
(* scheduler as it runs until a system upgrade starts a second one, which  *)
(* breaks it (run cron_twice).                                             *)
(* The argument: a row, and an entry of the list a thread works through,   *)
(* account for the calls that are committed and those about to be; the     *)
(* thread is alone to change either.                                       *)
(***************************************************************************)
EXTENDS Cron, FiniteSetTheorems, SequenceTheorems, TLAPS

\* The local variables of a thread.
Local ==
    [pc : {"off", "wait", "select", "jobs", "dead"},
     wake : 0 .. LastTick, now : 0 .. LastTick, jobs : Seq(Listed),
     called : Nat, open : BOOLEAN, dirty : SUBSET Job]

\* The entries of a list keep the numbers of calls their rows may have.
Kept(jobs) == \A i \in DOMAIN jobs : jobs[i].num \in Left(jobs[i].job)

Typed == TypeOK /\ \A c \in Chain : Kept(chain[c].jobs)

-----------------------------------------------------------------------------
\* A list by priority holds each of the jobs once.
LEMMA ListOfDue ==
    ASSUME NEW S \in SUBSET Job, NEW due \in ByPriority(S)
    PROVE  /\ due \in Seq(S) /\ DOMAIN due = 1 .. Len(due) /\ Len(due) \in Nat
           /\ \A i, k \in DOMAIN due : i # k => due[i] # due[k]
<1> DEFINE n == Cardinality(S)
<1>1. IsFiniteSet(S)
  BY CronAssumption, FS_Subset
<1>2. n \in Nat
  BY <1>1, FS_CardinalityType
<1> HIDE DEF n
<1>3. due \in [1 .. n -> S] /\ \A i, k \in 1 .. n : i # k => due[i] # due[k]
  BY DEF ByPriority, SetToSeqs, n
<1>4. due \in Seq(S)
  BY <1>2, <1>3
<1> QED BY <1>3, <1>4

\* The head and the tail of a list.
LEMMA HeadTail ==
    ASSUME NEW S, NEW s \in Seq(S), s # <<>>
    PROVE  /\ Head(s) = s[1] /\ 1 \in DOMAIN s /\ s[1] \in S /\ Tail(s) \in Seq(S)
           /\ DOMAIN s = 1 .. Len(s) /\ Len(s) \in Nat
           /\ \A i \in DOMAIN Tail(s) :
                i + 1 \in DOMAIN s /\ i + 1 # 1 /\ Tail(s)[i] = s[i + 1]
<1>1. /\ Head(s) = s[1] /\ 1 \in DOMAIN s /\ Tail(s) \in Seq(S) /\ DOMAIN s = 1 .. Len(s)
      /\ Len(s) \in Nat /\ DOMAIN Tail(s) = 1 .. Len(s) - 1
      /\ \A i \in DOMAIN Tail(s) : Tail(s)[i] = s[i + 1]
  OBVIOUS
<1>2. s[1] \in S
  BY <1>1
<1>3. \A i \in DOMAIN Tail(s) : i + 1 \in DOMAIN s /\ i + 1 # 1
  BY <1>1
<1> QED BY <1>1, <1>2, <1>3

-----------------------------------------------------------------------------
(* Types                                                                   *)

\* The first state is typed.
LEMMA InitTyped == Init => Typed
<1> SUFFICES ASSUME Init PROVE Typed
  OBVIOUS
<1> USE CronAssumption DEF Init
<1>1. <<>> \in Seq(Listed)
  OBVIOUS
<1>2. TypeOK
  BY <1>1 DEF TypeOK, Row, Left
<1>3. \A c \in Chain : chain[c].jobs = <<>>
  OBVIOUS
<1> QED BY <1>2, <1>3 DEF Typed, Kept

\* A step of one thread that leaves the database alone.
LEMMA OneTyped ==
    ASSUME Typed, NEW c \in Chain, NEW m \in Local, Kept(m.jobs),
           chain' = [chain EXCEPT ![c] = m], UNCHANGED <<clock, row, ran>>
    PROVE  Typed'
<1>1. TypeOK'
  BY DEF Typed, TypeOK, Local
<1>2. \A d \in Chain : chain'[d] = chain[d] \/ chain'[d] = m
  BY DEF Typed, TypeOK
<1> QED BY <1>1, <1>2 DEF Typed

\* What a thread may become without a new list.
LEMMA LocalSteps ==
    ASSUME Typed, NEW c \in Chain
    PROVE  /\ chain[c] \in Local
           /\ Begun(chain[c]) \in Local /\ Begun(chain[c]).jobs = chain[c].jobs
           /\ Dead(chain[c]) \in Local /\ Dead(chain[c]).jobs = <<>>
<1>1. chain[c] \in Local /\ clock \in 0 .. LastTick
  BY DEF Typed, TypeOK, Local
<1>2. <<>> \in Seq(Listed)
  OBVIOUS
<1> QED BY <1>1, <1>2 DEF Local, Begun, Dead

\* A commit reaches the other transactions.
LEMMA DirtyTyped ==
    ASSUME Typed, NEW j \in Job
    PROVE  /\ Dirty(j) \in [Chain -> Local]
           /\ \A c \in Chain : /\ Dirty(j)[c].jobs = chain[c].jobs
                               /\ Dirty(j)[c].called = chain[c].called
                               /\ Dirty(j)[c].pc = chain[c].pc
                               /\ Dirty(j)[c].now = chain[c].now
<1> SUFFICES ASSUME NEW c \in Chain
             PROVE  /\ Dirty(j)[c] \in Local
                    /\ Dirty(j)[c].jobs = chain[c].jobs
                    /\ Dirty(j)[c].called = chain[c].called
                    /\ Dirty(j)[c].pc = chain[c].pc
                    /\ Dirty(j)[c].now = chain[c].now
  BY DEF Dirty
<1>1. Dirty(j)[c] = IF chain[c].open THEN [chain[c] EXCEPT !.dirty = @ \cup {j}] ELSE chain[c]
  BY DEF Dirty
<1>2. chain[c] \in Local
  BY LocalSteps
<1> QED BY <1>1, <1>2 DEF Local

-----------------------------------------------------------------------------
(* What a step does to the thread that takes it                            *)

\* The list is what the rows say at the time of the query.
LEMMA SelectStep ==
    ASSUME Typed, NEW c \in Chain, Select(c)
    PROVE  \E m \in Local :
             /\ chain' = [chain EXCEPT ![c] = m] /\ UNCHANGED <<clock, row, ran>>
             /\ m.pc = "jobs" /\ m.called = 0 /\ m.now = chain[c].now
             /\ \A i \in DOMAIN m.jobs :
                  /\ m.jobs[i].next = row[m.jobs[i].job].next
                  /\ m.jobs[i].num = row[m.jobs[i].job].num
             /\ \A i, k \in DOMAIN m.jobs : i # k => m.jobs[i].job # m.jobs[k].job
<1> DEFINE S == {j \in Job : Due(j)}
           list(due) == [i \in DOMAIN due |->
                           [job |-> due[i], next |-> row[due[i]].next, num |-> row[due[i]].num]]
           m(due) == [chain[c] EXCEPT !.pc = "jobs", !.open = TRUE, !.dirty = {},
                                      !.called = 0, !.jobs = list(due)]
<1>1. PICK due \in ByPriority(S) : chain' = [chain EXCEPT ![c] = m(due)]
  BY DEF Select
<1>2. /\ due \in Seq(Job) /\ DOMAIN due = 1 .. Len(due) /\ Len(due) \in Nat
      /\ \A i, k \in DOMAIN due : i # k => due[i] # due[k]
  <2> HIDE DEF S
  <2>1. S \in SUBSET Job
    BY DEF S
  <2>2. /\ due \in Seq(S) /\ DOMAIN due = 1 .. Len(due) /\ Len(due) \in Nat
        /\ \A i, k \in DOMAIN due : i # k => due[i] # due[k]
    BY <2>1, ListOfDue
  <2> QED BY <2>1, <2>2, SeqMonotonic
<1>3. \A i \in DOMAIN due : due[i] \in Job /\ row[due[i]] \in Row
  BY <1>2 DEF Typed, TypeOK
<1>4. list(due) \in Seq(Listed)
  <2>1. list(due) \in [1 .. Len(due) -> Listed]
    BY <1>2, <1>3 DEF Row, Listed
  <2> HIDE DEF list
  <2> QED BY <1>2, <2>1
<1>5. chain[c] \in Local
  BY LocalSteps
<1>6. m(due) \in Local /\ m(due).jobs = list(due)
  <2> HIDE DEF list
  <2> QED BY <1>4, <1>5 DEF Local
<1>7. /\ \A i \in DOMAIN list(due) : /\ list(due)[i].next = row[list(due)[i].job].next
                                     /\ list(due)[i].num = row[list(due)[i].job].num
      /\ \A i, k \in DOMAIN list(due) : i # k => list(due)[i].job # list(due)[k].job
  BY <1>2, <1>3
<1>8. m(due).pc = "jobs" /\ m(due).called = 0 /\ m(due).now = chain[c].now
  BY <1>5 DEF Local
<1>9. UNCHANGED <<clock, row, ran>>
  BY DEF Select
<1> HIDE DEF m, list
<1> QED BY <1>1, <1>6, <1>7, <1>8, <1>9

\* The head of the list of a thread, and what a period makes of it.
LEMMA CallStep ==
    ASSUME Typed, NEW c \in Chain, Call(c)
    PROVE  LET jobs == chain[c].jobs
               left == IF jobs[1].num > 0 THEN jobs[1].num - 1 ELSE jobs[1].num
           IN \E m \in Local :
                /\ chain' = [chain EXCEPT ![c] = m] /\ UNCHANGED <<clock, row, ran>>
                /\ m.pc = chain[c].pc /\ m.now = chain[c].now
                /\ jobs[1] \in Listed /\ 1 \in DOMAIN jobs
                /\ jobs[1].next < chain[c].now /\ jobs[1].num # 0
                /\ m.called = IF chain[c].called = 0 \/ DoAll[jobs[1].job]
                              THEN chain[c].called + 1 ELSE chain[c].called
                /\ DOMAIN m.jobs = DOMAIN jobs
                /\ \A i \in DOMAIN jobs : i # 1 => m.jobs[i] = jobs[i]
                /\ m.jobs[1].job = jobs[1].job /\ m.jobs[1].num = left
                /\ m.jobs[1].next = IF left # 0 THEN jobs[1].next + Interval[jobs[1].job]
                                    ELSE jobs[1].next
<1> DEFINE jobs == chain[c].jobs
           first == jobs[1]
           left == IF first.num > 0 THEN first.num - 1 ELSE first.num
           called == IF chain[c].called = 0 \/ DoAll[first.job]
                     THEN chain[c].called + 1 ELSE chain[c].called
           next == IF left # 0 THEN first.next + Interval[first.job] ELSE first.next
           new == [first EXCEPT !.num = left, !.next = next]
           list == [jobs EXCEPT ![1] = new]
           m == [chain[c] EXCEPT !.jobs = list, !.called = called, !.open = TRUE]
<1>1. chain[c] \in Local /\ jobs \in Seq(Listed) /\ chain[c].called \in Nat
  BY LocalSteps DEF Local
<1>2. jobs # <<>> /\ Head(jobs).next < chain[c].now /\ Head(jobs).num # 0
  BY DEF Call, Missed
<1>3. Head(jobs) = first /\ 1 \in DOMAIN jobs /\ first \in Listed
  <2> HIDE DEF jobs
  <2> QED BY <1>1, <1>2, HeadTail
<1>4. chain' = [chain EXCEPT ![c] = m] /\ UNCHANGED <<clock, row, ran>>
  <2>1. chain' = [chain EXCEPT ![c] = Period(chain[c])] /\ UNCHANGED <<clock, row, ran>>
    BY DEF Call
  <2>2. Period(chain[c]) = m
    BY <1>1, <1>3 DEF Period, Local
  <2> QED BY <2>1, <2>2
<1>5. first.job \in Job /\ first.next \in Nat /\ first.num \in Int
  BY <1>3 DEF Listed
<1>6. left \in Int /\ next \in Nat /\ called \in Nat
  BY <1>1, <1>5, CronAssumption
<1> HIDE DEF left, next, called
<1>7. new \in Listed /\ new.job = first.job /\ new.num = left /\ new.next = next
  BY <1>3, <1>6 DEF Listed
<1>8. /\ list \in Seq(Listed) /\ DOMAIN list = DOMAIN jobs /\ list[1] = new
      /\ \A i \in DOMAIN jobs : i # 1 => list[i] = jobs[i]
  <2> HIDE DEF new, jobs
  <2> QED BY <1>1, <1>3, <1>7
<1>9. /\ m \in Local /\ m.jobs = list /\ m.called = called
      /\ m.pc = chain[c].pc /\ m.now = chain[c].now
  <2> HIDE DEF list
  <2> QED BY <1>1, <1>6, <1>8 DEF Local
<1> HIDE DEF m, list, new
<1>10. \E n \in Local :
                /\ chain' = [chain EXCEPT ![c] = n] /\ UNCHANGED <<clock, row, ran>>
                /\ n.pc = chain[c].pc /\ n.now = chain[c].now
                /\ first \in Listed /\ 1 \in DOMAIN jobs
                /\ first.next < chain[c].now /\ first.num # 0
                /\ n.called = called
                /\ DOMAIN n.jobs = DOMAIN jobs
                /\ \A i \in DOMAIN jobs : i # 1 => n.jobs[i] = jobs[i]
                /\ n.jobs[1].job = first.job /\ n.jobs[1].num = left
                /\ n.jobs[1].next = next
  BY <1>2, <1>3, <1>4, <1>7, <1>8, <1>9
<1> QED BY <1>10 DEF left, next, called

\* The thread after the UPDATE of its job holds a shorter list of the same kind.
LEMMA StoredLocal ==
    ASSUME NEW m \in Local, Tail(m.jobs) \in Seq(Listed)
    PROVE  /\ Stored(m) \in Local /\ Stored(m).jobs = Tail(m.jobs) /\ Stored(m).called = 0
           /\ Stored(m).pc = m.pc /\ Stored(m).now = m.now
BY DEF Stored, Local

\* The row takes what the head of the list has come to.
LEMMA StoreStep ==
    ASSUME Typed, NEW c \in Chain, Store(c)
    PROVE  LET jobs == chain[c].jobs
               first == jobs[1]
           IN /\ first \in Listed /\ 1 \in DOMAIN jobs
              /\ row' = [row EXCEPT ![first.job] =
                   [active |-> row[first.job].active /\ first.num # 0,
                    next |-> first.next, num |-> first.num]]
              /\ ran' = [ran EXCEPT ![first.job] = ran[first.job] + chain[c].called]
              /\ clock' = clock /\ chain' \in [Chain -> Local]
              /\ \A d \in Chain \ {c} :
                   chain'[d].jobs = chain[d].jobs /\ chain'[d].called = chain[d].called
              /\ \A d \in Chain : chain'[d].pc = chain[d].pc /\ chain'[d].now = chain[d].now
              /\ chain'[c].jobs = Tail(jobs) /\ chain'[c].called = 0
<1> DEFINE jobs == chain[c].jobs
           first == jobs[1]
<1>1. chain[c] \in Local /\ jobs \in Seq(Listed)
  BY LocalSteps DEF Local
<1>2. jobs # <<>>
  BY DEF Store, Stores
<1>3. /\ Head(jobs) = first /\ 1 \in DOMAIN jobs /\ first \in Listed
      /\ Tail(jobs) \in Seq(Listed)
  <2> HIDE DEF jobs
  <2> QED BY <1>1, <1>2, HeadTail
<1>4. first.job \in Job
  BY <1>3 DEF Listed
<1>5. /\ row' = [row EXCEPT ![first.job] =
           [active |-> row[first.job].active /\ first.num # 0,
            next |-> first.next, num |-> first.num]]
      /\ ran' = [ran EXCEPT ![first.job] = ran[first.job] + chain[c].called]
      /\ clock' = clock
      /\ chain' = [Dirty(first.job) EXCEPT ![c] = Stored(Dirty(first.job)[c])]
  <2> HIDE DEF first
  <2> QED BY <1>3 DEF Store, Stores
<1>6. /\ Dirty(first.job) \in [Chain -> Local]
      /\ \A d \in Chain : /\ Dirty(first.job)[d].jobs = chain[d].jobs
                          /\ Dirty(first.job)[d].called = chain[d].called
                          /\ Dirty(first.job)[d].pc = chain[d].pc
                          /\ Dirty(first.job)[d].now = chain[d].now
  BY <1>4, DirtyTyped
<1> DEFINE m == Stored(Dirty(first.job)[c])
<1>7. /\ m \in Local /\ m.jobs = Tail(jobs) /\ m.called = 0
      /\ m.pc = chain[c].pc /\ m.now = chain[c].now
  <2>1. /\ Dirty(first.job)[c] \in Local /\ Dirty(first.job)[c].jobs = jobs
        /\ Tail(Dirty(first.job)[c].jobs) \in Seq(Listed)
    BY <1>3, <1>6
  <2> QED BY <1>6, <2>1, StoredLocal
<1> HIDE DEF m
<1>8. chain' = [Dirty(first.job) EXCEPT ![c] = m]
  BY <1>5 DEF m
<1>9. /\ chain' \in [Chain -> Local] /\ chain'[c] = m
      /\ \A d \in Chain \ {c} : chain'[d] = Dirty(first.job)[d]
  BY <1>6, <1>7, <1>8
<1> HIDE DEF first
<1>10. /\ \A d \in Chain \ {c} :
             chain'[d].jobs = chain[d].jobs /\ chain'[d].called = chain[d].called
       /\ \A d \in Chain : chain'[d].pc = chain[d].pc /\ chain'[d].now = chain[d].now
  BY <1>6, <1>7, <1>9
<1>11. chain'[c].jobs = Tail(jobs) /\ chain'[c].called = 0
  BY <1>7, <1>9
<1> QED BY <1>3, <1>5, <1>9, <1>10, <1>11 DEF first

-----------------------------------------------------------------------------
(* The types are kept                                                      *)

\* The SELECT reads active rows into the list of the thread.
LEMMA SelectTyped ==
    ASSUME Typed, NEW c \in Chain, Select(c) PROVE Typed'
<1>1. PICK m \in Local :
        /\ chain' = [chain EXCEPT ![c] = m] /\ UNCHANGED <<clock, row, ran>>
        /\ \A i \in DOMAIN m.jobs : m.jobs[i].num = row[m.jobs[i].job].num
  BY SelectStep
<1>2. \A i \in DOMAIN m.jobs : m.jobs[i].job \in Job
  <2>1. m.jobs \in Seq(Listed)
    BY DEF Local
  <2>2. \A i \in DOMAIN m.jobs : m.jobs[i] \in Listed
    BY <2>1
  <2> QED BY <2>2 DEF Listed
<1>3. Kept(m.jobs)
  BY <1>1, <1>2 DEF Kept, Typed, TypeOK
<1> QED BY <1>1, <1>3, OneTyped

\* A call changes only what the thread counts.
LEMMA CallTyped ==
    ASSUME Typed, NEW c \in Chain, Call(c) PROVE Typed'
<1> DEFINE jobs == chain[c].jobs
           first == jobs[1]
<1>1. PICK m \in Local :
        /\ chain' = [chain EXCEPT ![c] = m] /\ UNCHANGED <<clock, row, ran>>
        /\ first \in Listed /\ 1 \in DOMAIN jobs /\ first.num # 0
        /\ DOMAIN m.jobs = DOMAIN jobs
        /\ \A i \in DOMAIN jobs : i # 1 => m.jobs[i] = jobs[i]
        /\ m.jobs[1].job = first.job
        /\ m.jobs[1].num = IF first.num > 0 THEN first.num - 1 ELSE first.num
  BY CallStep
<1>2. Kept(jobs)
  BY DEF Typed
<1>3. m.jobs[1].num \in Left(m.jobs[1].job)
  <2>1. first.num \in Left(first.job) /\ first.job \in Job /\ Calls[first.job] \in Int
    BY <1>1, <1>2, CronAssumption DEF Kept, Listed
  <2> QED BY <1>1, <2>1 DEF Left
<1>4. Kept(m.jobs)
  BY <1>1, <1>2, <1>3 DEF Kept
<1> QED BY <1>1, <1>4, OneTyped

\* The UPDATE writes the row the list leads to.
LEMMA StoreTyped ==
    ASSUME Typed, NEW c \in Chain, Store(c) PROVE Typed'
<1> DEFINE jobs == chain[c].jobs
           first == jobs[1]
<1>1. /\ first \in Listed /\ 1 \in DOMAIN jobs
      /\ row' = [row EXCEPT ![first.job] =
           [active |-> row[first.job].active /\ first.num # 0,
            next |-> first.next, num |-> first.num]]
      /\ ran' = [ran EXCEPT ![first.job] = ran[first.job] + chain[c].called]
      /\ clock' = clock /\ chain' \in [Chain -> Local]
      /\ \A d \in Chain \ {c} : chain'[d].jobs = chain[d].jobs
      /\ chain'[c].jobs = Tail(jobs)
  BY StoreStep
<1>2. first.job \in Job /\ first.num \in Left(first.job) /\ jobs \in Seq(Listed)
      /\ jobs # <<>> /\ Kept(jobs) /\ chain[c].called \in Nat
  <2>1. Kept(jobs)
    BY DEF Typed
  <2>2. jobs \in Seq(Listed) /\ chain[c].called \in Nat
    BY LocalSteps DEF Local
  <2>3. jobs # <<>>
    BY DEF Store, Stores
  <2> QED BY <1>1, <2>1, <2>2, <2>3 DEF Kept, Listed
<1>3. TypeOK'
  <2>1. (row \in [Job -> Row] /\ \A j \in Job : row[j].num \in Left(j))'
    BY <1>1, <1>2 DEF Typed, TypeOK, Row, Listed
  <2>2. (ran \in [Job -> Nat])'
    BY <1>1, <1>2 DEF Typed, TypeOK
  <2> QED BY <1>1, <2>1, <2>2 DEF Typed, TypeOK, Local
<1>4. Kept(Tail(jobs))
  <2> HIDE DEF jobs
  <2> QED BY <1>2, HeadTail DEF Kept
<1>5. \A d \in Chain : Kept(chain'[d].jobs)
  BY <1>1, <1>4 DEF Typed
<1> QED BY <1>3, <1>5 DEF Typed

\* A thread that rearms itself has no list.
LEMMA RearmTyped ==
    ASSUME Typed, NEW c \in Chain, Rearm(c) PROVE Typed'
<1> DEFINE wake == IF clock + NextWait <= LastTick THEN clock + NextWait ELSE LastTick
           m == [chain[c] EXCEPT !.pc = "wait", !.open = FALSE, !.dirty = {}, !.wake = wake]
<1>1. chain' = [chain EXCEPT ![c] = m] /\ UNCHANGED <<clock, row, ran>>
  BY DEF Rearm
<1>2. m \in Local /\ m.jobs = chain[c].jobs
  <2>1. chain[c] \in Local /\ clock \in 0 .. LastTick
    BY LocalSteps DEF Typed, TypeOK
  <2>2. wake \in 0 .. LastTick
    BY <2>1, CronAssumption
  <2> HIDE DEF wake
  <2> QED BY <2>1, <2>2 DEF Local
<1> HIDE DEF m
<1>3. Kept(m.jobs)
  BY <1>2 DEF Typed
<1> QED BY <1>1, <1>2, <1>3, OneTyped

\* The threads that start, wake and die.
LEMMA ThreadTyped ==
    ASSUME Typed, NEW c \in Chain, Start(c) \/ Wake(c) \/ Die(c) PROVE Typed'
<1>1. /\ chain[c] \in Local
      /\ Begun(chain[c]) \in Local /\ Begun(chain[c]).jobs = chain[c].jobs
      /\ Dead(chain[c]) \in Local /\ Dead(chain[c]).jobs = <<>>
  BY LocalSteps
<1>2. Kept(Begun(chain[c]).jobs) /\ Kept(Dead(chain[c]).jobs)
  BY <1>1 DEF Typed, Kept
<1>3. UNCHANGED <<clock, row, ran>>
  BY DEF Start, Wake, Die
<1>4. \/ chain' = [chain EXCEPT ![c] = Begun(chain[c])]
      \/ chain' = [chain EXCEPT ![c] = Dead(chain[c])]
  BY DEF Start, Wake, Die
<1> QED BY <1>1, <1>2, <1>3, <1>4, OneTyped

\* A stop of the server ends the threads.
LEMMA StopTyped ==
    ASSUME Typed, Stop PROVE Typed'
<1>1. \A c \in Chain : chain'[c] \in Local /\ (chain'[c].jobs = chain[c].jobs \/ chain'[c].jobs = <<>>)
  BY LocalSteps DEF Stop
<1>2. chain' \in [Chain -> Local] /\ UNCHANGED <<clock, row, ran>>
  BY <1>1 DEF Stop
<1>3. TypeOK'
  BY <1>2 DEF Typed, TypeOK, Local
<1>4. \A c \in Chain : Kept(chain'[c].jobs)
  <2>1. Kept(<<>>)
    BY DEF Kept
  <2> QED BY <1>1, <2>1 DEF Typed
<1> QED BY <1>3, <1>4 DEF Typed

\* A user who switches a job on or off spoils the lists that hold it.
LEMMA SetActiveTyped ==
    ASSUME Typed, NEW j \in Job, SetActive(j) PROVE Typed'
<1>1. /\ chain' = Dirty(j) /\ UNCHANGED <<clock, ran>>
      /\ row' = [row EXCEPT ![j].active = ~ row[j].active]
  BY DEF SetActive
<1>2. /\ chain' \in [Chain -> Local]
      /\ \A c \in Chain : chain'[c].jobs = chain[c].jobs
  BY <1>1, DirtyTyped
<1>3. (row \in [Job -> Row] /\ \A k \in Job : row[k].num \in Left(k))'
  BY <1>1 DEF Typed, TypeOK, Row
<1>4. TypeOK'
  BY <1>1, <1>2, <1>3 DEF Typed, TypeOK, Local
<1> QED BY <1>2, <1>4 DEF Typed

\* Every step keeps the types.
LEMMA NextTyped == Typed /\ [Next]_vars => Typed'
<1> SUFFICES ASSUME Typed, [Next]_vars PROVE Typed'
  OBVIOUS
<1>1. CASE Tick \/ UNCHANGED vars
  <2>1. TypeOK'
    BY <1>1, CronAssumption DEF Typed, TypeOK, Tick, vars
  <2> QED BY <1>1, <2>1 DEF Typed, Tick, vars
<1>2. ASSUME NEW c \in Chain, Start(c) \/ Thread(c) \/ Die(c) PROVE Typed'
  BY <1>2, SelectTyped, CallTyped, StoreTyped, RearmTyped, ThreadTyped DEF Thread
<1>3. CASE \E j \in Job : SetActive(j)
  BY <1>3, SetActiveTyped
<1>4. CASE Stop
  BY <1>4, StopTyped
<1> QED BY <1>1, <1>2, <1>3, <1>4 DEF Next

\* So every reachable state is typed.
LEMMA AlwaysTyped == Spec => []Typed
BY InitTyped, NextTyped, PTL DEF Spec

\* The rows and the lists of the threads keep their types: numbercall never
\* leaves the numbers between what it was and zero, a negative one stays.
THEOREM TypeCorrect == Spec => []TypeOK
<1>1. Typed => TypeOK
  BY DEF Typed
<1> QED BY <1>1, AlwaysTyped, PTL

-----------------------------------------------------------------------------
(* The calls of a job                                                      *)

\* What a row, or an entry of a list, says of the next call and of the calls
\* left at time t, when n calls have been made.
Agrees(t, j, n, next, num) ==
    /\ n > 0 => First[j] + (n - 1) * Interval[j] < t
    /\ num # 0 => First[j] + n * Interval[j] <= next
    /\ Calls[j] > 0 => n + num <= Calls[j] /\ (DoAll[j] => n + num = Calls[j])

\* The calls of the job of entry i: those to be committed are the first's.
Made(c, i) == ran[chain[c].jobs[i].job] + (IF i = 1 THEN chain[c].called ELSE 0)

Rows == \A j \in Job : Agrees(clock, j, ran[j], row[j].next, row[j].num)

Thrd(c) ==
    /\ chain[c].now <= clock /\ chain[c].called \in Nat
    /\ chain[c].jobs = <<>> => chain[c].called = 0
    /\ \A i, k \in DOMAIN chain[c].jobs : i # k => chain[c].jobs[i].job # chain[c].jobs[k].job
    /\ \A i \in DOMAIN chain[c].jobs :
         Agrees(clock, chain[c].jobs[i].job, Made(c, i), chain[c].jobs[i].next, chain[c].jobs[i].num)

Accounts == Typed /\ Rows /\ \A c \in Chain : Thrd(c)

\* The multiples of an interval, for provers that do not multiply.
LEMMA Products ==
    ASSUME NEW j \in Job
    PROVE  /\ \A n \in Int : n * Interval[j] \in Int
           /\ \A n \in Int : (n + 1) * Interval[j] = n * Interval[j] + Interval[j]
           /\ 0 * Interval[j] = 0
BY CronAssumption

\* Time passes.
LEMMA AgreesLater ==
    ASSUME NEW t \in Int, NEW u \in Int, t <= u, NEW j \in Job, NEW n \in Nat,
           NEW next, NEW num, Agrees(t, j, n, next, num)
    PROVE  Agrees(u, j, n, next, num)
<1>1. First[j] + (n - 1) * Interval[j] \in Int
  BY CronAssumption, Products
<1> QED BY <1>1 DEF Agrees

\* A call that is due is made, or a period of a job that does not repeat the
\* missed ones passes.
LEMMA AgreesCalled ==
    ASSUME NEW t \in Int, NEW j \in Job, NEW n \in Nat, NEW m \in {n, n + 1},
           NEW next \in Int, NEW num \in Int, num # 0, next < t, DoAll[j] => m = n + 1,
           num \in Left(j), Agrees(t, j, n, next, num)
    PROVE  LET left == IF num > 0 THEN num - 1 ELSE num
           IN  Agrees(t, j, m, IF left # 0 THEN next + Interval[j] ELSE next, left)
<1> DEFINE left == IF num > 0 THEN num - 1 ELSE num
           later == IF left # 0 THEN next + Interval[j] ELSE next
           times(k) == k * Interval[j]
<1>1. /\ times(n) \in Int /\ times(n + 1) = times(n) + Interval[j] /\ times(n - 1) \in Int
      /\ First[j] \in Int /\ Interval[j] \in Nat /\ Calls[j] \in Int
      /\ First[j] + times(n) <= next
      /\ (n + 1) - 1 = n
  BY CronAssumption, Products DEF Agrees
<1>2. /\ n > 0 => First[j] + times(n - 1) < t
      /\ Calls[j] > 0 => n + num <= Calls[j] /\ (DoAll[j] => n + num = Calls[j]) /\ num > 0
  BY <1>1 DEF Agrees, Left
<1> HIDE DEF times
<1>3. m > 0 => First[j] + times(m - 1) < t
  <2>1. CASE m = n
    BY <1>2, <2>1
  <2>2. CASE m = n + 1
    <3>1. m - 1 = n
      BY <2>2
    <3>2. times(m - 1) = times(n)
      BY <3>1
    <3>3. First[j] + times(n) < t
      <4> HIDE DEF left, later
      <4> QED BY <1>1
    <3> QED BY <3>2, <3>3
  <2> QED BY <2>1, <2>2
<1>4. left # 0 => First[j] + times(m) <= later
  BY <1>1
<1>5. Calls[j] > 0 => m + left <= Calls[j] /\ (DoAll[j] => m + left = Calls[j])
  BY <1>1, <1>2
<1> QED BY <1>3, <1>4, <1>5 DEF Agrees, times

-----------------------------------------------------------------------------
(* The rows and the one thread go on accounting for the calls              *)

OneChain == \A c, d \in Chain : c = d

\* Before the first call the rows say what was ordered.
LEMMA InitAccounts == Init => Accounts
<1> SUFFICES ASSUME Init PROVE Accounts
  OBVIOUS
<1>1. Typed
  BY InitTyped
<1>2. Rows
  <2> SUFFICES ASSUME NEW j \in Job PROVE Agrees(0, j, 0, First[j], Calls[j])
    BY DEF Init, Rows
  <2>1. First[j] + 0 * Interval[j] <= First[j]
    BY CronAssumption, Products
  <2>2. 0 + Calls[j] = Calls[j]
    BY CronAssumption
  <2>3. ~ (0 > 0)
    OBVIOUS
  <2>4. 0 > 0 => First[j] + (0 - 1) * Interval[j] < 0
    BY <2>3
  <2>5. Calls[j] > 0 => 0 + Calls[j] <= Calls[j] /\ (DoAll[j] => 0 + Calls[j] = Calls[j])
    BY <2>2, CronAssumption
  <2> QED BY <2>1, <2>4, <2>5, Zenon DEF Agrees
<1>3. \A c \in Chain : Thrd(c)
  BY DEF Init, Thrd
<1> QED BY <1>1, <1>2, <1>3 DEF Accounts

\* A step of the thread that leaves the rows and its entries as they are.
LEMMA SameEntries ==
    ASSUME Accounts, OneChain, NEW c \in Chain, NEW m \in Local, chain' = [chain EXCEPT ![c] = m],
           UNCHANGED <<clock, row, ran>>, m.now <= clock,
           m.jobs = chain[c].jobs, m.called = chain[c].called
    PROVE  Rows' /\ \A d \in Chain : Thrd(d)'
<1>1. chain'[c] = m /\ m.called \in Nat
  BY DEF Accounts, Typed, TypeOK, Local
<1>2. \A i \in DOMAIN m.jobs : Made(c, i)' = Made(c, i)
  BY <1>1 DEF Made
<1>3. Thrd(c)'
  BY <1>1, <1>2 DEF Accounts, Thrd
<1> QED BY <1>3 DEF OneChain, Accounts, Rows

\* A thread that starts, wakes or dies commits nothing.
LEMMA ThreadAccounts ==
    ASSUME Accounts, OneChain, NEW c \in Chain, Start(c) \/ Wake(c) \/ Die(c) \/ Rearm(c)
    PROVE  Rows' /\ \A d \in Chain : Thrd(d)'
<1>1. /\ chain[c] \in Local /\ clock \in 0 .. LastTick /\ chain[c].now <= clock
      /\ UNCHANGED <<clock, row, ran>>
      /\ chain[c].jobs = <<>> => chain[c].called = 0
  BY LocalSteps DEF Accounts, Typed, TypeOK, Thrd, Start, Wake, Die, Rearm
<1>2. CASE Start(c) \/ Wake(c)
  <2> DEFINE b == Begun(chain[c])
  <2>1. chain' = [chain EXCEPT ![c] = b]
    BY <1>2 DEF Start, Wake
  <2>2. b \in Local /\ b.now = clock /\ b.jobs = chain[c].jobs /\ b.called = chain[c].called
    BY <1>1, LocalSteps DEF Begun, Local, Accounts
  <2>3. b.now <= clock
    BY <1>1, <2>2
  <2> HIDE DEF b
  <2> QED BY <1>1, <2>1, <2>2, <2>3, SameEntries
<1>3. CASE Die(c)
  <2>1. chain' = [chain EXCEPT ![c] = Dead(chain[c])]
    BY <1>3 DEF Die
  <2>2. /\ Dead(chain[c]).now = chain[c].now
        /\ Dead(chain[c]).jobs = <<>> /\ Dead(chain[c]).called = 0
    BY <1>1, LocalSteps DEF Dead, Local, Accounts
  <2>3. Thrd(c)'
    <3>1. chain'[c] = Dead(chain[c])
      BY <2>1 DEF Accounts, Typed, TypeOK
    <3> QED BY <1>1, <2>2, <3>1 DEF Thrd
  <2> QED BY <1>1, <2>3 DEF OneChain, Accounts, Rows
<1>4. CASE Rearm(c)
  <2> DEFINE wake == IF clock + NextWait <= LastTick THEN clock + NextWait ELSE LastTick
             w == [chain[c] EXCEPT !.pc = "wait", !.open = FALSE, !.dirty = {}, !.wake = wake]
  <2>1. chain' = [chain EXCEPT ![c] = w]
    BY <1>4 DEF Rearm
  <2>2. wake \in 0 .. LastTick
    BY <1>1, CronAssumption
  <2>3. w \in Local /\ w.now = chain[c].now /\ w.jobs = chain[c].jobs /\ w.called = chain[c].called
    <3> HIDE DEF wake
    <3> QED BY <1>1, <2>2 DEF Local
  <2> HIDE DEF w
  <2> QED BY <1>1, <2>1, <2>3, SameEntries
<1> QED BY <1>2, <1>3, <1>4

\* Nor does a stop of the server.
LEMMA StopAccounts ==
    ASSUME Accounts, Stop PROVE Rows' /\ \A d \in Chain : Thrd(d)'
<1>1. UNCHANGED <<clock, row, ran>> /\ Rows'
  BY DEF Stop, Accounts, Rows
<1>2. ASSUME NEW d \in Chain PROVE Thrd(d)'
  <2>1. chain'[d] = chain[d] \/ chain'[d] = Dead(chain[d])
    BY DEF Stop
  <2>2. CASE chain'[d] = chain[d]
    BY <1>1, <2>2 DEF Accounts, Thrd, Made
  <2>3. CASE chain'[d] = Dead(chain[d])
    <3>1. chain[d] \in Local
      BY LocalSteps DEF Accounts
    <3>2. chain'[d].jobs = <<>> /\ chain'[d].called = 0 /\ chain'[d].now = chain[d].now
      BY <2>3, <3>1 DEF Dead, Local
    <3> QED BY <1>1, <3>2 DEF Accounts, Thrd, Made
  <2> QED BY <2>1, <2>2, <2>3
<1> QED BY <1>1, <1>2

\* The active flag says nothing of the calls.
LEMMA SetActiveAccounts ==
    ASSUME Accounts, NEW j \in Job, SetActive(j) PROVE Rows' /\ \A d \in Chain : Thrd(d)'
<1>1. /\ chain' = Dirty(j) /\ UNCHANGED <<clock, ran>>
      /\ \A k \in Job : row'[k].next = row[k].next /\ row'[k].num = row[k].num
  BY DEF SetActive, Accounts, Typed, TypeOK, Row
<1>2. Rows'
  BY <1>1 DEF Accounts, Rows
<1>3. ASSUME NEW d \in Chain PROVE Thrd(d)'
  <2>1. /\ chain'[d].jobs = chain[d].jobs /\ chain'[d].called = chain[d].called
        /\ chain'[d].now = chain[d].now
    BY <1>1, DirtyTyped DEF Accounts
  <2> QED BY <1>1, <2>1 DEF Accounts, Thrd, Made
<1> QED BY <1>2, <1>3

\* Time passes.
LEMMA TickAccounts ==
    ASSUME Accounts, Tick \/ UNCHANGED vars PROVE Rows' /\ \A d \in Chain : Thrd(d)'
<1>1. /\ clock \in Int /\ clock' \in Int /\ clock <= clock' /\ UNCHANGED <<row, ran, chain>>
      /\ \A j \in Job : ran[j] \in Nat
  BY CronAssumption DEF Accounts, Typed, TypeOK, Tick, vars
<1>2. Rows'
  BY <1>1, AgreesLater DEF Accounts, Rows
<1>3. ASSUME NEW d \in Chain PROVE Thrd(d)'
  <2>1. chain[d].now \in Int /\ chain[d].jobs \in Seq(Listed)
    BY LocalSteps DEF Accounts, Local
  <2>2. \A i \in DOMAIN chain[d].jobs : chain[d].jobs[i].job \in Job
    <3>1. \A i \in DOMAIN chain[d].jobs : chain[d].jobs[i] \in Listed
      BY <2>1
    <3> QED BY <3>1 DEF Listed
  <2>3. Thrd(d)
    BY DEF Accounts
  <2>4. \A i \in DOMAIN chain[d].jobs : Made(d, i) \in Nat /\ Made(d, i)' = Made(d, i)
    BY <1>1, <2>2, <2>3 DEF Made, Thrd
  <2>5. \A i \in DOMAIN chain[d].jobs :
          Agrees(clock', chain[d].jobs[i].job, Made(d, i), chain[d].jobs[i].next, chain[d].jobs[i].num)
    BY <1>1, <2>2, <2>3, <2>4, AgreesLater DEF Thrd
  <2>6. chain[d].now <= clock'
    BY <1>1, <2>1, <2>3 DEF Thrd
  <2> QED BY <1>1, <2>3, <2>4, <2>5, <2>6 DEF Thrd
<1> QED BY <1>2, <1>3

\* The list read is what the rows say.
LEMMA SelectAccounts ==
    ASSUME Accounts, OneChain, NEW c \in Chain, Select(c)
    PROVE  Rows' /\ \A d \in Chain : Thrd(d)'
<1>1. PICK m \in Local :
        /\ chain' = [chain EXCEPT ![c] = m] /\ UNCHANGED <<clock, row, ran>>
        /\ m.called = 0 /\ m.now = chain[c].now
        /\ \A i \in DOMAIN m.jobs : /\ m.jobs[i].next = row[m.jobs[i].job].next
                                    /\ m.jobs[i].num = row[m.jobs[i].job].num
        /\ \A i, k \in DOMAIN m.jobs : i # k => m.jobs[i].job # m.jobs[k].job
  BY SelectStep DEF Accounts
<1>2. \A i \in DOMAIN m.jobs : m.jobs[i].job \in Job
  <2>1. m.jobs \in Seq(Listed)
    BY DEF Local
  <2>2. \A i \in DOMAIN m.jobs : m.jobs[i] \in Listed
    BY <2>1
  <2> QED BY <2>2 DEF Listed
<1>3. chain'[c] = m /\ Rows'
  BY <1>1 DEF Accounts, Typed, TypeOK, Rows
<1>4. \A i \in DOMAIN m.jobs : Made(c, i)' = ran[m.jobs[i].job]
  <2>1. \A j \in Job : ran[j] \in Nat
    BY DEF Accounts, Typed, TypeOK
  <2> QED BY <1>1, <1>2, <1>3, <2>1 DEF Made
<1>5. \A i \in DOMAIN m.jobs :
        Agrees(clock, m.jobs[i].job, ran[m.jobs[i].job], m.jobs[i].next, m.jobs[i].num)
  BY <1>1, <1>2 DEF Accounts, Rows
<1>6. Thrd(c)'
  BY <1>1, <1>3, <1>4, <1>5 DEF Accounts, Thrd
<1> QED BY <1>3, <1>6 DEF OneChain

\* A call that is due is counted by the thread.
LEMMA CallAccounts ==
    ASSUME Accounts, OneChain, NEW c \in Chain, Call(c)
    PROVE  Rows' /\ \A d \in Chain : Thrd(d)'
<1> DEFINE jobs == chain[c].jobs
           first == jobs[1]
           left == IF first.num > 0 THEN first.num - 1 ELSE first.num
           n == ran[first.job] + chain[c].called
           later == IF left # 0 THEN first.next + Interval[first.job] ELSE first.next
<1>1. PICK m \in Local :
        /\ chain' = [chain EXCEPT ![c] = m] /\ UNCHANGED <<clock, row, ran>>
        /\ m.now = chain[c].now
        /\ first \in Listed /\ 1 \in DOMAIN jobs
        /\ first.next < chain[c].now /\ first.num # 0
        /\ m.called = IF chain[c].called = 0 \/ DoAll[first.job]
                      THEN chain[c].called + 1 ELSE chain[c].called
        /\ DOMAIN m.jobs = DOMAIN jobs
        /\ \A i \in DOMAIN jobs : i # 1 => m.jobs[i] = jobs[i]
        /\ m.jobs[1].job = first.job /\ m.jobs[1].num = left
        /\ m.jobs[1].next = later
  BY CallStep DEF Accounts
<1>2. chain'[c] = m /\ Rows'
  BY <1>1 DEF Accounts, Typed, TypeOK, Rows
<1>3. /\ first.job \in Job /\ first.next \in Int /\ first.num \in Int
      /\ first.num \in Left(first.job)
  BY <1>1 DEF Listed, Accounts, Typed, Kept
<1>4. /\ ran[first.job] \in Nat /\ chain[c].called \in Nat /\ n \in Nat
      /\ chain[c].now <= clock /\ chain[c].now \in Int /\ clock \in Int
  <2>1. Thrd(c)
    BY DEF Accounts
  <2>2. clock \in 0 .. LastTick /\ chain[c].now \in 0 .. LastTick /\ ran \in [Job -> Nat]
    BY LocalSteps DEF Accounts, Typed, TypeOK, Local
  <2>3. ran[first.job] \in Nat
    BY <1>3, <2>2
  <2> QED BY <2>1, <2>2, <2>3 DEF Thrd
<1>5. Thrd(c) /\ Agrees(clock, first.job, n, first.next, first.num)
  BY <1>1 DEF Accounts, Thrd, Made
<1>6. Made(c, 1)' \in {n, n + 1} /\ (DoAll[first.job] => Made(c, 1)' = n + 1)
  BY <1>1, <1>2, <1>4 DEF Made
<1>7. Agrees(clock, first.job, Made(c, 1)', later, left)
  <2>1. first.next < clock
    BY <1>1, <1>3, <1>4
  <2> HIDE DEF first, n
  <2> QED BY <1>1, <1>3, <1>4, <1>5, <1>6, <2>1, AgreesCalled
<1>8. \A i \in DOMAIN jobs : i # 1 => Made(c, i)' = Made(c, i)
  BY <1>1, <1>2 DEF Made
<1>9. m.called \in Nat
  BY DEF Local
<1>10. \A i, k \in DOMAIN m.jobs : i # k => m.jobs[i].job # m.jobs[k].job
  BY <1>1, <1>5 DEF Thrd
<1>11. \A i \in DOMAIN m.jobs :
         Agrees(clock, m.jobs[i].job, Made(c, i)', m.jobs[i].next, m.jobs[i].num)
  <2> SUFFICES ASSUME NEW i \in DOMAIN m.jobs
               PROVE  Agrees(clock, m.jobs[i].job, Made(c, i)', m.jobs[i].next, m.jobs[i].num)
    OBVIOUS
  <2>1. CASE i = 1
    BY <1>1, <1>7, <2>1
  <2>2. CASE i # 1
    BY <1>1, <1>5, <1>8, <2>2 DEF Thrd
  <2> QED BY <2>1, <2>2
<1>12. m.jobs # <<>> /\ chain[c].now <= clock
  BY <1>1, <1>5 DEF Thrd
<1> HIDE DEF jobs
<1>13. Thrd(c)'
  BY <1>1, <1>2, <1>9, <1>10, <1>11, <1>12 DEF Thrd
<1> QED BY <1>2, <1>13 DEF OneChain

\* The UPDATE carries the calls of the thread to the row.
LEMMA StoreAccounts ==
    ASSUME Accounts, OneChain, NEW c \in Chain, Store(c)
    PROVE  Rows' /\ \A d \in Chain : Thrd(d)'
<1> DEFINE jobs == chain[c].jobs
           first == jobs[1]
<1>1. /\ first \in Listed /\ 1 \in DOMAIN jobs
      /\ row' = [row EXCEPT ![first.job] =
           [active |-> row[first.job].active /\ first.num # 0,
            next |-> first.next, num |-> first.num]]
      /\ ran' = [ran EXCEPT ![first.job] = ran[first.job] + chain[c].called]
      /\ clock' = clock
      /\ chain'[c].now = chain[c].now
      /\ chain'[c].jobs = Tail(jobs) /\ chain'[c].called = 0
  BY StoreStep DEF Accounts
<1>2. /\ first.job \in Job /\ Thrd(c) /\ jobs \in Seq(Listed) /\ jobs # <<>>
      /\ row \in [Job -> Row] /\ ran \in [Job -> Nat]
  <2>1. chain[c] \in Local /\ Thrd(c)
    BY LocalSteps DEF Accounts
  <2>2. row \in [Job -> Row] /\ ran \in [Job -> Nat]
    BY DEF Accounts, Typed, TypeOK
  <2>3. jobs # <<>>
    BY DEF Store, Stores
  <2>4. first.job \in Job
    BY <1>1 DEF Listed
  <2>5. jobs \in Seq(Listed)
    BY <2>1 DEF Local
  <2> QED BY <2>1, <2>2, <2>3, <2>4, <2>5
<1>3. Agrees(clock, first.job, ran[first.job] + chain[c].called, first.next, first.num)
  BY <1>1, <1>2 DEF Thrd, Made
<1>4. Rows'
  <2> SUFFICES ASSUME NEW j \in Job
               PROVE  Agrees(clock, j, ran'[j], row'[j].next, row'[j].num)
    BY <1>1 DEF Rows
  <2>1. CASE j = first.job
    <3> HIDE DEF first
    <3> QED BY <1>1, <1>2, <1>3, <2>1
  <2>2. CASE j # first.job
    <3> HIDE DEF first
    <3> QED BY <1>1, <1>2, <2>2 DEF Accounts, Rows
  <2> QED BY <2>1, <2>2
<1>5. \A i \in DOMAIN Tail(jobs) : /\ i + 1 \in DOMAIN jobs /\ i + 1 # 1
                                   /\ Tail(jobs)[i] = jobs[i + 1]
                                   /\ jobs[i + 1] \in Listed
  <2> HIDE DEF jobs
  <2>1. \A i \in DOMAIN jobs : jobs[i] \in Listed
    BY <1>2
  <2> QED BY <1>2, <2>1, HeadTail
<1>6. \A i, k \in DOMAIN jobs : i # k => jobs[i].job # jobs[k].job
  BY <1>2 DEF Thrd
<1>7. \A i \in DOMAIN Tail(jobs) : Made(c, i)' = Made(c, i + 1)
  <2> SUFFICES ASSUME NEW i \in DOMAIN Tail(jobs) PROVE Made(c, i)' = Made(c, i + 1)
    OBVIOUS
  <2> DEFINE j == jobs[i + 1].job
  <2>1. j # first.job /\ j \in Job
    BY <1>1, <1>5, <1>6 DEF Listed
  <2>2. ran'[j] = ran[j] /\ ran[j] \in Nat
    BY <1>1, <1>2, <2>1
  <2>3. Made(c, i + 1) = ran[j] + 0
    BY <1>5 DEF Made
  <2>4. Made(c, i)' = ran'[j] + 0
    BY <1>1, <1>5 DEF Made
  <2> QED BY <2>2, <2>3, <2>4
<1>8. \A i \in DOMAIN Tail(jobs) :
        Agrees(clock, Tail(jobs)[i].job, Made(c, i)', Tail(jobs)[i].next, Tail(jobs)[i].num)
  BY <1>2, <1>5, <1>7 DEF Thrd
<1>9. \A i, k \in DOMAIN Tail(jobs) : i # k => Tail(jobs)[i].job # Tail(jobs)[k].job
  <2>1. \A i \in DOMAIN Tail(jobs) : i \in Int
    <3> HIDE DEF jobs
    <3> QED BY <1>2
  <2>2. \A i, k \in DOMAIN Tail(jobs) : i # k => i + 1 # k + 1
    BY <2>1
  <2> HIDE DEF jobs
  <2> QED BY <1>5, <1>6, <2>2
<1> HIDE DEF jobs
<1>10. Thrd(c)'
  BY <1>1, <1>2, <1>8, <1>9 DEF Thrd
<1> QED BY <1>4, <1>10 DEF OneChain

\* With one thread every step goes on accounting for the calls.
LEMMA NextAccounts == OneChain /\ Accounts /\ [Next]_vars => Accounts'
<1> SUFFICES ASSUME OneChain, Accounts, [Next]_vars PROVE Accounts'
  OBVIOUS
<1>1. Typed'
  BY NextTyped DEF Accounts
<1>2. CASE Tick \/ UNCHANGED vars
  BY <1>1, <1>2, TickAccounts DEF Accounts
<1>3. ASSUME NEW c \in Chain, Start(c) \/ Thread(c) \/ Die(c) PROVE Accounts'
  <2>1. CASE Start(c) \/ Wake(c) \/ Die(c) \/ Rearm(c)
    BY <1>1, <2>1, ThreadAccounts DEF Accounts
  <2>2. CASE Select(c) \/ Call(c) \/ Store(c)
    BY <1>1, <2>2, SelectAccounts, CallAccounts, StoreAccounts DEF Accounts
  <2> QED BY <1>3, <2>1, <2>2 DEF Thread
<1>4. CASE \E j \in Job : SetActive(j)
  BY <1>1, <1>4, SetActiveAccounts DEF Accounts
<1>5. CASE Stop
  BY <1>1, <1>5, StopAccounts DEF Accounts
<1> QED BY <1>2, <1>3, <1>4, <1>5 DEF Next

\* Rows and lists account for the calls of every job, with one chain.
THEOREM ChainAccounts == ASSUME OneChain PROVE Spec => []Accounts
<1>1. Init => Accounts
  BY InitAccounts
<1>2. Accounts /\ [Next]_vars => Accounts'
  BY NextAccounts
<1> QED BY <1>1, <1>2, PTL DEF Spec

\* With one chain the calls committed and the calls left never exceed the
\* number asked for, and make it up when missed calls are repeated, whatever
\* raises, stops or is unticked between a call and the update of its row.
THEOREM CallsAccountedHolds == ASSUME OneChain PROVE Spec => []CallsAccounted
<1>1. Accounts => CallsAccounted
  BY DEF Accounts, Rows, Agrees, CallsAccounted
<1> QED BY <1>1, ChainAccounts, PTL

\* With one chain no call is committed before its period has begun.
THEOREM NoEarlyCallHolds == ASSUME OneChain PROVE Spec => []NoEarlyCall
<1>1. Accounts => NoEarlyCall
  BY DEF Accounts, Rows, Agrees, NoEarlyCall
<1> QED BY <1>1, ChainAccounts, PTL

\* With one chain the help text of numbercall holds: the function is called no
\* more than that number of times.  Two chains break it (run cron_twice).
THEOREM NumberOfCallsHolds == ASSUME OneChain PROVE Spec => []NumberOfCalls
<1>1. ASSUME Accounts PROVE NumberOfCalls
  <2> SUFFICES ASSUME NEW j \in Job, Calls[j] > 0 PROVE ran[j] <= Calls[j]
    BY DEF NumberOfCalls
  <2>1. ran[j] \in Nat /\ row[j].num \in 0 .. Calls[j] /\ Calls[j] \in Int
    <3>1. ran[j] \in Nat /\ row[j].num \in Left(j) /\ Calls[j] \in Int
      BY <1>1, CronAssumption DEF Accounts, Typed, TypeOK
    <3> QED BY <3>1 DEF Left
  <2>2. ran[j] + row[j].num <= Calls[j]
    BY <1>1 DEF Accounts, Rows, Agrees
  <2> QED BY <2>1, <2>2
<1> QED BY <1>1, ChainAccounts, PTL
===============================================================================
