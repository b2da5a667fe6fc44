-------------------------- MODULE ReportSpoolProofs --------------------------
(***************************************************************************)
(* The safety of the report spool, for any number of clients, users and    *)
(* reports.  The invariant follows a number from the counter to the        *)
(* dictionary: only the call inside the semaphore reads or moves the       *)
(* counter, so a number is nobody else's and names no entry until its call *)
(* stores one; and an entry whose state is set has no thread any more.     *)
(***************************************************************************)
EXTENDS ReportSpool, TLAPS

Inside(c) == call[c].pc \in {"read", "write", "mine", "leave"}
Polls3(c) == call[c].pc \in {"own", "fetch", "take"}
Both == {"result", "format"}

\* No entry, no thread and no past: the number of a report to come.
Unused(r) == r \notin keys /\ worker[r] = "none" /\ taken[r] = 0

\* The call inside the semaphore is the one that holds it.
Semaphore == \A c \in Client : Inside(c) <=> protect = c

\* The counter does not move under the call that reads it, and its new value
\* is nobody's.
Counter ==
    /\ \A c \in Client : At(c, "write") => call[c].tmp = id /\ id < MaxReports
    /\ \A c \in Client : At(c, "mine") => id > 0
    /\ \A c \in Client : Owns(c) \/ Polls3(c) => call[c].rid \in 1 .. id
    /\ \A c, d \in Client : At(c, "mine") /\ Owns(d) => call[d].rid # id
    /\ \A c, d \in Client : Owns(c) /\ Owns(d) /\ c # d => call[c].rid # call[d].rid

\* A number is unused until its call stores the entry.
Numbered ==
    /\ \A r \in Report : r > id => Unused(r)
    /\ \A c \in Client : At(c, "mine") => Unused(id)
    /\ \A c \in Client : call[c].pc \in {"leave", "store"} => Unused(call[c].rid)
    /\ \A c \in Client : At(c, "start") =>
         call[c].rid \in keys /\ worker[call[c].rid] = "none" /\ taken[call[c].rid] = 0

\* An entry stays until its thread is done, and is then whole.
Entries == \A r \in Report :
    /\ taken[r] \in {0, 1} /\ (r \in keys => taken[r] = 0)
    /\ worker[r] \in {"works", "made", "result", "format"} => r \in keys
    /\ worker[r] = "result" => "result" \in reports[r].has
    /\ worker[r] = "format" => reports[r].has = Both
    /\ reports[r].state => worker[r] = "done" /\ reports[r].has = Both

\* What the calls know of the entries.
Known == \A c \in Client :
    /\ At(c, "take") => call[c].got = Both /\ worker[call[c].rid] = "done"
    /\ Owns(c) /\ call[c].pc \notin {"leave", "store"} =>
         reports[call[c].rid].uid = UserOf[c]

SpoolInv == TypeOK /\ Semaphore /\ Counter /\ Numbered /\ Entries /\ Known

-----------------------------------------------------------------------------
\* Nothing has been asked for at first.
LEMMA InitInv == Init => SpoolInv
<1> USE SpoolAssumption
<1> SUFFICES ASSUME Init PROVE SpoolInv OBVIOUS
<1>1. TypeOK
  <2>1. reports \in [Report -> Entry]
    <3>1. \A u \in User : [uid |-> u, has |-> {}, state |-> FALSE] \in Entry
      BY DEF Entry
    <3> QED BY <3>1 DEF Init
  <2>2. call \in [Client -> Call]
    BY DEF Init, Call, Steps
  <2> QED BY <2>1, <2>2 DEF Init, TypeOK, Report
<1>2. Semaphore /\ Counter /\ Known
  BY DEF Init, Semaphore, Counter, Known, Inside, At, Owns, Polls3
<1>3. Numbered /\ Entries
  <2>1. \A r \in Report : reports[r].state = FALSE
    BY DEF Init
  <2> QED BY <2>1 DEF Init, Numbered, Entries, Unused, At
<1> QED BY <1>1, <1>2, <1>3 DEF SpoolInv

-----------------------------------------------------------------------------
\* The steps of report.
LEMMA AskInv ==
  ASSUME SpoolInv, NEW c \in Client, Ask(c)
  PROVE  SpoolInv'
<1> USE SpoolAssumption DEF SpoolInv, Ask, At, Go, Goto, Same, Report
<1>1. TypeOK'
  BY DEF TypeOK, Call, Steps, Entry, Counter
<1>2. Semaphore'
  BY DEF Semaphore, Inside, TypeOK, Call, Steps
<1>3. Counter'
  BY DEF Counter, Semaphore, Inside, Owns, Polls3, TypeOK, Call, Steps
<1>4. Numbered'
  BY DEF Numbered, Unused, Counter, Semaphore, Inside, Owns, Polls3, TypeOK, Call, Steps
<1>5. Entries'
  BY DEF Entries, Known, Numbered, Unused, Counter, Owns, Polls3, TypeOK, Call, Steps, Entry, Both
<1>6. Known'
  BY DEF Known, Entries, Numbered, Unused, Counter, Owns, Polls3, TypeOK, Call, Steps, Entry, Both
<1> QED BY <1>1, <1>2, <1>3, <1>4, <1>5, <1>6

\* Nobody is inside when the semaphore is free.
LEMMA AcquireInv ==
  ASSUME SpoolInv, NEW c \in Client, Acquire(c)
  PROVE  SpoolInv'
<1> USE SpoolAssumption DEF SpoolInv, Acquire, At, Go, Goto, Same, Report
<1>1. TypeOK'
  BY DEF TypeOK, Call, Steps, Entry, Counter
<1>2. Semaphore'
  BY DEF Semaphore, Inside, TypeOK, Call, Steps
<1>3. Counter'
  BY DEF Counter, Semaphore, Inside, Owns, Polls3, TypeOK, Call, Steps
<1>4. Numbered'
  BY DEF Numbered, Unused, Counter, Semaphore, Inside, Owns, Polls3, TypeOK, Call, Steps
<1>5. Entries'
  BY DEF Entries, Known, Numbered, Unused, Counter, Owns, Polls3, TypeOK, Call, Steps, Entry, Both
<1>6. Known'
  BY DEF Known, Entries, Numbered, Unused, Counter, Owns, Polls3, TypeOK, Call, Steps, Entry, Both
<1> QED BY <1>1, <1>2, <1>3, <1>4, <1>5, <1>6

\* The counter is read by the only call inside.
LEMMA ReadIdInv ==
  ASSUME SpoolInv, NEW c \in Client, ReadId(c)
  PROVE  SpoolInv'
<1> USE SpoolAssumption DEF SpoolInv, ReadId, At, Go, Goto, Same, Report
<1>1. TypeOK'
  BY DEF TypeOK, Call, Steps, Entry, Counter
<1>2. Semaphore'
  BY DEF Semaphore, Inside, TypeOK, Call, Steps
<1>3. Counter'
  BY DEF Counter, Semaphore, Inside, Owns, Polls3, TypeOK, Call, Steps
<1>4. Numbered'
  BY DEF Numbered, Unused, Counter, Semaphore, Inside, Owns, Polls3, TypeOK, Call, Steps
<1>5. Entries'
  BY DEF Entries, Known, Numbered, Unused, Counter, Owns, Polls3, TypeOK, Call, Steps, Entry, Both
<1>6. Known'
  BY DEF Known, Entries, Numbered, Unused, Counter, Owns, Polls3, TypeOK, Call, Steps, Entry, Both
<1> QED BY <1>1, <1>2, <1>3, <1>4, <1>5, <1>6

\* report refuses when the table is full.
LEMMA TooManyInv ==
  ASSUME SpoolInv, NEW c \in Client, TooMany(c)
  PROVE  SpoolInv'
<1> USE SpoolAssumption DEF SpoolInv, TooMany, At, Go, Goto, Same, Report
<1>1. TypeOK'
  BY DEF TypeOK, Call, Steps, Entry, Counter
<1>2. Semaphore'
  BY DEF Semaphore, Inside, TypeOK, Call, Steps
<1>3. Counter'
  BY DEF Counter, Semaphore, Inside, Owns, Polls3, TypeOK, Call, Steps
<1>4. Numbered'
  BY DEF Numbered, Unused, Counter, Semaphore, Inside, Owns, Polls3, TypeOK, Call, Steps
<1>5. Entries'
  BY DEF Entries, Known, Numbered, Unused, Counter, Owns, Polls3, TypeOK, Call, Steps, Entry, Both
<1>6. Known'
  BY DEF Known, Entries, Numbered, Unused, Counter, Owns, Polls3, TypeOK, Call, Steps, Entry, Both
<1> QED BY <1>1, <1>2, <1>3, <1>4, <1>5, <1>6

\* The new value of the counter is unused: all numbers are below it.
LEMMA WriteIdInv ==
  ASSUME SpoolInv, NEW c \in Client, WriteId(c)
  PROVE  SpoolInv'
<1> USE SpoolAssumption DEF SpoolInv, WriteId, At, Go, Goto, Same, Report
<1>1. TypeOK'
  <2>1. [call[c] EXCEPT !.pc = "mine"] \in Call
    BY DEF TypeOK, Call, Steps
  <2>2. call' \in [Client -> Call]
    BY <2>1 DEF TypeOK
  <2>3. id' \in 0 .. MaxReports
    BY DEF TypeOK, Counter
  <2> QED BY <2>2, <2>3 DEF TypeOK
<1>2. Semaphore'
  BY DEF Semaphore, Inside, TypeOK, Call, Steps
<1>3. Counter'
  BY DEF Counter, Semaphore, Inside, Owns, Polls3, TypeOK, Call, Steps
<1>4. Numbered'
  BY DEF Numbered, Unused, Counter, Semaphore, Inside, Owns, Polls3, TypeOK, Call, Steps
<1>5. Entries'
  BY DEF Entries, Known, Numbered, Unused, Counter, Owns, Polls3, TypeOK, Call, Steps, Entry, Both
<1>6. Known'
  BY DEF Known, Entries, Numbered, Unused, Counter, Owns, Polls3, TypeOK, Call, Steps, Entry, Both
<1> QED BY <1>1, <1>2, <1>3, <1>4, <1>5, <1>6

\* The number becomes its call's own.
LEMMA MyIdInv ==
  ASSUME SpoolInv, NEW c \in Client, MyId(c)
  PROVE  SpoolInv'
<1> USE SpoolAssumption DEF SpoolInv, MyId, At, Go, Goto, Same, Report
<1>1. TypeOK'
  BY DEF TypeOK, Call, Steps, Entry, Counter
<1>2. Semaphore'
  BY DEF Semaphore, Inside, TypeOK, Call, Steps
<1>3. Counter'
  BY DEF Counter, Semaphore, Inside, Owns, Polls3, TypeOK, Call, Steps
<1>4. Numbered'
  BY DEF Numbered, Unused, Counter, Semaphore, Inside, Owns, Polls3, TypeOK, Call, Steps
<1>5. Entries'
  BY DEF Entries, Known, Numbered, Unused, Counter, Owns, Polls3, TypeOK, Call, Steps, Entry, Both
<1>6. Known'
  BY DEF Known, Entries, Numbered, Unused, Counter, Owns, Polls3, TypeOK, Call, Steps, Entry, Both
<1> QED BY <1>1, <1>2, <1>3, <1>4, <1>5, <1>6

\* report releases the lock.
LEMMA ReleaseInv ==
  ASSUME SpoolInv, NEW c \in Client, Release(c)
  PROVE  SpoolInv'
<1> USE SpoolAssumption DEF SpoolInv, Release, At, Go, Goto, Same, Report
<1>1. TypeOK'
  BY DEF TypeOK, Call, Steps, Entry, Counter
<1>2. Semaphore'
  BY DEF Semaphore, Inside, TypeOK, Call, Steps
<1>3. Counter'
  BY DEF Counter, Semaphore, Inside, Owns, Polls3, TypeOK, Call, Steps
<1>4. Numbered'
  BY DEF Numbered, Unused, Counter, Semaphore, Inside, Owns, Polls3, TypeOK, Call, Steps
<1>5. Entries'
  BY DEF Entries, Known, Numbered, Unused, Counter, Owns, Polls3, TypeOK, Call, Steps, Entry, Both
<1>6. Known'
  BY DEF Known, Entries, Numbered, Unused, Counter, Owns, Polls3, TypeOK, Call, Steps, Entry, Both
<1> QED BY <1>1, <1>2, <1>3, <1>4, <1>5, <1>6

\* The entry is stored under an unused number.
LEMMA StoreInv ==
  ASSUME SpoolInv, NEW c \in Client, Store(c)
  PROVE  SpoolInv'
<1> USE SpoolAssumption DEF SpoolInv, Store, At, Go, Goto, Same, Report
<1>1. TypeOK'
  <2>1. call[c].rid \in Report
    BY DEF Counter, Owns, TypeOK
  <2>2. [call[c] EXCEPT !.pc = "start"] \in Call
    BY DEF TypeOK, Call, Steps
  <2>3. call' \in [Client -> Call]
    BY <2>2 DEF TypeOK
  <2>4. [uid |-> UserOf[c], has |-> {}, state |-> FALSE] \in Entry
    BY DEF Entry
  <2>5. reports' \in [Report -> Entry]
    BY <2>4 DEF TypeOK
  <2>6. keys' \subseteq Report
    BY <2>1 DEF TypeOK
  <2> QED BY <2>3, <2>5, <2>6 DEF TypeOK
<1>2. Semaphore'
  BY DEF Semaphore, Inside, TypeOK, Call, Steps
<1>3. Counter'
  BY DEF Counter, Semaphore, Inside, Owns, Polls3, TypeOK, Call, Steps
<1>4. Numbered'
  BY DEF Numbered, Unused, Counter, Semaphore, Inside, Owns, Polls3, TypeOK, Call, Steps
<1>5. Entries'
  BY DEF Entries, Known, Numbered, Unused, Counter, Owns, Polls3, TypeOK, Call, Steps, Entry, Both
<1>6. Known'
  BY DEF Known, Entries, Numbered, Unused, Counter, Owns, Polls3, TypeOK, Call, Steps, Entry, Both
<1> QED BY <1>1, <1>2, <1>3, <1>4, <1>5, <1>6

\* The thread starts when its entry is there.
LEMMA StartInv ==
  ASSUME SpoolInv, NEW c \in Client, Start(c)
  PROVE  SpoolInv'
<1> USE SpoolAssumption DEF SpoolInv, Start, At, Go, Goto, Same, Report
<1>1. TypeOK'
  BY DEF TypeOK, Call, Steps, Entry, Counter
<1>2. Semaphore'
  BY DEF Semaphore, Inside, TypeOK, Call, Steps
<1>3. Counter'
  BY DEF Counter, Semaphore, Inside, Owns, Polls3, TypeOK, Call, Steps
<1>4. Numbered'
  BY DEF Numbered, Unused, Counter, Semaphore, Inside, Owns, Polls3, TypeOK, Call, Steps
<1>5. Entries'
  BY DEF Entries, Known, Numbered, Unused, Counter, Owns, Polls3, TypeOK, Call, Steps, Entry, Both
<1>6. Known'
  BY DEF Known, Entries, Numbered, Unused, Counter, Owns, Polls3, TypeOK, Call, Steps, Entry, Both
<1> QED BY <1>1, <1>2, <1>3, <1>4, <1>5, <1>6

-----------------------------------------------------------------------------
\* The steps of report_get.
LEMMA OwnInv ==
  ASSUME SpoolInv, NEW c \in Client, Own(c)
  PROVE  SpoolInv'
<1> USE SpoolAssumption DEF SpoolInv, Own, At, Go, Goto, Same, Report
<1>1. TypeOK'
  <2>1. [call[c] EXCEPT !.pc = IF reports[call[c].rid].uid = UserOf[c] THEN "fetch" ELSE "idle"] \in Call
    BY DEF TypeOK, Call, Steps
  <2>2. call' \in [Client -> Call]
    BY <2>1 DEF TypeOK
  <2> QED BY <2>2 DEF TypeOK
<1>2. Semaphore'
  BY DEF Semaphore, Inside, TypeOK, Call, Steps
<1>3. Counter'
  BY DEF Counter, Semaphore, Inside, Owns, Polls3, TypeOK, Call, Steps
<1>4. Numbered'
  BY DEF Numbered, Unused, Counter, Semaphore, Inside, Owns, Polls3, TypeOK, Call, Steps
<1>5. Entries'
  BY DEF Entries, Known, Numbered, Unused, Counter, Owns, Polls3, TypeOK, Call, Steps, Entry, Both
<1>6. Known'
  BY DEF Known, Entries, Numbered, Unused, Counter, Owns, Polls3, TypeOK, Call, Steps, Entry, Both
<1> QED BY <1>1, <1>2, <1>3, <1>4, <1>5, <1>6

\* report_get finds a report that is not there yet.
LEMMA NotYetInv ==
  ASSUME SpoolInv, NEW c \in Client, NotYet(c)
  PROVE  SpoolInv'
<1> USE SpoolAssumption DEF SpoolInv, NotYet, At, Go, Goto, Same, Report
<1>1. TypeOK'
  BY DEF TypeOK, Call, Steps, Entry, Counter
<1>2. Semaphore'
  BY DEF Semaphore, Inside, TypeOK, Call, Steps
<1>3. Counter'
  BY DEF Counter, Semaphore, Inside, Owns, Polls3, TypeOK, Call, Steps
<1>4. Numbered'
  BY DEF Numbered, Unused, Counter, Semaphore, Inside, Owns, Polls3, TypeOK, Call, Steps
<1>5. Entries'
  BY DEF Entries, Known, Numbered, Unused, Counter, Owns, Polls3, TypeOK, Call, Steps, Entry, Both
<1>6. Known'
  BY DEF Known, Entries, Numbered, Unused, Counter, Owns, Polls3, TypeOK, Call, Steps, Entry, Both
<1> QED BY <1>1, <1>2, <1>3, <1>4, <1>5, <1>6

\* A state that is set tells that the report is whole.
LEMMA FetchInv ==
  ASSUME SpoolInv, NEW c \in Client, Fetch(c)
  PROVE  SpoolInv'
<1> USE SpoolAssumption DEF SpoolInv, Fetch, At, Go, Goto, Same, Report
<1>1. TypeOK'
  BY DEF TypeOK, Call, Steps, Entry, Counter
<1>2. Semaphore'
  BY DEF Semaphore, Inside, TypeOK, Call, Steps
<1>3. Counter'
  BY DEF Counter, Semaphore, Inside, Owns, Polls3, TypeOK, Call, Steps
<1>4. Numbered'
  BY DEF Numbered, Unused, Counter, Semaphore, Inside, Owns, Polls3, TypeOK, Call, Steps
<1>5. Entries'
  BY DEF Entries, Known, Numbered, Unused, Counter, Owns, Polls3, TypeOK, Call, Steps, Entry, Both
<1>6. Known'
  BY DEF Known, Entries, Numbered, Unused, Counter, Owns, Polls3, TypeOK, Call, Steps, Entry, Both
<1> QED BY <1>1, <1>2, <1>3, <1>4, <1>5, <1>6

\* The report that is taken has no thread any more, so nobody misses its entry.
LEMMA TakeInv ==
  ASSUME SpoolInv, NEW c \in Client, Take(c)
  PROVE  SpoolInv'
<1> USE SpoolAssumption DEF SpoolInv, Take, HandOut, At, Go, Goto, Same, Report
<1>1. TypeOK'
  <2>1. [call[c] EXCEPT !.pc = "idle"] \in Call
    BY DEF TypeOK, Call, Steps
  <2>2. call' \in [Client -> Call]
    BY <2>1 DEF TypeOK
  <2>3. taken' \in [Report -> Nat]
    BY DEF TypeOK
  <2> QED BY <2>2, <2>3 DEF TypeOK
<1>2. Semaphore'
  BY DEF Semaphore, Inside, TypeOK, Call, Steps
<1>3. Counter'
  BY DEF Counter, Semaphore, Inside, Owns, Polls3, TypeOK, Call, Steps
<1>4. Numbered'
  <2>1. call[c].rid \in 1 .. id /\ worker[call[c].rid] = "done"
    BY DEF Known, Counter, Polls3
  <2>2. \A r \in Report : Unused(r) => r # call[c].rid /\ Unused(r)'
    BY <2>1 DEF Unused, TypeOK
  <2>3. \A d \in Client : call'[d].pc # "idle" => call'[d] = call[d]
    BY DEF TypeOK, Call
  <2>4. \A d \in Client : At(d, "mine") \/ call[d].pc \in {"leave", "store", "start"} => call[d].rid \in Report \/ At(d, "mine")
    BY DEF Owns, Counter, TypeOK
  <2>5. id \in Report
    BY <2>1 DEF TypeOK
  <2>6. \A d \in Client : At(d, "start") => call[d].rid # call[c].rid
    BY <2>1 DEF Numbered
  <2> QED BY <2>1, <2>2, <2>3, <2>4, <2>5, <2>6
      DEF Numbered, Unused, Counter, Semaphore, Inside, Owns, Polls3, TypeOK, Call, Steps
<1>5. Entries'
  BY DEF Entries, Known, Numbered, Unused, Counter, Owns, Polls3, TypeOK, Call, Steps, Entry, Both
<1>6. Known'
  BY DEF Known, Entries, Numbered, Unused, Counter, Owns, Polls3, TypeOK, Call, Steps, Entry, Both
<1> QED BY <1>1, <1>2, <1>3, <1>4, <1>5, <1>6

\* report_get misses its report.
LEMMA MissedInv ==
  ASSUME SpoolInv, NEW c \in Client, Missed(c)
  PROVE  SpoolInv'
<1> USE SpoolAssumption DEF SpoolInv, Missed, At, Go, Goto, Same, Report
<1>1. TypeOK'
  <2>1. [call[c] EXCEPT !.pc = "idle"] \in Call
    BY DEF TypeOK, Call, Steps
  <2>2. call' \in [Client -> Call]
    BY <2>1 DEF TypeOK
  <2> QED BY <2>2 DEF TypeOK
<1>2. Semaphore'
  BY DEF Semaphore, Inside, TypeOK, Call, Steps
<1>3. Counter'
  BY DEF Counter, Semaphore, Inside, Owns, Polls3, TypeOK, Call, Steps
<1>4. Numbered'
  BY DEF Numbered, Unused, Counter, Semaphore, Inside, Owns, Polls3, TypeOK, Call, Steps
<1>5. Entries'
  BY DEF Entries, Known, Numbered, Unused, Counter, Owns, Polls3, TypeOK, Call, Steps, Entry, Both
<1>6. Known'
  BY DEF Known, Entries, Numbered, Unused, Counter, Owns, Polls3, TypeOK, Call, Steps, Entry, Both
<1> QED BY <1>1, <1>2, <1>3, <1>4, <1>5, <1>6

\* report_get of an unknown report.
LEMMA NotFoundInv ==
  ASSUME SpoolInv, NEW c \in Client, NotFound(c)
  PROVE  SpoolInv'
<1> USE SpoolAssumption DEF SpoolInv, NotFound, At, Go, Goto, Same, Report
<1>1. TypeOK'
  BY DEF TypeOK, Call, Steps, Entry, Counter
<1>2. Semaphore'
  BY DEF Semaphore, Inside, TypeOK, Call, Steps
<1>3. Counter'
  BY DEF Counter, Semaphore, Inside, Owns, Polls3, TypeOK, Call, Steps
<1>4. Numbered'
  BY DEF Numbered, Unused, Counter, Semaphore, Inside, Owns, Polls3, TypeOK, Call, Steps
<1>5. Entries'
  BY DEF Entries, Known, Numbered, Unused, Counter, Owns, Polls3, TypeOK, Call, Steps, Entry, Both
<1>6. Known'
  BY DEF Known, Entries, Numbered, Unused, Counter, Owns, Polls3, TypeOK, Call, Steps, Entry, Both
<1> QED BY <1>1, <1>2, <1>3, <1>4, <1>5, <1>6

\* report_get looks for its report.
LEMMA SeekInv ==
  ASSUME SpoolInv, NEW c \in Client, NEW r \in Report, Seek(c, r)
  PROVE  SpoolInv'
<1> USE SpoolAssumption DEF SpoolInv, Seek, At, Go, Goto, Same, Report
<1>1. TypeOK'
  <2>1. [call[c] EXCEPT !.pc = "own", !.rid = r, !.back = call[c].pc] \in Call
    <3>1. call[c] \in Call /\ call[c].pc \in {"idle", "wait"} /\ r \in 0 .. MaxReports
      BY DEF TypeOK, Polling
    <3> QED BY <3>1 DEF Call, Steps
  <2>2. call' \in [Client -> Call]
    BY <2>1 DEF TypeOK
  <2> QED BY <2>2 DEF TypeOK, Polling
<1>2. Semaphore'
  BY DEF Semaphore, Inside, TypeOK, Call, Steps, Polling
<1>3. Counter'
  BY DEF Counter, Semaphore, Inside, Owns, Polls3, TypeOK, Call, Steps, Polling
<1>4. Numbered'
  BY DEF Numbered, Unused, Counter, Semaphore, Inside, Owns, Polls3, TypeOK, Call, Steps, Polling
<1>5. Entries'
  BY DEF Entries, Known, Numbered, Unused, Counter, Owns, Polls3, TypeOK, Call, Steps, Entry, Both, Polling
<1>6. Known'
  BY DEF Known, Entries, Numbered, Unused, Counter, Owns, Polls3, TypeOK, Call, Steps, Entry, Both, Polling
<1> QED BY <1>1, <1>2, <1>3, <1>4, <1>5, <1>6

-----------------------------------------------------------------------------
\* The steps of the thread of a report.
LEMMA MakeInv ==
  ASSUME SpoolInv, NEW r \in Report, Make(r)
  PROVE  SpoolInv'
<1> USE SpoolAssumption DEF SpoolInv, Make, Works, At, Report
<1>1. TypeOK'
  BY DEF TypeOK, Call, Steps, Entry, Counter
<1>2. Semaphore'
  BY DEF Semaphore, Inside, TypeOK, Call, Steps
<1>3. Counter'
  BY DEF Counter, Semaphore, Inside, Owns, Polls3, TypeOK, Call, Steps
<1>4. Numbered'
  BY DEF Numbered, Unused, Counter, Semaphore, Inside, Owns, Polls3, TypeOK, Call, Steps
<1>5. Entries'
  BY DEF Entries, Known, Numbered, Unused, Counter, Owns, Polls3, TypeOK, Call, Steps, Entry, Both
<1>6. Known'
  BY DEF Known, Entries, Numbered, Unused, Counter, Owns, Polls3, TypeOK, Call, Steps, Entry, Both
<1> QED BY <1>1, <1>2, <1>3, <1>4, <1>5, <1>6

\* report_get raises the exception of the thread.
LEMMA RaiseInv ==
  ASSUME SpoolInv, NEW r \in Report, Raise(r)
  PROVE  SpoolInv'
<1> USE SpoolAssumption DEF SpoolInv, Raise, Works, At, Report
<1>1. TypeOK'
  BY DEF TypeOK, Call, Steps, Entry, Counter
<1>2. Semaphore'
  BY DEF Semaphore, Inside, TypeOK, Call, Steps
<1>3. Counter'
  BY DEF Counter, Semaphore, Inside, Owns, Polls3, TypeOK, Call, Steps
<1>4. Numbered'
  BY DEF Numbered, Unused, Counter, Semaphore, Inside, Owns, Polls3, TypeOK, Call, Steps
<1>5. Entries'
  BY DEF Entries, Known, Numbered, Unused, Counter, Owns, Polls3, TypeOK, Call, Steps, Entry, Both
<1>6. Known'
  BY DEF Known, Entries, Numbered, Unused, Counter, Owns, Polls3, TypeOK, Call, Steps, Entry, Both
<1> QED BY <1>1, <1>2, <1>3, <1>4, <1>5, <1>6

\* The thread stores the result.
LEMMA SetResultInv ==
  ASSUME SpoolInv, NEW r \in Report, SetResult(r)
  PROVE  SpoolInv'
<1> USE SpoolAssumption DEF SpoolInv, SetResult, Works, At, Report
<1>1. TypeOK'
  BY DEF TypeOK, Call, Steps, Entry, Counter
<1>2. Semaphore'
  BY DEF Semaphore, Inside, TypeOK, Call, Steps
<1>3. Counter'
  BY DEF Counter, Semaphore, Inside, Owns, Polls3, TypeOK, Call, Steps
<1>4. Numbered'
  BY DEF Numbered, Unused, Counter, Semaphore, Inside, Owns, Polls3, TypeOK, Call, Steps
<1>5. Entries'
  BY DEF Entries, Known, Numbered, Unused, Counter, Owns, Polls3, TypeOK, Call, Steps, Entry, Both
<1>6. Known'
  BY DEF Known, Entries, Numbered, Unused, Counter, Owns, Polls3, TypeOK, Call, Steps, Entry, Both
<1> QED BY <1>1, <1>2, <1>3, <1>4, <1>5, <1>6

\* The thread stores the format.
LEMMA SetFormatInv ==
  ASSUME SpoolInv, NEW r \in Report, SetFormat(r)
  PROVE  SpoolInv'
<1> USE SpoolAssumption DEF SpoolInv, SetFormat, Works, At, Report
<1>1. TypeOK'
  BY DEF TypeOK, Call, Steps, Entry, Counter
<1>2. Semaphore'
  BY DEF Semaphore, Inside, TypeOK, Call, Steps
<1>3. Counter'
  BY DEF Counter, Semaphore, Inside, Owns, Polls3, TypeOK, Call, Steps
<1>4. Numbered'
  BY DEF Numbered, Unused, Counter, Semaphore, Inside, Owns, Polls3, TypeOK, Call, Steps
<1>5. Entries'
  BY DEF Entries, Known, Numbered, Unused, Counter, Owns, Polls3, TypeOK, Call, Steps, Entry, Both
<1>6. Known'
  BY DEF Known, Entries, Numbered, Unused, Counter, Owns, Polls3, TypeOK, Call, Steps, Entry, Both
<1> QED BY <1>1, <1>2, <1>3, <1>4, <1>5, <1>6

\* The state is set on a whole entry.
LEMMA SetStateInv ==
  ASSUME SpoolInv, NEW r \in Report, SetState(r)
  PROVE  SpoolInv'
<1> USE SpoolAssumption DEF SpoolInv, SetState, Works, At, Report
<1>1. TypeOK'
  <2>1. [reports[r] EXCEPT !.state = TRUE] \in Entry
    BY DEF TypeOK, Entry
  <2>2. reports' \in [Report -> Entry]
    BY <2>1 DEF TypeOK
  <2> QED BY <2>2 DEF TypeOK
<1>2. Semaphore'
  BY DEF Semaphore, Inside, TypeOK, Call, Steps
<1>3. Counter'
  BY DEF Counter, Semaphore, Inside, Owns, Polls3, TypeOK, Call, Steps
<1>4. Numbered'
  BY DEF Numbered, Unused, Counter, Semaphore, Inside, Owns, Polls3, TypeOK, Call, Steps
<1>5. Entries'
  BY DEF Entries, Known, Numbered, Unused, Counter, Owns, Polls3, TypeOK, Call, Steps, Entry, Both
<1>6. Known'
  BY DEF Known, Entries, Numbered, Unused, Counter, Owns, Polls3, TypeOK, Call, Steps, Entry, Both
<1> QED BY <1>1, <1>2, <1>3, <1>4, <1>5, <1>6

-----------------------------------------------------------------------------
\* Every step keeps the invariant.
LEMMA StepInv ==
  ASSUME SpoolInv, [Next]_vars
  PROVE  SpoolInv'
<1>1. CASE UNCHANGED vars
  <2>1. TypeOK' /\ Semaphore' /\ Counter'
    BY <1>1 DEF SpoolInv, vars, TypeOK, Semaphore, Inside, Counter, Owns, Polls3, At
  <2>2. Numbered' /\ Entries' /\ Known'
    BY <1>1 DEF SpoolInv, vars, Numbered, Unused, Entries, Known, Owns, At
  <2> QED BY <2>1, <2>2 DEF SpoolInv
<1>2. ASSUME NEW c \in Client, Ask(c) \/ Asks(c) \/ Polls(c)
      PROVE  SpoolInv'
  BY <1>2, AskInv, AcquireInv, ReadIdInv, TooManyInv, WriteIdInv, MyIdInv, ReleaseInv,
     StoreInv, StartInv, OwnInv, NotYetInv, FetchInv, TakeInv, MissedInv, NotFoundInv
     DEF Asks, Polls
<1>3. ASSUME NEW c \in Client, NEW r \in Report, Seek(c, r)
      PROVE  SpoolInv'
  BY <1>3, SeekInv
<1>4. ASSUME NEW r \in Report, Makes(r)
      PROVE  SpoolInv'
  BY <1>4, MakeInv, RaiseInv, SetResultInv, SetFormatInv, SetStateInv DEF Makes
<1> QED BY <1>1, <1>2, <1>3, <1>4 DEF Next

\* So every reachable state satisfies it.
LEMMA SpoolInvariant == Spec => []SpoolInv
<1> QED BY InitInv, StepInv, PTL DEF Spec

-----------------------------------------------------------------------------
\* The counter, the entries and the local variables of the calls keep their
\* types: the counter stays within the number of reports asked for.
THEOREM TypeCorrect == Spec => []TypeOK
<1>1. SpoolInv => TypeOK
  BY DEF SpoolInv
<1> QED BY <1>1, SpoolInvariant, PTL

\* No two calls of report share a number, and what a client polls is its own
\* user's report: the semaphore around the counter.
THEOREM OwnReportHolds == Spec => []OwnReport
<1>1. SpoolInv => OwnReport
  BY DEF SpoolInv, Counter, Known, OwnReport, Owns, At
<1> QED BY <1>1, SpoolInvariant, PTL

\* However many calls of report_get find a report, one hands it out.
THEOREM TakenOnceHolds == Spec => []TakenOnce
<1>1. SpoolInv => TakenOnce
  BY DEF SpoolInv, Entries, TakenOnce
<1> QED BY <1>1, SpoolInvariant, PTL

\* A report is whole when it is handed out: its state is set last.
THEOREM WholeReportHolds == Spec => []WholeReport
<1>1. SpoolInv => WholeReport
  BY DEF SpoolInv, Known, WholeReport, Both
<1> QED BY <1>1, SpoolInvariant, PTL

\* report_get deletes no entry that a thread has yet to fill.
THEOREM WorkerFindsEntryHolds == Spec => []WorkerFindsEntry
<1>1. SpoolInv => WorkerFindsEntry
  BY DEF SpoolInv, Entries, WorkerFindsEntry
<1> QED BY <1>1, SpoolInvariant, PTL
=============================================================================
