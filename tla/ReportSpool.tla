----------------------------- MODULE ReportSpool -----------------------------
(***************************************************************************)
(* The report spool (bin/service/web_services.py, report_spool): report    *)
(* gives a number to a report and starts a thread that makes it,           *)
(* report_get is polled until the report is there, and takes it away.      *)
(* Every call runs in a thread of its own, and so does every report; they  *)
(* share the counter, which has a semaphore, and the dictionary _reports,  *)
(* which has none: a thread may be put aside between any two statements.   *)
(***************************************************************************)
EXTENDS Integers

CONSTANTS
    Client,     \* the clients; each makes one call at a time
    User,       \* their users
    UserOf,     \* who logs in from a client
    None,       \* nobody holds the semaphore
    MaxReports  \* bound: the reports that are asked for

ASSUME SpoolAssumption ==
    /\ UserOf \in [Client -> User] /\ None \notin Client
    /\ MaxReports \in Nat

VARIABLES
    id,         \* the counter
    protect,    \* the client whose call is inside id_protect
    keys,       \* the reports that are in the dictionary
    reports,    \* what the dictionary holds, or last held, for a report
    call,       \* the calls of the clients
    worker,     \* the threads that make the reports
    taken       \* how often a report has been handed out, and is a history

vars == <<id, protect, keys, reports, call, worker, taken>>

Report == 1 .. MaxReports

\* What a call of report or report_get is at: `tmp` is the counter it has
\* read, `rid` its report, `got` what it has read of it, and `back` where it
\* goes when the report is not there yet: a client that asked for a report
\* polls until it gets it, another polls once.
Steps == {"idle", "enter", "read", "write", "mine", "leave", "store", "start",
          "wait", "own", "fetch", "take"}
Call == [pc : Steps, tmp : 0 .. MaxReports, rid : 0 .. MaxReports,
         got : SUBSET {"result", "format"}, back : {"idle", "wait"}]

\* A report of the dictionary: whose it is, and which keys are set.
Entry == [uid : User, has : SUBSET {"result", "format"}, state : BOOLEAN]

TypeOK ==
    /\ id \in 0 .. MaxReports /\ protect \in Client \cup {None}
    /\ keys \subseteq Report /\ reports \in [Report -> Entry]
    /\ call \in [Client -> Call]
    /\ worker \in [Report -> {"none", "works", "made", "result", "format", "done", "dead"}]
    /\ taken \in [Report -> Nat]

At(c, pc) == call[c].pc = pc
Go(c, m) == call' = [call EXCEPT ![c] = m]
Goto(c, pc) == Go(c, [call[c] EXCEPT !.pc = pc])
Same == UNCHANGED <<reports, worker, taken>>

-----------------------------------------------------------------------------
(* report                                                                  *)

\* A client asks for a report.
Ask(c) ==
    /\ At(c, "idle") /\ id < MaxReports
    /\ Goto(c, "enter")
    /\ UNCHANGED <<id, protect, keys>> /\ Same

\* Mutant: the counter without its semaphore.
AcquireNothing(c) ==
    /\ At(c, "enter")
    /\ Goto(c, "read")
    /\ UNCHANGED <<id, protect, keys>> /\ Same

\* self.id_protect.acquire()
Acquire(c) ==
    /\ At(c, "enter") /\ protect = None
    /\ protect' = c
    /\ Goto(c, "read")
    /\ UNCHANGED <<id, keys>> /\ Same

\* self.id += 1 reads the counter; the bound gives up a report too many.
ReadId(c) ==
    /\ At(c, "read") /\ id < MaxReports
    /\ Go(c, [call[c] EXCEPT !.pc = "write", !.tmp = id])
    /\ UNCHANGED <<id, protect, keys>> /\ Same

TooMany(c) ==
    /\ At(c, "read") /\ id = MaxReports
    /\ protect' = None
    /\ Goto(c, "idle")
    /\ UNCHANGED <<id, keys>> /\ Same

\* self.id += 1 writes it
WriteId(c) ==
    /\ At(c, "write")
    /\ id' = call[c].tmp + 1
    /\ Goto(c, "mine")
    /\ UNCHANGED <<protect, keys>> /\ Same

\* Mutant: the number after the counter.
MyIdNext(c) ==
    /\ At(c, "mine")
    /\ Go(c, [call[c] EXCEPT !.pc = "leave", !.rid = id + 1])
    /\ UNCHANGED <<id, protect, keys>> /\ Same

\* id = self.id
MyId(c) ==
    /\ At(c, "mine")
    /\ Go(c, [call[c] EXCEPT !.pc = "leave", !.rid = id])
    /\ UNCHANGED <<id, protect, keys>> /\ Same

\* self.id_protect.release()
Release(c) ==
    /\ At(c, "leave")
    /\ protect' = None
    /\ Goto(c, "store")
    /\ UNCHANGED <<id, keys>> /\ Same

\* self._reports[id] = {'uid': uid, 'result': False, 'state': False}
Store(c) ==
    /\ At(c, "store")
    /\ keys' = keys \cup {call[c].rid}
    /\ reports' = [reports EXCEPT ![call[c].rid] =
                     [uid |-> UserOf[c], has |-> {}, state |-> FALSE]]
    /\ Goto(c, "start")
    /\ UNCHANGED <<id, protect, worker, taken>>

\* thread.start_new_thread(go, ...); return id
Start(c) ==
    /\ At(c, "start")
    /\ worker' = [worker EXCEPT ![call[c].rid] = "works"]
    /\ Goto(c, "wait")
    /\ UNCHANGED <<id, protect, keys, reports, taken>>

-----------------------------------------------------------------------------
(* go: the thread of a report                                              *)

Works(r, from, to) ==
    /\ worker[r] = from
    /\ worker' = [worker EXCEPT ![r] = to]
    /\ UNCHANGED <<id, protect, keys, call, taken>>

\* (result, format) = obj.create(...), which may raise; cr.close()
Make(r) == Works(r, "works", "made") /\ UNCHANGED reports
Raise(r) == Works(r, "works", "dead") /\ UNCHANGED reports

\* Mutant: the state is set with the result.
SetResultAndState(r) ==
    /\ Works(r, "made", "result")
    /\ reports' = [reports EXCEPT ![r].has = @ \cup {"result"}, ![r].state = TRUE]

\* self._reports[id]['result'] = result
SetResult(r) ==
    /\ Works(r, "made", "result")
    /\ reports' = [reports EXCEPT ![r].has = @ \cup {"result"}]

\* self._reports[id]['format'] = format
SetFormat(r) ==
    /\ Works(r, "result", "format")
    /\ reports' = [reports EXCEPT ![r].has = @ \cup {"format"}]

\* Mutant: the state is forgotten.
SetNoState(r) == Works(r, "format", "done") /\ UNCHANGED reports

\* self._reports[id]['state'] = True
SetState(r) ==
    /\ Works(r, "format", "done")
    /\ reports' = [reports EXCEPT ![r].state = TRUE]

-----------------------------------------------------------------------------
(* report_get                                                              *)

\* A client polls its own report, or another that has a number.
Polling(c, r) == \/ At(c, "wait") /\ r = call[c].rid
                 \/ At(c, "idle") /\ r \in 1 .. id

\* if report_id in self._reports
Seek(c, r) ==
    /\ Polling(c, r) /\ r \in keys
    /\ Go(c, [call[c] EXCEPT !.pc = "own", !.rid = r, !.back = call[c].pc])
    /\ UNCHANGED <<id, protect, keys>> /\ Same

\* raise Exception, 'ReportNotFound': the client stops asking; an idle one
\* may ask for any number.
NotFound(c) ==
    /\ At(c, "wait") => call[c].rid \notin keys
    /\ call[c].pc \in {"idle", "wait"}
    /\ Goto(c, "idle")
    /\ UNCHANGED <<id, protect, keys>> /\ Same

\* self._reports[report_id]['uid'] == uid
Own(c) ==
    /\ At(c, "own") /\ call[c].rid \in keys
    /\ Goto(c, IF reports[call[c].rid].uid = UserOf[c] THEN "fetch" ELSE "idle")
    /\ UNCHANGED <<id, protect, keys>> /\ Same

\* Mutant: the entry of a report that is not there is dropped.
NotYetDropped(c) ==
    /\ At(c, "fetch") /\ call[c].rid \in keys /\ ~ reports[call[c].rid].state
    /\ Goto(c, call[c].back)
    /\ keys' = keys \ {call[c].rid}
    /\ UNCHANGED <<id, protect>> /\ Same

\* result = self._reports[report_id]; what is not there is polled again.
NotYet(c) ==
    /\ At(c, "fetch") /\ call[c].rid \in keys /\ ~ reports[call[c].rid].state
    /\ Goto(c, call[c].back)
    /\ UNCHANGED <<id, protect, keys>> /\ Same

Fetch(c) ==
    /\ At(c, "fetch") /\ call[c].rid \in keys /\ reports[call[c].rid].state
    /\ Go(c, [call[c] EXCEPT !.pc = "take", !.got = reports[call[c].rid].has])
    /\ UNCHANGED <<id, protect, keys>> /\ Same

HandOut(c) ==
    /\ Goto(c, "idle")
    /\ taken' = [taken EXCEPT ![call[c].rid] = @ + 1]
    /\ UNCHANGED <<id, protect, reports, worker>>

\* Mutant: the entry is removed if it is there.
TakeAnyway(c) ==
    /\ At(c, "take")
    /\ keys' = keys \ {call[c].rid}
    /\ HandOut(c)

\* del self._reports[report_id]; return res
Take(c) ==
    /\ At(c, "take") /\ call[c].rid \in keys
    /\ keys' = keys \ {call[c].rid}
    /\ HandOut(c)

\* A KeyError: another call took the report since the last statement.
Missed(c) ==
    /\ call[c].pc \in {"own", "fetch", "take"} /\ call[c].rid \notin keys
    /\ Goto(c, "idle")
    /\ UNCHANGED <<id, protect, keys>> /\ Same

-----------------------------------------------------------------------------
Init ==
    /\ id = 0 /\ protect = None /\ keys = {}
    /\ reports \in [Report -> {[uid |-> u, has |-> {}, state |-> FALSE] : u \in User}]
    /\ \A r, s \in Report : reports[r] = reports[s]
    /\ call = [c \in Client |->
                [pc |-> "idle", tmp |-> 0, rid |-> 0, got |-> {}, back |-> "idle"]]
    /\ worker = [r \in Report |-> "none"]
    /\ taken = [r \in Report |-> 0]

Asks(c) == \/ Acquire(c) \/ ReadId(c) \/ TooMany(c) \/ WriteId(c) \/ MyId(c)
           \/ Release(c) \/ Store(c) \/ Start(c)
Polls(c) == Own(c) \/ NotYet(c) \/ Fetch(c) \/ Take(c) \/ Missed(c) \/ NotFound(c)
Makes(r) == Make(r) \/ Raise(r) \/ SetResult(r) \/ SetFormat(r) \/ SetState(r)

Next ==
    \/ \E c \in Client : Ask(c) \/ Asks(c) \/ Polls(c) \/ \E r \in Report : Seek(c, r)
    \/ \E r \in Report : Makes(r)

Spec == Init /\ [][Next]_vars

\* Threads run on; a client that was given a number polls until it gets the
\* report or an error.
FairSpec ==
    /\ Spec
    /\ \A c \in Client :
        /\ WF_vars(Asks(c)) /\ WF_vars(Polls(c))
        /\ WF_vars(At(c, "wait") /\ \E r \in Report : Seek(c, r))
    /\ \A r \in Report : WF_vars(Makes(r))

-----------------------------------------------------------------------------
\* The calls that have a report of their own: from the number on until it
\* is taken or lost.
Owns(c) == \/ call[c].pc \in {"leave", "store", "start", "wait"}
           \/ call[c].pc \in {"own", "fetch", "take"} /\ call[c].back = "wait"

\* No two calls of report are given one number, and the entry a client polls
\* is the one its own user asked for: the semaphore around the counter.
OwnReport ==
    /\ \A c, d \in Client : Owns(c) /\ Owns(d) /\ c # d => call[c].rid # call[d].rid
    /\ \A c \in Client : At(c, "wait") /\ call[c].rid \in keys
          => reports[call[c].rid].uid = UserOf[c]

\* A report is handed out once at most, however many calls of report_get
\* find it in the dictionary at the same time.
TakenOnce == \A r \in Report : taken[r] <= 1

\* What is handed out is a whole report: the thread of the report sets the
\* state last, so a call that sees it sees the rest too.
WholeReport == \A c \in Client : At(c, "take") => call[c].got = {"result", "format"}

\* The thread of a report finds its entry whenever it sets a key of it:
\* report_get deletes no entry before the thread is done with it.
WorkerFindsEntry ==
    \A r \in Report : worker[r] \in {"works", "made", "result", "format"} => r \in keys

\* A report that is made is taken away, so the dictionary does not grow.
TakenInTheEnd == \A r \in Report : worker[r] = "done" ~> r \notin keys
=============================================================================
