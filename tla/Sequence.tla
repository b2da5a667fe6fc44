------------------------------ MODULE Sequence ------------------------------
(***************************************************************************)
(* Requests that number documents from one sequence                        *)
(* (bin/addons/base/ir/ir_sequence.py, get_id), each in the transaction    *)
(* that osv_pool.execute (bin/osv/osv.py) opens, commits or rolls back,    *)
(* and closes.  A request may read or write other tables before and after; *)
(* one record stands for all that several requests may write.              *)
(*                                                                         *)
(* Of the database only what the code relies on is modelled: psycopg 1     *)
(* opens transactions SERIALIZABLE, which PostgreSQL 8 implements by a     *)
(* snapshot taken at the first statement other than LOCK; the update of a  *)
(* row that another transaction has changed since fails; LOCK TABLE waits  *)
(* for the transactions that hold the table, and so does the update of a   *)
(* row for those that hold the row; one of two that wait for each other is *)
(* aborted.                                                                *)
(***************************************************************************)
EXTENDS Integers, Sequences

CONSTANTS
    Request,    \* the requests that may run at a time
    Start,      \* number_next at first
    Inc,        \* number_increment
    None,       \* nobody
    MaxGot,     \* bound: the numbers one request takes
    MaxDocs     \* bound: the documents that are numbered

ASSUME SequenceAssumption ==
    /\ Start \in Int /\ Inc \in Int /\ None \notin Request
    /\ MaxGot \in Nat /\ MaxDocs \in Nat

VARIABLES
    next,       \* ir_sequence.number_next, committed
    docs,       \* the numbers of the committed documents, in order of commit
    table,      \* the request that holds the lock on ir_sequence
    record,     \* the request that holds the lock on the shared record
    tx          \* the requests and their transactions

vars == <<next, docs, table, record, tx>>

\* pc is where the request stands; view tells when its snapshot was taken;
\* seen is number_next as it sees it, so one of those the sequence goes
\* through; stale and other whether the sequence
\* and the shared record have been changed since; got the numbers it took.
Issued == {Start + k * Inc : k \in 0 .. Len(docs) + MaxGot}
Tx == [pc : {"idle", "open", "record", "table", "locked", "selected", "failed"},
       view : {"none", "early", "locked"}, seen : Issued,
       stale : BOOLEAN, other : BOOLEAN, got : Seq(Issued)]

TypeOK ==
    /\ next \in Issued /\ docs \in Seq(Issued)
    /\ table \in Request \cup {None} /\ record \in Request \cup {None}
    /\ tx \in [Request -> Tx]

Idle == [pc |-> "idle", view |-> "none", seen |-> Start,
         stale |-> FALSE, other |-> FALSE, got |-> <<>>]

At(t, pc) == tx[t].pc = pc

\* The snapshot is taken now, unless it has been.
Viewing(m, how) == IF m.view = "none" THEN [m EXCEPT !.view = how, !.seen = next] ELSE m

Set(t, m) == tx' = [tx EXCEPT ![t] = m]

\* The locks of t end with its transaction.
Free(t, lock) == IF lock = t THEN None ELSE lock
Release(t) == table' = Free(t, table) /\ record' = Free(t, record)

-----------------------------------------------------------------------------
\* A request comes in: osv_pool.execute opens a cursor.
Begin(t) ==
    /\ At(t, "idle")
    /\ Set(t, [Idle EXCEPT !.pc = "open"])
    /\ UNCHANGED <<next, docs, table, record>>

\* The method reads another table.
Read(t) ==
    /\ At(t, "open") /\ tx[t].view = "none"
    /\ Set(t, Viewing(tx[t], "early"))
    /\ UNCHANGED <<next, docs, table, record>>

\* The method updates the shared record, once it gets it.
Write(t) ==
    /\ At(t, "open") /\ record # t
    /\ Set(t, [Viewing(tx[t], "early") EXCEPT !.pc = "record"])
    /\ UNCHANGED <<next, docs, table, record>>

WriteDone(t) ==
    /\ At(t, "record") /\ record = None /\ ~ tx[t].other
    /\ record' = t
    /\ Set(t, [tx[t] EXCEPT !.pc = "open"])
    /\ UNCHANGED <<next, docs, table>>

\* get_id
GetId(t) ==
    /\ At(t, "open")
    /\ Len(tx[t].got) < MaxGot /\ Len(docs) + Len(tx[t].got) < MaxDocs
    /\ Set(t, [tx[t] EXCEPT !.pc = "table"])
    /\ UNCHANGED <<next, docs, table, record>>

\* Mutant: get_id without its lock.
LockNothing(t) ==
    /\ At(t, "table")
    /\ Set(t, [tx[t] EXCEPT !.pc = "locked"])
    /\ UNCHANGED <<next, docs, table, record>>

\* lock table ir_sequence
LockTable(t) ==
    /\ At(t, "table") /\ table \in {None, t}
    /\ table' = t
    /\ Set(t, [tx[t] EXCEPT !.pc = "locked"])
    /\ UNCHANGED <<next, docs, record>>

\* select ... number_next
Select(t) ==
    /\ At(t, "locked")
    /\ Set(t, [Viewing(tx[t], "locked") EXCEPT !.pc = "selected"])
    /\ UNCHANGED <<next, docs, table, record>>

\* Mutant: the next number is the next integer.
UpdateByOne(t) ==
    /\ At(t, "selected") /\ ~ tx[t].stale
    /\ Set(t, [tx[t] EXCEPT !.pc = "open", !.got = Append(@, tx[t].seen), !.seen = @ + 1])
    /\ UNCHANGED <<next, docs, table, record>>

\* Mutant: the number is moved on the first time only.
UpdateOnce(t) ==
    /\ At(t, "selected") /\ ~ tx[t].stale
    /\ Set(t, [tx[t] EXCEPT !.pc = "open", !.got = Append(@, tx[t].seen),
                            !.seen = IF tx[t].got = <<>> THEN @ + Inc ELSE @])
    /\ UNCHANGED <<next, docs, table, record>>

\* update ... number_next+number_increment; the old one names the document.
Update(t) ==
    /\ At(t, "selected") /\ ~ tx[t].stale
    /\ Set(t, [tx[t] EXCEPT !.pc = "open", !.got = Append(@, tx[t].seen),
                            !.seen = @ + Inc])
    /\ UNCHANGED <<next, docs, table, record>>

\* cr.commit(): the others that have a snapshot see neither change.
Outdated(t, m) ==
    IF m.view = "none" THEN m
    ELSE [m EXCEPT !.stale = @ \/ tx[t].got # <<>>, !.other = @ \/ record = t]

Commit(t) ==
    /\ At(t, "open")
    /\ next' = IF tx[t].got = <<>> THEN next ELSE tx[t].seen
    /\ docs' = docs \o tx[t].got
    /\ tx' = [u \in Request |-> IF u = t THEN Idle ELSE Outdated(t, tx[u])]
    /\ Release(t)

\* Mutant: a number once taken is taken.
RollbackTaken(t) ==
    /\ At(t, "open") \/ At(t, "failed")
    /\ next' = IF tx[t].got = <<>> THEN next ELSE tx[t].seen
    /\ Set(t, Idle)
    /\ Release(t)
    /\ UNCHANGED docs

\* Mutant: the cursor is not closed.
RollbackHolding(t) ==
    /\ At(t, "open") \/ At(t, "failed")
    /\ Set(t, Idle)
    /\ UNCHANGED <<next, docs, table, record>>

\* cr.rollback(), after the method or the database raised.
Rollback(t) ==
    /\ At(t, "open") \/ At(t, "failed")
    /\ Set(t, Idle)
    /\ Release(t)
    /\ UNCHANGED <<next, docs>>

-----------------------------------------------------------------------------
(* The database aborts a transaction, and with it go its locks.            *)

Fail(t) ==
    /\ Set(t, [Idle EXCEPT !.pc = "failed"])
    /\ Release(t)
    /\ UNCHANGED <<next, docs>>

\* could not serialize access due to concurrent update
SelectedStale(t) == At(t, "selected") /\ tx[t].stale /\ Fail(t)
WriteStale(t) == At(t, "record") /\ tx[t].other /\ Fail(t)

\* deadlock detected
Deadlock(t) ==
    /\ \/ At(t, "table") /\ record = t /\ table \in Request /\ At(table, "record")
       \/ At(t, "record") /\ table = t /\ record \in Request /\ At(record, "table")
    /\ Fail(t)

-----------------------------------------------------------------------------
Init ==
    /\ next = Start /\ docs = <<>>
    /\ table = None /\ record = None
    /\ tx = [t \in Request |-> Idle]

Runs(t) ==
    \/ WriteDone(t) \/ WriteStale(t)
    \/ LockTable(t) \/ Select(t) \/ Update(t) \/ SelectedStale(t)
    \/ Deadlock(t)

Ends(t) == Commit(t) \/ Rollback(t)

Next == \E t \in Request :
    \/ Begin(t) \/ Read(t) \/ Write(t) \/ GetId(t)
    \/ Runs(t) \/ Ends(t)

Spec == Init /\ [][Next]_vars

\* The thread of a request runs on, the method comes to an end, and the
\* database answers; it gives a lock to those that wait in the order they
\* came, so that none waits for ever while others come and go.
FairSpec ==
    /\ Spec
    /\ \A t \in Request :
        /\ WF_vars(Runs(t)) /\ WF_vars(Ends(t))
        /\ SF_vars(LockTable(t)) /\ SF_vars(WriteDone(t))

-----------------------------------------------------------------------------
\* Documents are committed in the order of their numbers, with no gap and
\* none twice, whichever requests fail: the promise of module Numbers.
Abstract == INSTANCE Numbers WITH Start <- Start, Inc <- Inc, docs <- docs
Implements == Abstract!Spec

\* A request that asks for its number before anything else never fails for
\* it: only a snapshot older than the lock can be out of date.
LockedViewIsFresh == \A t \in Request : tx[t].stale => tx[t].view = "early"

\* Every request comes to an end, those that wait for each other too.
RequestsEnd == \A t \in Request : ~ At(t, "idle") ~> At(t, "idle")
=============================================================================
