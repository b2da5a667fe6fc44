# Tiny ERP server: specifications, model checking and proofs

This directory specifies the core of the Tiny ERP server (`src/tinyerp-server/bin`,
paths below are relative to it) in TLA+, checks it with TLC and proves its main
invariants with TLAPS. `PROJECT.json` lists the components, the runs, the mutant of
every checked property, the source lines of every definition, the findings, the
hazards and the theorems.

The server is a multi-threaded Python process over PostgreSQL. A client calls a
method of an object through XML-RPC or net-rpc; `osv_pool.execute` opens a cursor,
runs the method, and commits or rolls back. Methods of objects write records through
the ORM; every create, write and unlink calls the workflow engine, whose activities
call methods again. Beside the requests run the timer threads of the scheduler and,
inside the request of an administrator, the upgrade of the modules of a database.

## Inventory

| component | state it keeps | operations | hard behaviour | what makes it correct |
|---|---|---|---|---|
| workflow engine (`workflow/`) | `wkf_instance`, `wkf_workitem`, `wkf_witm_trans`, `wkf_triggers`; the Python call stack | `trg_create/write/validate/trigger/delete/redirect` | recursion through actions back into the same instance; rows fetched before the loop over them; subflows and signals across instances; rollback | no half executed item, no stranded join, no revived token, an instance that is over stays over |
| workflow definitions (XML of purchase, account, stock, mrp, sale) | - | constants of the engine | two subflows at once, exceptions and cancellation | an order ends on an activity |
| module life cycle (`addons/base/module`) | `ir_module_module.state`, dependencies | six buttons | marks set and cancelled in any order | marks are consistent with dependencies |
| module loader (`addons/__init__.py`) | the package queue, the graph, the object pool, a commit per package | `create_graph`, `load_module_graph`, `load_modules` | any input order, cycles, unmet dependencies, crash between commits | complete graph, load order, no data of uninstalled modules |
| scheduler (`ir_cron.py`, `netsvc.Agent`) | `ir_cron`, timers, local list of jobs | `_poolJobs`, `setAlarm`, `quit` | stale list, one commit per job, exceptions end the chain, two chains | calls and counts agree, a due job is served |
| sequences (`ir_sequence.py`) | `number_next`, the table lock | `get_id`, `get` | serializable snapshots, lock held to the end of the request, deadlock, rollback | no gap, no repetition, in order of commit |
| request transactions (`osv/osv.py`) | one cursor per request | `execute`, `exec_workflow` | failure after partial work | all or nothing |
| pooler (`pooler.py`) | `db_dic`, `pool_dic` | `get_db_and_pool`, `restart_pool`, `close_db` | the pool is published before it is loaded | one loaded pool per database |
| ORM (`osv/orm.py`, `fields.py`) | the tables of the objects | create, write, unlink, read, search | `read_delta` check before the update | out of scope but for its calls to the engine |
| web services (`service/web_services.py`) | report spool, wizard table, database actions, all shared by threads | `report`, `report_get`, `wizard.create`, `create`, `get_progress` | threads that die, polling, a dictionary without a lock | one number per report, a whole report handed out once, to its user |
| result cache (`tools/misc.py`) | a dictionary per function | call, drop | fill in an old snapshot | not modelled |
| stock (`stock.py`, `wizard_partial_picking.py`) | moves, pickings with their workflow, inventories | the buttons of moves, pickings and inventories | handlers that call one another through the workflow; browse records that remember; states written behind the workflow; reservation by sums | what waits is fed, what is over is over as a whole, pieces are kept |
| entries (`account.py`, `account_move_line.py`) | moves, lines, journal periods, reconciliations | create, write and delete of moves and lines, validate, post, cancel, reconcile, close | validation after every change, SQL behind the checks, checks of the values before a write | valid entries balance; what is posted, reconciled or closed is kept |
| invoices (`invoice.py`, its workflow) | the invoice, its move, the lines it waits for | issue, cancel, back to draft, pay | the entries have buttons of their own; triggers per line | a move of its own for as long as it is issued; paid when its lines are reconciled |
| sale, production | documents | workflow actions | nested updates | not modelled but for the procurement |
| reports, wizards, imports, access rules, vendored libraries, customer add-on | - | - | rendering, parsing, lookups | not modelled |

Components interact in four ways: nested calls in one transaction (ORM, engine,
actions), rows in PostgreSQL read in snapshots (requests, scheduler, sequences),
module-level dictionaries shared by threads (pooler, web services, cache), and timers
(scheduler). The pooler starts the scheduler, and the loader replaces the pool.

## Modules

| module | models | composes |
|---|---|---|
| `Workflow` | the whole engine; one action per step of a handler; frames of the call stack hold the rows the Python frame has fetched | - |
| `MCKinds` | a workflow with every feature of the engine | `Workflow` |
| `MCPurchase` | the workflows of purchase order, invoice and (shortened) picking | `Workflow` |
| `MCProcurement` | the workflow of a procurement over a (shortened) purchase order | `Workflow` |
| `WorkflowProofs` | types, `NoHalfDoneItem`, `NoStrandedJoin`, `OwnWorkflow` for any workflow; for those that split no token, one item at a time, and what ends stays ended | `Workflow` |
| `Modules`, `MCModules` | the buttons, the graph, loading and removing, crashes | - |
| `ModulesProofs` | types and every safety property, for any finite set of modules and any dependencies | `Modules`, `FiniteFacts` |
| `Cron`, `MCCron` | the chains of timer threads, the jobs, users, stops | - |
| `CronProofs` | types for any number of chains; with one, `CallsAccounted`, `NoEarlyCall` and `NumberOfCalls` | `Cron` |
| `Numbers` | abstract: what a sequence promises | - |
| `Sequence`, `MCSequence` | requests that take numbers, in serializable transactions | implements `Numbers` |
| `SequenceProofs` | the invariant of the lock and the refinement | `Sequence` |
| `ReportSpool`, `MCReportSpool` | `report`, its threads and `report_get`, statement by statement | - |
| `ReportSpoolProofs` | types and the four safety properties of the spool | `ReportSpool` |
| `Stock`, `MCStock` | moves, pickings and an inventory; a request is an action, the handlers it runs are operators | - |
| `Ledger`, `MCLedger` | entries, their validation, reconciliation and closing; a request is an action | - |
| `LedgerProofs` | types and every safety property, for any tables and amounts | `Ledger`, `FiniteFacts` |
| `FiniteFacts` | lemmas on finite sets, and on sums over them | - |
| `Invoice`, `MCInvoice` | invoices over the entries: every step of `Ledger`, followed by what it triggers, and the steps of invoices | `Ledger` |
| `InvoiceProofs` | both properties of invoices, for any invoices, terms of payment and entries | `Invoice`, `LedgerProofs` |

### Workflow

`insts`, `items`, `passed` and `trigs` are the four tables, `data[r]` what conditions
can tell of record `r`, `saved` the last committed copy of all five, and `stack` the
Python call stack. `osv_pool.execute` is `Ready`, one of the `Trg...` requests, the
actions of the engine, then `Commit` or `Rollback`; `Rollback` is possible at every
step, which stands for an exception anywhere, the recursion limit of Python and the
death of the server. With `Batch` a request may call the engine several times before
it commits.

The frames are the loops and calls of the code: `loop` (over instances), `scan`
(`validate`/`update` over items), `start` (`trg_create`), `create`
(`workitem.create`), `process`, `join` (the loop that ends `_split_test`) and `clear`
(the delete after the recursion of an XOR join). A `process` frame holds the
dictionary, not the row: that a dictionary can be stale is the point of the model.
The actions of the activities are the sequences of calls they make (`write` on their
record, `new` or `find` the record of a subflow, `signal`, `trigger`).

Left out: `wkf_logs`; roles (one more conjunct of a condition); the cache of
`on_create`; the order of rows of a query without ORDER BY is any order; equal rows of
`wkf_triggers` count once; identifiers are reused only when no row and no frame can
tell. One transaction runs at a time: what concurrent snapshots do to a join is not
modelled (see below).

### Modules

`Install` ... `UpgradeCancel` are the buttons, guarded by the states in which the form
shows them and pressed while no upgrade runs. `StartUpgrade` and `StartServer` list
the modules in any order; `GraphAdd`, `GraphDefer` and `GraphEnd` are the loop of
`create_graph`, with `later` and `current` as in the code; `LoadPackage` and
`NextLevel` are the iteration of the graph and one package with its commit; `Unlink` and
`Finish` remove modules and restart the pool. `Crash` ends an upgrade between any two
commits. A cycle makes the recursive buttons raise (`NoCycle`). Left out: the options
`-i` and `-u`, demo data, records declared `noupdate`, and that unlinking fails if an
object is missing from the pool, which is a `Crash`.

### Cron

A chain is the succession of timer threads of one pool: `Wake`, `Select` (the list),
`Call` (one turn of the catch-up loop), `Store` (update and commit), `Rearm`. `Die` is
an exception at any of these points; the timer is not set again. `dirty` holds the rows
that were changed since the snapshot of the transaction: their update fails. Users
tick and untick Active. What a job does is the number of its committed calls.

### Sequence and Numbers

A request may read another table first (`Read`), write a record that stands for all
that requests share (`Write`, `WriteDone`), take numbers (`GetId`, `LockTable`,
`Select`, `Update`), and commit or roll back. PostgreSQL is modelled from how the code
uses it: `psycopg` 1, whose sources are in `src/psycopg-1.1.21.tar.gz`, opens every
transaction SERIALIZABLE, and PostgreSQL 8 gives it a snapshot at the first statement
other than LOCK; an update of a row changed since fails; locks end with the
transaction; one request of a cycle is aborted. A number of zero, an inactive sequence
and the formatting around the number are left out. `Numbers` sees only the documents:
each transaction that ends adds the next few numbers.

### ReportSpool

Every call and every report is a thread, and every statement that touches `self.id`,
the semaphore `id_protect` or the dictionary `_reports` is an action: `self.id += 1` is
two (`ReadId`, `WriteId`), `del self._reports[id]` is one. `call[c]` is the call a
client has running, with its local variables; `worker[r]` the thread of a report.
`keys` is the key set of `_reports`, apart from `reports`, what an entry holds or last
held, so that a thread that fills a deleted entry is told from one that finds it. `id`
goes up to `MaxReports`. A client polls its own report until it has it (`back` is
"wait") and may poll another's once. `taken` is a history.

A report that raises ends its thread with the state False: its client polls for ever,
although the comment at `web_services.py:432` says "Report state: False -> True".
`TakenInTheEnd` is about reports that are made.

### Stock

One product in one unit. A request is one transaction and one action; the handlers it
runs are operators from tables to tables, which call each other as the code does:
`Update` is `trg_write` of a picking, `Signal` is `trg_validate`, `EnterConfirmed`,
`EnterAssigned` and `EnterMove` the activities of `stock_workflow.xml` with their
actions, `Done` and `Cancel` the two recursive handlers of moves. What a handler reads
from a browse record it made earlier comes from the older tables (`Done` decides which
fed moves to wake by the states before any was woken), what it queries from the newer.
`Reserve` is `_product_reserve`, with its order of locations and its early return.
`Validate` is the partial-delivery wizard with the quantities a user enters;
`CountInventory` writes the corrections of an inventory. The order of moves and of
transitions is the code's.

The rows there are at first are given (`Stores`): moves and pickings that a purchase, a
sale or the copy of a receipt create (`stock.picking` has no `copy` of its own, so a
copied move still feeds what the original feeds). Left out: consumables (`check_assign`
names an undefined variable for one, `stock.py:812`), the accounting entries of a move,
the invoicing of pickings, lots and tracking.

A move may be fed by several: `check_assign` cuts a move into parts that all keep its
`move_dest_id` (`stock.py:826`). Three things follow in the code and in the model.
The fed move is assigned as soon as the first of them is done, when only some of its
pieces have come. It is cancelled with any of them. And when two are done in one call,
`action_done` goes by the states it read before the first (`stock.py:867-876`; the
browse records of all destinations are filled in one read, `osv/orm.py:173`): the first
wakes the move, an automatic picking then moves it and is finished, and the second
writes its move, which is done by now, back to 'assigned'. What is left is a picking
that is done with a move that is open, whose pieces do not count as delivered. No
document of the repository speaks of it, so it is no finding but an exception of
`OverWhole`: `FedTwice` names that step and nothing else, and without it TLC finds the
property violated after three requests (a move is taken back, reserved again in two
parts, and its picking confirmed).

What else the code does and the properties leave room for: `force_assign` and
`cancel_assign` of a picking write its done moves too; the buttons of a line change a
move without `trg_write` of its picking, which lags; two requests, or two moves of one
call, may reserve the same piece, so `ReservedIsThere` is about one move and the
locations it takes from (further on, a move that was woken early may go out with more
than has come); and cancelling a move may leave its picking open, although the comment
of `action_cancel` says "Cancel move => cancel others move and pickings"
(`stock.py:840`): the moves are written first, and an automatic transition of the
picking then takes the place of the signal (`stock.py:854`).

### Ledger

`move`, `line` and `jp` are the tables of moves, lines and journal periods; a line
without a move is a row that is not there. An amount is debit less credit. A request is
one action: `Db` is what it finds, `Commit` what it leaves, and a request that raises is
no step. `Save` is a write of a line followed by `account_move.validate` of its move:
`Validates` says whether that goes through (every write of lines in it goes through
`_update_check`, which is `UpdateCheck`), `Validate` what it leaves, and `Centralise` is
`_centralise`, which writes by SQL. `_update_journal_check` makes the journal periods
that are missing, which is `Open`. `ButtonValidate` posts a move, or takes its lines to
draft and commits that before it raises. `WriteMovePeriod`, `WriteLineMove` and
`WriteLine` are the writes a form or a client can make. `NewLine` is `line.create` with
the journal period `k` it is entered in: that of the values or of the context, which the
wizard of a journal gives (`wizard_journal.py:77`), and only when neither names a
journal that of the move (`account_move_line.py:496-504`). The check is of `k`, and the
line carries `k` until a validation writes that of the move in it. When values and
context disagree the check is of the one and the line carries the other; then `validate`
looks at the other too (every draft line it writes goes through `_update_check`), so
that all this adds is that both journal periods are made, which is left out.
`ReconcileWriteOff` marks every line of its move in the account, two when that is the
account of write-offs. `ReconcileWriteOff`, `Unreconcile` and `ClosePeriod` come from
`reconcile` and the wizards. Left out: currencies, taxes, analytic lines, companies, the
accounts a journal allows (more reasons to raise), float rounding, and several lines or
moves in one call. A request is atomic here. Two requests at once, in their snapshots,
may each pass a check that the other is about to make fail and write different rows (a
move is posted while one of its lines is written: no row is written by both, and neither
is refused). That is outside what `Ledger` says, and what `Invoice` says with it.

What the code does and the properties leave room for. The lines of centralisation are
rewritten by SQL (`account.py:689`) although one is reconciled, so "For each
reconciliation, the sum of credits equals the sum of debits"
(`account_assert_test.xml`) does not hold of them, and no property says it.

The code does not keep lines out of a closed journal period, although
`_update_journal_check` says "You can not add/modify entries in a closed journal."
(`account_move_line.py:464`): what is checked is the journal period of the line, not of
its move. A line can be entered in a move of a closed period through an open one, a
draft line of an open period be sent there by a write of `move_id`, and a draft move be
sent there by a write of its period. In a centralised journal the new line also has
the lines of centralisation of the move rewritten, by SQL (`account.py:689`). So
`ClosedKept` does not say that a settled move (`Settled`: in a closed journal period with
all its lines) stays as it is. It says what does hold: every line that was entered in it
(`ByHand`) stays in it as it is, whatever is done; and the move gets no line, and none of
its lines of centralisation changes, but in a request by which a line of another journal
period intrudes (`Intruded`). TLC finds the statement without that exception violated.

### Invoice

`invoice[i]` is the state of an invoice, which is also the activity its workflow stands
on, its `move_id`, and the lines its workflow waits for (`wkf_triggers`). `Issue` is
the way to proforma and open with `action_move_create`; `Cancel` is `action_cancel`,
refused if the move can not be cancelled or its lines not be deleted; `Pay` is
`pay_and_reconcile`, with the write-off move if the amounts differ, in a journal of its
own and in the period of the payment (`wizard_pay_invoice.py:56`). `Follow` is what
every step of the entries does to invoices: `reconcile` triggers those that wait for one
of its lines, which try `test_paid`; the reference to a move that is deleted is emptied
by its foreign key. `WriteInvoice` is `trg_write`. The arithmetic of taxes, currencies
and payment terms is the constant `Parts`.

What the code does and the properties leave room for: an invoice stays paid when its
reconciliation is deleted, as the form of that wizard warns; if the line it is due in is
deleted in a draft move and entered again, nothing triggers the invoice when the new
line is reconciled, and it is paid only when it is next written (so `PaidInTime` is
about journals whose moves can not be cancelled). A comment in `action_cancel`
(`invoice.py:536`) says that the reconciliations of the move "will be automatically
deleted too"; `_update_check` refuses to delete a reconciled line, so such an invoice
can not be cancelled.

## Runs

| run | expects | what it shows |
|---|---|---|
| `kinds` | pass | types and no stranded join, with every feature of the engine and several requests in one transaction |
| `purchase` | pass | the real purchase workflow: an order that is over stays over and ends on an activity; no token is revived by a stale row |
| `procurement` | pass | signals to the parent by force, triggers, a loop, deletion, merge of orders: no half executed item, every wait is for an instance of the right workflow |
| `modules` | pass | complete graph, load order, no data without a module, marks carried out, loading ends |
| `orphan` | violation of `NoOrphan` | see findings |
| `cron` | pass | calls accounted for, none early, due jobs served |
| `cron_twice` | violation of `NumberOfCalls` | see findings |
| `sequence` | pass | the sequence implements `Numbers`; a snapshot taken under the lock is fresh; every request ends |
| `report_spool` | pass | numbers of their own, a report handed out once and whole, its thread finds its entry, what is made is taken |
| `stock` | pass | what waits is fed, what is over is over as a whole unless a move is fed twice at once, pieces are kept, done moves stay, a reservation is there |
| `ledger` | pass | valid entries balance; posted and reconciled lines are valid; posted entries keep their lines, closed ones what was entered in them |
| `invoice` | pass | an invoice stands on a move of its own, due in full; it is paid as soon as its lines are reconciled |

Bounds. `kinds`: two records, three instances, six items: a parent, a subflow without
and one with an action at once, and an AND join of three inputs. `purchase`: an order,
its invoice and its picking, eight items (those of the three instances at rest and those
in flight). `procurement`: a procurement, two orders that may be merged, six items. A
path that would need more identifiers stops there and can only roll back. `modules`:
three modules and every graph among them in which `product` has no dependency, with the
cycle of the other two; three suffice for a chain, a fork, a join and a module behind a
cycle. `cron`: a job that always runs and skips missed calls, one that runs twice and
repeats them, five ticks: the second misses a period and reaches its last call. The
clock stops at `LastTick`, and a timer beyond it fires there. `sequence`: two requests,
up to two numbers each, and documents to the number five, steps of two: one holds the
lock while the other waits with an old snapshot or with none, or each waits for the
other. `report_spool`: three clients of two users, two reports: two calls of `report` at
once, and two polls of one report beside. `stock`: two stores of rows to start from. In
one a purchase of one piece feeds a sale, which also takes two pieces from a store and
its shelf with one on each. In the other a sale of two pieces is fed by a move of
another picking, whose reservation may split it over the store and the shelf, and by a
purchase: up to three feeders, done in one call or in several. Pickings are manual,
automatic or all at once, in every combination; one more row, which a reservation, a
partial delivery or an inventory may take; a picking or two more for a split. `ledger`:
two moves, three lines (a balanced pair and one more, or a line and its two lines of
centralisation), amounts of one, a journal with and one without centralisation, two
periods, and every journal period for a new line. An amount of zero would multiply the
states beyond the bound; the theorems hold for it too. A fourth line is there for a
write-off: the state constraint `Small` does not go on from the other states that take
it. `invoice`: an invoice due in two parts in a journal whose moves can not be
cancelled, and a refund in one that allows it; three moves, seven lines, so that the two
parts can be reconciled apart, each with a move of its own, or a payment be written off.
Its own `Small` cuts what `ledger` explores: moves that do not balance (but that of the
refund while a line of it is entered again), closed periods, moves of other sizes, sums
above two.

Invariants quantified over committed states look at `saved`; those about what a caller
sees look at states with an empty stack, and both kinds are reached many times.
Symmetry is used in `ledger` (moves, periods) and `invoice` (moves, reconciliations),
which check no liveness and whose modules choose among lines only, never among those
sets. Both also have a VIEW that forgets which row a line is in: the rows that are
free are alike, and every definition chooses among free rows or looks at all of them.

Deadlock is not checked in `stock`, `ledger` and `invoice`: there a user may be left
with no button that does anything, when all is delivered or the rows are used up. In
every other run nothing may stop, as a request or a rollback is always possible.

### Fairness

`Modules`: weak fairness of the step the loader is at; a thread that loads modules is
scheduled by Python, and nothing is assumed of users. `Cron`: time passes, timers fire
and threads run, and an update that cannot succeed raises instead of waiting.
`DueIsServed` excuses a chain that died, since the code does not restart one.
`Sequence`: a thread runs on and methods return (weak fairness); a lock is granted to
those that wait in the order they came, which PostgreSQL does, so that a request that
can get it again and again gets it (strong fairness of `LockTable` and `WriteDone`).
`ReportSpool`: threads run on, and a client polls its report (weak fairness of each
thread); nothing makes a report end well. `Workflow` has no liveness property: its
recursion ends or meets Python's limit, and what a request waits for is a user.

### Findings

* `NoOrphan` (`addons/base/module/module.py:275`). `button_uninstall` refuses to remove
  a module "depends on installed modules" (line 315), but installing a dependent
  afterwards leaves the mark 'to remove' of its dependency: the upgrade installs the
  one and uninstalls the other.
* `NumberOfCalls` (`pooler.py:58`). `numbercall` is the "Number of time the function is
  called" (`ir_cron.py:66`), but every system upgrade starts another chain of timers
  beside the old one; a job whose row was stored by one chain is called again from
  the stale list of the other.

## Proofs

The proof modules hold for every value of the constants allowed by the assumptions
`ConstantsAssumption`, `SequenceAssumption`, `SpoolAssumption`, `ModulesAssumption`,
`CronAssumption`, `LedgerAssumption` and `InvoiceAssumption`: the types of the
constants; for workflows also that a transition stays in its workflow; that modules,
jobs and lines are finitely many, as the rows of a table are; and that neither what an
invoice sells nor a write-off is booked on the account it is due on, which can be
reconciled; and that the journals of invoices are not centralised. TLC evaluates them in
the runs.

`WorkflowProofs`, for any workflow definitions:

* `TypeCorrect`: the types of the tables and of every frame. Lemmas give the frames a
  step leaves (`Push0` ... `Push3`), then one lemma per group of actions.
* `NoHalfDoneItemHolds`. The property speaks of an empty stack only, so it is not
  inductive. `HalfInv` adds: every item not at rest is handled by a frame on the
  stack - the `process` frame that executes it, or the loop that will tell its instance
  - and a frame that runs an action has put its row out of state 'active'. Each step
  hands its item to the frames it pushes (`Quiet`), or settles it.
* `NoStrandedJoinHolds`. `JoinInv` adds: every row of `wkf_witm_trans` is an input of
  an AND join that still misses one, or a `join` or `clear` frame is about to join or
  delete it. The proof separates the steps that are not about joins
  (`JoinElsewhere`) from the three that are.
* `OwnWorkflowHolds`. What a step writes comes from dictionaries that may be stale, so
  `OwnInv` says what is still true of them (`Fits`): the instance a frame names is there
  and runs the right workflow, and a row with the identifier of a frame's item, if there
  is one, stands on the activity the frame believes. Instances outlive the frames, since
  `unlink` runs with an empty stack, and no frame holds a new identifier (`Born`);
  `OwnStep` is the argument, and each action only has to say which rows it touches.

The remaining properties are not true of every workflow, so the theorems say of which
they are. A workflow `k` is `Sequential(k)` when one activity starts it, no activity
splits into more than one transition and none has a `signal_send`. Of the ten workflows
in the XML files all but those of the purchase and the sale order are; in the runs, the
procurement, the invoice and the picking. Each theorem is about the instances of one
such `k` while the other workflows are arbitrary: they may split, join, force signals
on their parents, and call each other's records.

* `OneToken`, `FreshHolds`: an instance of `k` has one work item at most, at every step,
  and the dictionary a running `workitem.process` holds of it is the row of the table.
  That there is one row is far from inductive: an item that is fired is deleted and
  created again two frames further, and frames below the top wait with rows they read
  long ago. `AloneInv` says for each instance what the top frame knows (`Leading`: a scan
  holds rows that are there, a `create` or `join` frame with something to do finds no
  row), what any frame below it may still hold (`Resting`: nothing, or the row whose
  action it runs, which is 'running'), and that no frame above such an action may move
  its row (`Apart`). The last is what nested updates threaten: they skip a 'running' row
  unless they are forced, and only the parents of an instance are forced, whose one row
  waits for it and therefore runs no action (`AloneSend`). An activity with `signal_send`
  is excluded because its item is still 'active' while the parents are signalled: a
  parent that writes the record has it executed a second time.
* `Turn` sums up what a step of the engine does to such an instance (`TurnEngine`): its
  token stands, leaves, passes a join, comes to an activity, or waits at an AND join.
  The next two invariants follow from that alone.
* `OverInHolds`: if moreover no activity that stops `k` has an outgoing transition
  (`StopsEnd(k)`, true of all ten workflows), the items of a complete instance are
  complete and on stopping activities, at every step and not only between requests.
  `OverInv` adds that nobody is about to give the instance an item.
* `KeptInHolds`: if moreover `k` has no subflow and no AND join (`SelfContained(k)`: the
  invoice, the picking, the payment order and the timesheet), an instance has an item
  whenever a request is over. `KeptInv` adds that a token which is on no activity is
  about to come to one, and that no two rows of `wkf_instance` have one identifier,
  which `trg_delete` needs. With subflows the statement is false: an action
  that returns no record, and the deletion of the record waited for, take the item away.
* `NoTokenRevivedHolds`, `CompleteIsOverHolds`, `CompleteHasEndHolds`: the properties of
  the runs, for a database all of whose workflows are of the kind named, as with the
  modules of accounting, stock and timesheets. The runs check them also for workflows
  that split, join and send signals.

`SequenceProofs`, for any number of requests, start and increment:

* `SequenceTypes`, `FreshUnderLock`, `SequenceImplements`. `SeqInv`: a request that has
  taken a number holds the table lock until it ends, its snapshot is not out of date,
  and its numbers follow the committed one; so a commit adds exactly the next numbers
  (`CommitDocs`), and no other step touches the documents.

`ReportSpoolProofs`, for any number of clients and reports:

* `TypeCorrect`, `OwnReportHolds`, `TakenOnceHolds`, `WholeReportHolds`,
  `WorkerFindsEntryHolds`. The invariant says where the semaphore is by where its holder
  is, that the numbers given so far are those up to `id` and each has one asker and one
  thread, how far the entry of a report is by how far its thread is, and that an entry
  that was handed out is not in the dictionary and never will be.

`ModulesProofs`, for any finite set of modules and any dependencies, cycles and missing
modules included:

* `GraphComplete`. While `create_graph` runs, its queue holds each package outside the
  graph once, and those deferred since the last success all miss something (`Queue`); so
  when it gives up on a queue it has gone round once, all that is left misses something
  (`Stuck`). The graph is closed under dependencies (`Layers`) and inside every set that
  is closed under loadability (`Least`): together, exactly the loadable packages.
* `InOrder`. A node is put below the deepest of those it depends on (`DepthBelow`), so
  depths grow along dependencies (`Layers`), and the walk by levels has loaded what it
  has passed (`Walk`).
* `AllCarriedOut`. The upgrade lists all modules in use (`Lists`) and the walk leaves no
  mark that could be carried out (`Carried`).
* `NoDataLeft`. Records of modules marked to be removed are those still to unlink
  (`Records`), with a crash between any two commits. `TypeCorrect`, `ModulesInvariant`.

`CronProofs`, for any jobs, intervals, priorities and numbers of calls:

* `TypeCorrect`, for any number of chains: the number of calls left never leaves the
  range of the job (`Left`), in the rows and in the lists of the threads.
* `CallsAccountedHolds`, `NoEarlyCallHolds`, under the hypothesis `OneChain`. A row, and
  an entry of the list that the thread works through, account for the calls committed
  and those about to be (`Agrees`, `ChainAccounts`); with one chain nobody else changes
  either. The hypothesis is the scheduler as it runs until a system upgrade starts a
  second chain; without it `CallsAccounted` fails, and `NumberOfCallsHolds` is the
  counterpart of that finding: with one chain a job is never called more often than it
  was ordered.

`LedgerProofs`, for any moves, lines, journals and periods and any integer amounts:

* `ValidBalancedHolds`. `Even`: the lines of a move are all draft, or all valid with
  sum zero. `validate` makes them so; `_centralise` brings the sum to zero with two
  lines (`CentraliseBalanced`); a line that leaves its move for another is draft, so all
  it leaves behind are; a write-off brings two lines that cancel out.
* `FixedIsValidHolds`, `PostedKeptHolds`, `ClosedKeptHolds`. `FixedIsValid` is almost
  inductive: in the middle of a request the move that is about to be validated is
  excepted (`FixedBut(d, m)`), and `validate` brings it back (`SaveStep`), because it
  writes the lines of a posted or reconciled move only after `_update_check` of all it
  writes. `ClosedKept` goes by the line: `validate` writes those entered by hand only
  after `_update_check` (`SettledChecked`), which a line of a settled move does not
  pass, and `_centralise` writes no others but its own; a settled move is balanced or
  not centralised, so that without an intruder there is nothing to centralise
  (`SettledStays`, `SettledSave`). `IInv` adds the types (`IsDb`, `TypeCorrect`) and the
  references of the tables (`Keyed`). `StepOk` says what any request keeps; one lemma
  per request shows it, and the properties follow from it and `IInv`.

`InvoiceProofs`, for any invoices, parts they are due in, accounts, journals and amounts
paid:

* What a step may do to the entries is `LedgerOk`: it keeps `IInv`, leaves every move in
  its journal, and keeps posted moves that cannot be cancelled with their lines. For a
  step of `Ledger` this is `StepOk` of `LedgerProofs` and `StepMoves`. What invoices and
  payments enter goes by one lemma, `EnteredBooks`: rows that add up to zero
  (`IsEntry`), put in free lines, leave sound tables in which nothing else has changed.
  A payment is one or two such entries and a reconciliation (`PayLedger`), an invoice
  one entry that is posted (`MoveCreated`); `InvoiceEntry` shows that it balances and
  that what is due of it is the total, for any number of parts.
* `MoveStandsHolds`, `PaidInTimeHolds`. `MoveStands` alone does not survive a step:
  `BookInv` adds that the move of an invoice is there and in the invoice's journal, so
  that it is one that cannot be cancelled, and that an invoice waits for exactly the
  lines its move is due in. Then a move that stands is left standing (`StandsStill`),
  and when `test_paid` becomes true some line has just been reconciled, which is one
  the invoice waits for (`Follows`).

`FiniteFacts` proves what these need of finite sets without the induction theorems of
the library, which the provers cannot instantiate: a family of subsets of a finite set
has a smallest member (`SmallestSubset`, from the well-founded order of inclusion),
so a claim about all subsets is refuted at a smallest counterexample. From it: a sum
does not depend on the order in which its terms are taken (`SumRemove`), the sums of
disjoint sets add up (`SumUnion`), and numbering the terms differently does not change
their sum (`SumImage`).

Only model-checked:

* `CompleteIsOver`, `CompleteHasEnd` and `NoTokenRevived` of workflows that split, join
  or send signals (the purchase order of `MCPurchase`, and `MCKinds`): with two items of
  an instance on the stack a forced signal may fire the one whose action is running, so
  what makes them true there is in the definitions of those workflows.
* Everything in `Stock`: its handlers are recursive operators, which the proof system
  does not accept.
* Liveness (`Modules`, `Cron`, `Sequence`, `ReportSpool`): fairness is stated with
  `ENABLED`, which is beyond the proof system.

## Hazards

`PROJECT.json` lists each with its line and the properties about it; one that no
property covers has a note that says why.

## Not modelled

What could be added, in the order of what it would tell:

1. The AND join in two concurrent snapshots (write skew, `workitem.py:177`): needs the
   handlers of `Workflow` over the snapshots of `Sequence`; one transaction at a time
   is what keeps `Workflow` within reach of TLC.
2. Requests that meet a pool being filled, or left half filled by an upgrade that died
   (`pooler.py:52`), composed with `Modules`.
3. The sale order with `action_invoice_create` under nested updates, which needs the
   data of the order lines; production orders.
4. The result cache under snapshots (`tools/misc.py`); `_process_end` rewiring
   transitions under the items that stand on them.
5. The wizard table and the progress of a database creation (`web_services.py`).
6. Proofs: `OneToken` counts one item; for a workflow that splits, each item would have
   to be kept apart from the frames that may move another of the same instance, under a
   hypothesis on the workflows that force it.

Rendering, marshalling, SQL generation, the arithmetic of prices and taxes, imports,
the customer add-on and the vendored libraries have no state of their own that steps
of several actors could spoil, and are left out for good.
