# omp-MySQL: a verification development

This directory holds TLA+ models of the omp-MySQL component (`src/`), the TLC
configurations that check them on small instances, and TLAPS proofs of the main
results for every value of the constants.

## 1. The system

omp-MySQL is an open.mp server component.  Pawn scripts call its natives on the
server's **main thread**; one **worker thread per connection** talks to MySQL
through libmysqlclient; a **pool of hashing threads** computes Argon2id; the
server calls `onTick` on the main thread, which hands finished jobs back to the
scripts by calling their public functions.

| component | source | state | operations | talks to |
|---|---|---|---|---|
| Connection worker | `QueryQueue.cpp` 1-176 | `running_`, `input_` under `inputMutex_` + `inputCv_`, atomic `pending_` | `enqueue`, `runSync`, `stop`, `loop` | jobs from the main thread; `completed_` sink or promise back |
| Hashing pool | `QueryQueue.cpp` 178-288 | `hashRunning_`, `hashInput_`, `hashOutput_`, threads | `startHashing`, `enqueueHash`, `hashLoop`, `drainHashes`, `stopHashing` | jobs from natives, results to `onTick` |
| Registries | `MySQLComponent.cpp` 144-211, 464-574, 978-1020 | `connections_`, `workers_`, `statements_`, `models_`, `options_`, the `next*_` counters | add, remove, look up, clear, `reset`, `free` | own workers and statements; jobs borrow statements |
| Query guards | `MySQLComponent.cpp` 213-343 | `guards_`, `multiStatementAllowed_`, `rateLog_` | `checkGuards`, `enqueueJob`, `runJobSync`, `mysql_set_limit` | reads `pending_` |
| SQL scanner | `MySQLComponent.cpp` 345-397, `Statement.cpp` 20-58 | lexical state | `isMultiStatement`, `CountPlaceholders` | used by guards, statements |
| Prepared statement | `Statement.cpp` | `stmt_`, `prepared_`, `paramCount_`, `params_` | bind, `execute` (lazy prepare), close | bound on the main thread, executed on the worker |
| Dispatch and result cache | `MySQLComponent.cpp` 399-462, 598-975 | `activeCache_`, `activeResultIndex_`, `savedCaches_` | `onTick`, `dispatchJob`, `dispatchHash`, `mysql_rs_*` | calls scripts, which call natives |
| Model (active record) | `Model.cpp`, `natives.cpp` 1785-1984, `MySQLComponent.cpp` 600-671 | fields bound to script variables, key, last error | bind, find, insert, update, save, delete, write-back | jobs; reads and writes script memory |
| Connection | `Connection.cpp`, `natives.cpp` 170-198, 226-311, 1066-1217 | `MYSQL*`, `connected_`, `lastErrno_`, options | connect, TLS options, the cipher check, `queryBuffered`, `setCharset`, `stat`, `escape` | libmysqlclient and the server |
| Natives, config file, vectors, hashing primitives | `natives.cpp`, `Hashing.cpp` | none | decoding, formatting, obfuscation | wrappers |

What is hard: the two threads of a connection and the atomic counter updated
outside the lock; waking and stopping threads without losing a wakeup; statements
that are created and bound on one thread, prepared, executed and destroyed on
another, and borrowed by queued jobs; replies that come a tick later, when the
connection, the model or the player may be gone and the handle may name something
else; callbacks that call natives in the middle of a tick; guards that compare
values which another thread changes.

## 2. Plan

Done, in this order:

1. `ConnectionWorker` (the core), `QueryService` (its promise), `ConnectionWorkerProofs`.
2. `HashPool`, `HashPoolProofs`.
3. `ConnectionRegistry`: lifetimes, handles, the tick, gamemode restarts and the
   shutdown; `ConnectionRegistryProofs`.
4. `PreparedStatement`: one statement shared by two threads; `PreparedStatementProofs`.
5. `QueryGuards`, `QueryGuardsProofs`.
6. `Dispatch`: how results reach scripts, with the call stack; `DispatchProofs`.
7. `ModelRecord`: one active record, its table, its replies; `ModelRecordProofs`.
8. `Connection`: opening and verifying, result sets one by one, errors in the middle,
   two threads on one `MYSQL*`; `ConnectionProofs`.
9. `SqlScanner`: the two lexers over every short text; `QueryGuardsProofs`, which also proves
   the guards that ask one of them, over every text.

Left:

* A composition of `ConnectionRegistry` with the two-thread worker of
  `ConnectionWorker` instead of its queue.  The theorems of `ConnectionWorkerProofs`
  are what justifies the queue.

## 3. Modules

Every module names its state after the fields of the code; the actions are the
natives and the steps between two points where another thread or a script can
act.  "History" variables are read by properties only.  Definitions that begin
with the comment "Variant:" are not part of a specification: each is the code
with one plausible mistake, and PROJECT.json says which property catches it.

| module | models | extends |
|---|---|---|
| `QueryService` | the promise of one connection: jobs performed in order, replies once, a synchronous caller blocked, closed only when drained | |
| `ConnectionWorker` | `ConnectionWorker` and the completed queue, at the level of lock, condition variable and atomic | instantiates `QueryService` |
| `ConnectionWorkerProofs` | its theorems | `ConnectionWorker`, TLAPS |
| `HashPool`, `HashPoolProofs` | the hashing threads of `QueryEngine`, its theorems | |
| `ConnectionRegistry`, `ConnectionRegistryProofs` | `MySQLComponent`'s maps, handles, `onTick`, `reset`, `free`; theorems about statements and replies | |
| `PreparedStatement`, `PreparedStatementProofs` | `Statement.cpp` on two threads | |
| `QueryGuards` | `checkGuards`, `enqueueJob`, `runJobSync`, `mysql_set_limit` | |
| `SqlScanner` | `isMultiStatement`, `CountPlaceholders` | |
| `QueryGuardsProofs` | the theorems of both | `QueryGuards`, `SqlScanner`, TLAPS |
| `Dispatch`, `MCDispatch`, `DispatchProofs` | `dispatchJob`, `RunSyncQuery`, the result cache; its instance; its theorems | |
| `ModelRecord`, `MCModelRecord`, `ModelRecordProofs` | `Model.cpp`, the `mysql_model_*` natives, `dispatchJob`, `applyModelResult`; its instance; its theorems | |
| `Connection`, `ConnectionProofs` | `Connection.cpp`, `DoConnect`, the TLS options, the outcome of a job in `loop` and `PreparedStatement::execute` | |

How they fit together: `ConnectionWorker` shows that a connection behaves like a
queue that is served in order and drained on close.  `ConnectionRegistry`,
`QueryGuards` and `ModelRecord` use that: their worker is a queue with one
action that runs the oldest job.  `ConnectionRegistry` shows that replies of a
connection are dispatched in order and none is lost; `Dispatch` and
`ModelRecord` begin there.  What one job does on the connection is one step there and
the subject of `Connection`; the answers of the two lexers are free inputs in
`QueryGuards` and `PreparedStatement` and the subject of `SqlScanner`.

### ConnectionWorker

`input`, `running`, `pending`, `completed` are `input_`, `running_`, `pending_`,
`completed_`; `promise` is what `syncSignal` carries.  `wpc` and `mpc` are the
places of the two threads.  `enqueue` is three actions, since the worker can act
between them: `Submit` (under the mutex), `CountJob` (the atomic increment after
it), `Notify`.  `runSync` is the same and `AwaitReply`.  `stop` is `Stop` (the
flag), `StopNotify`, `Join`, `Clear`.  `loop` is `Park` / `TakeJob` / `Exit` on
the predicate, `Block` (the wait releases the mutex and sleeps in one step),
`Run`, `Deliver`, `Uncount`.  The flag and the signal of `stop` are set without
the mutex, so they can fall between `Park` and `Block`.  A spurious wakeup can
come at any time.  `BeginDirectCall` / `EndDirectCall` are the natives that call
libmysqlclient on the main thread.  A `Tick` takes everything in `completed_`.
`runSync`'s early return for a stopped worker and its broken promise are left out:
the registry removes the worker in the native that stops it, and `loop` drains
its queue.

### HashPool

The same structure for several threads and one output queue.  `startHashing`
is called once; its early return on a second call is left out.

### ConnectionRegistry

`connections`, `statements`, `models` map handles to objects.  Connections have
an address, since statements remember `Connection*` and `connectionHandleOf`
compares addresses, and an identity that is never reused, which only properties
read.  A worker is its queue.  Natives that wait (`mysql_close`, a synchronous
query, `reset`) are two actions, with `waiting` between them.  `reset()` runs
between ticks (the server calls it when the gamemode ends), and so does `free()`, which
ends the run: it retires statements and joins the workers as `reset()` does, and what no
tick has dispatched by then is deleted with the component.  The option handles and the
guards are left out.

### PreparedStatement

The main thread binds (`ensureParam`, `setParam`) and submits; the worker runs
`execute` step by step: `mysql_stmt_init`, `mysql_stmt_prepare`, the reconciliation of
`paramCount_`, the size of the bind array, staging each parameter, execution.
`params_` and `paramCount_` are shared without a lock.  Where the two threads
meet in them the behaviour of the C++ program is undefined; the module takes
each access as one step and lets a read outside `params_` return any value.
`CalmExecutionsSendTheirBinds` and `CalmStagingInBounds` are about scripts that wait for one
execution before they bind for the next (`overlapped` remembers whether they
did).

### QueryGuards

`guards`, `multi`, `rateLog`, `workers`, `nextHandle` are the maps of the
component.  Time is a counter.  A submission is one of four actions, for the
four ways through `checkGuards` and `enqueueJob`: not limited, accepted under
the limit, over the limit (which pops the log and pushes nothing), refused by another
guard before the log is looked at.  `limited` and `enqueued` are histories of what was
accepted.  `pending` is `pending_`, `unanswered` what it stands for: `Answer` and
`Uncount` are two steps, as in the worker.

### Dispatch

The main thread is a call stack: a tick dispatches a job, which calls a hook,
which runs a native, which rejects a query, which calls `OnQueryError` ...  Only
the top frame acts.  A script frame may call any native of the cache and of
queries, submit, or return.  `active`, `set`, `saved`, `nextCache` are `activeCache_`,
`activeResultIndex_`, `savedCaches_`, `nextCache_`.  A player may leave between ticks, or be
kicked by a script.  Between events and ticks the gamemode may end: `Reset` is what `reset()`
does here, for the filterscripts' results too (no active result, no retained one, handles
from 1 again); what the workers have completed stays and is dispatched later, with or without
the next gamemode (`LoadMain`).  `named` remembers what each handle was given out for since
the last restart, `chosen` whether a script has activated, deactivated or selected something,
or got the result of a synchronous query, since `dispatchJob` or `reset()` last touched what
is active.

### ModelRecord

`mem` is the script's memory, `fields` the bindings, `key`, `errno` the model's
fields; `rows`, `nextId`, `auto` are the table.  A job carries what the SQL text
carries: the literals of the bound columns and of the key *when the native was
called*.  The server may execute a statement, fail, or execute it and lose the
answer.  `Apply` is `dispatchJob`: it returns early (`Unapplied`) when neither a gamemode
nor a script with the callback is there, and the reply is dropped; otherwise it is
`applyModelResult` (`Applied`) with the bindings *of that moment*.  Which script has the
callback is the subject of `Dispatch`; here, without a gamemode, either may be the case.
`Reset` ends the gamemode and with it the model and its connection, after the worker has
drained its queue.  The table has a key column, AUTO_INCREMENT or not, and one more; ids the
server gives are not bounded, what the script assigns is (`MaxId`).  `record` remembers
which rows were inserted for the value of the key variable that the script now
holds, whether the script waited for each reply (`patient`), and whether the key of each
row came back (`answered`): it does not if the server's answer to the INSERT is lost or is
not applied.

### Connection

The steps are the calls of libmysqlclient, so that the two threads interleave between
them.  The library and the server are environment: a handle is `link`, `status` (a
result waits to be stored), `more` (another one is announced), `errno`; `wire` is what
the server has sent and nobody has read.  A query produces up to `MaxResults` results,
each without rows, with rows, an error, or an error among the rows.  A command is refused as
out of sync while something is unread, which is what `CR_COMMANDS_OUT_OF_SYNC` is.
`QueryBuffered`, `StoreResult`, `NextResult` are the loop of `queryBuffered`;
`Execute`, `StoreStatementResult` a prepared statement's; `Reply` is what `loop` writes
into the job.  `mysql_connect` takes every set of options three calls of
`mysql_config_set` or three lines of a file can leave: the mode, `sslCA` and `sslCAPath`, each
set, emptied again or not given.  `ConfirmCipher`, `AskCipher`,
`RefuseConnection` are the fail-closed check.  `AskCipher` always fails: the query is
sent with a length one byte short (`Connection.cpp:361`), and the server answers the open
quote with a syntax error.  `DirectCommand` is a native on the main thread, which
may fall into a job; `overlapped` remembers that it did.  The link may break at any time.

### SqlScanner

One step is one iteration of a loop.  `seen` collects the positions a lexer took for
code.  Beside it runs the reference `ref`, which has no modes: a token begins at a
position and ends at another (`Ends`), said of the text as a whole; backslashes in front of
a closing quote come in pairs or not (`Unescaped`).  It opens comments by the same marks as
the code, so what MySQL itself reads otherwise is outside: `--` with no space behind it is
no comment to the server, and the text of `/*! */` is run by it.

What a second statement is, `Documented` takes from the comment of the declaration
(`MySQLComponent.hpp:213-215`), "a `;` separating non-empty, non-comment SQL": a separator
with a word before it and a word behind it, where a quoted text or identifier is a word.
The code does not decide exactly that.  `VerdictIsRight` is what holds: a reported text is
one of those, or has a separator before all of its words (`;x`); one of those that is not
reported has only quoted words behind its separators.

## 4. Runs

Every bound is a CONSTANT and appears only in guards of submissions, so that what
was submitted always runs to its end.  Deadlock is checked in every run but
`model_record`, `connection` and `connection_success`, where a script that has used up
its bounds and has its replies is simply idle, and `scanner`, where a text ends.

| run | instance | why it is enough |
|---|---|---|
| `worker` | 4 jobs, each asynchronous, synchronous or a teardown | one job in the worker's hands, one being enqueued, two queued; the safety part and the refinement are proved for every bound |
| `hash_pool` | 3 threads, 4 jobs (the code starts 2 threads) | one thread about to block while one computes and one takes; overtaking by two; the safety part proved for every number |
| `registry_safety` | 2 addresses, 2 connections, 2 statements, 1 model, 2 jobs | two connections live at once, or one address used twice; a statement with a job and its teardown queued while another is created under a reused handle; each of 2 jobs through a close, a restart, a shutdown; the safety part proved for every bound |
| `statement_safety` | server wants 2 parameters, the parser counted 0 or 3, indices up to 3, 2 executions | miscounted in both directions, first execution that prepares and a second that does not, failures of each call; proved for every count, index and number of executions |
| `guards_safety` | 1 handle used again after close and restart, window 1, limits 0 to 2, 3 time steps, 3 accepted queries | a log shorter, as long as and longer than the limit; entries just inside and just outside the window; proved for every value |
| `dispatch_safety` | gamemode and filterscript, the hooks in the filterscript, 2 queries, 2 handles, depth 5, 1 restart | deep enough for tick, dispatch, callback, synchronous query, hook; a handle released, dropped by a restart or held while another is given out; a reply from before the restart; proved for every depth, set of scripts and number of queries |
| `model_record` | 2 interchangeable variables, assigned 0 or 1, 3 operations, 2 changes by the script, a table with one row | insert, a second save that inserts or updates, and a find, around one change while a job is queued or its reply waits; the server may give 3 ids of its own, so that a second and a third row for one record are possible; proved for every bound |
| `connection` | 3 jobs of up to 2 results, 2 connects, 2 commands on the main thread | a job that leaves something behind, the job that meets it and the one after; an error in the first result, the second, among the rows of either; a second `MYSQL*` after a first; the safety part proved for every bound |
| `scanner` | every text of up to 5 characters of 10 classes | `'\\'` and a separator behind it, `/**/;`, `--` ended by a newline: the shortest texts in which one rule hides another; the classes left out (the double quote, the space, a letter) are treated like ones that are in; proved for every length |
| `worker_stop_hangs` | 2 jobs | see Findings |
| `registry_address_reuse` | 1 address, 2 connections, 1 job | see Findings |
| `connection_success` | 1 job of up to 2 results | see Findings |

What they show, beyond the types:

* `worker`: `pending_` is the queue plus the job in hand minus the job not
  counted yet, and is -1 for a moment (`PendingAccounting`); jobs run in submission
  order (`FifoExecution`); no reply is delivered twice or out of order
  (`RepliesOnceInOrder`); the whole implements `QueryService`; every job is executed, and a
  native that waits for its own returns (`EveryJobExecuted`: that the replies of the
  others reach the tick is `EveryJobDispatched` below); `stop` returns if the worker was not
  about to block (`StopReturnsWhenWorkerAwake`).
* `hash_pool`: each job in one place (`EachJobOnce`), overtaken by fewer jobs than there are
  threads (`BoundedOvertaking`), computed, and its stop returns if no thread was about to block
  (`StopReturnsWhenAwake`: the other case hangs as a connection's `stop` does).
* `registry_safety`: a job never outlives the statement it borrows
  (`BorrowedStatementAlive`), a statement is destroyed once (`StatementOwnedOnce`), by the
  worker that owns its connection (`ClosedByItsWorker`); replies in order and no
  job lost (`RepliesInOrder`), each dispatched unless the main thread stays in a `stop()`
  for ever (`EveryJobDispatched`).
* `statement_safety`: with scripts that wait, each execution sends what was bound
  when it was submitted, whatever the parser counted, and reads no parameter out of
  bounds; it is prepared once whatever they do (in `TypeOK`).
* `guards_safety`: no window has more limited queries than the limit in force for
  the last of them, and the log is exactly the end of what was accepted under a limit
  (`RateLimitIsExact`); the pending limit holds against a concurrent counter
  (`BackpressureHolds`).
* `dispatch_safety`: unless a script has chosen otherwise, what is active is the result of the
  query whose callback runs, and nothing outside callbacks (`ActiveIsTheCallbacks`): no hook,
  no failed query and no hash takes it away or leaves one behind; a synchronous query returns
  with its own result active, and retained if asked to; a handle names the result it was given
  out for until it is released or the gamemode restarts (`HandlesKeepTheirResult`).
* `model_record`: on a table with AUTO_INCREMENT, a script that waits for replies gets one row
  for its record and a key variable that names it, if the key of each row it inserted came
  back; if not, the key names one of its rows or is unset, never another record's
  (`OneRowPerRecord`); no row receives a mixture of two records; a reply writes only to
  variables still bound, and to none of a destroyed model.
* `connection`: a job reports what became of it, every result and no failure but its
  own (`CalmRepliesAreTrue`, for queries whose rows all arrived); a failed one carries no
  result (in `TypeOK`); it leaves nothing
  unread for the next (`CalmLeftClean`); the loop over results ends whatever breaks
  (`EveryQueryAnswered`); a registered connection is encrypted and its server verified as
  the options ask, in whatever order they were given (`VerifiedAsAsked`).  "Calm" is: no
  native used the handle during the job, and no prepared statement
  produced more than one result.
* `scanner`: both lexers take for code exactly what is in no literal and no comment
  (`CodeIsRecognised`); `?` are counted right, and a text is rejected if it has SQL on both
  sides of a separator, up to the two exceptions above (`ResultIsRight`).

### Fairness

* Worker threads: weak fairness of the thread's next step.  The operating system schedules
  them and the mutex is held for a few steps only.  It also assumes that libmysqlclient
  returns: `Connection::open` sets connect, read and write timeouts when they are given; without
  them a dead peer can hold the worker as long as the operating system lets it.  A thread
  blocked in the condition variable has no step until it is woken: nothing is assumed
  about spurious wakeups.
* The main thread: weak fairness of going on inside a native; in `ConnectionRegistry` only for
  one that waits for its reply.  Nothing is assumed of a native that joins a worker
  (`mysql_close`, `reset()`, `free()`): it may stay in `stop()` for ever, as `StopReturns`
  shows.  `EveryJobDispatched` therefore has the premise that the main thread is outside `stop()`
  again and again.
* The tick: the server calls `onTick` for ever, unless a native blocks.  In
  `ConnectionWorker` and `ConnectionRegistry` a tick is not possible while a native
  runs, which may happen again and again, so it is strong fairness: a server loop that
  is free infinitely often ticks infinitely often.
* `Connection`: weak fairness of the worker inside a job, on the same assumption that
  each call of libmysqlclient returns.
* Nothing makes a script submit, bind or close.
* `QueryGuards`, `Dispatch`, `PreparedStatement`, `ModelRecord`, `SqlScanner` state
  safety only.

## 5. Proofs

TLAPS checks every theorem; none rests on an unproved step.  Assumed are the named
assumptions on constants only (bounds are natural numbers, `Null` is no value, the
window is a natural number and limits are naturals, a query has at least one result set
to bound, and the empty callback name is the name of no public).  `SafeSpec` is the
specification without fairness, so the theorems hold of `Spec` too.

**ConnectionWorkerProofs.** `FifoExecution` is not inductive: it needs to know that what is
queued follows what ran.  `IInv` says where every job is.  `QueueInv`: the queue is the
interval of jobs after those taken from it; `WorkerInv`, `MainInv`: what each place of a thread
implies (the worker holds the next job to run or the last that ran; the main thread inside
`enqueue` holds the last job submitted); `PromiseInv`: a promise is the job the main thread
awaits; `SinkInv`: `completed_` holds executed asynchronous jobs in increasing order;
`DeliveredInv`: what was delivered precedes them; `AnsweredInv`: an asynchronous job that ran
is delivered, in the sink or in hand, and only the last job can be a synchronous one without
its answer.  One lemma per action shows `IInv` inductive; the properties follow (`TypeCorrect`,
`PendingCorrect`, `FifoCorrect`, `SyncCorrect`, `RepliesCorrect`, `DrainCorrect`).
`Refinement` maps each action to a step of `QueryService` or to a stutter: `Submit` to
`Submit`, `Run` to `Perform`, `AwaitReply` and `Tick` to `Answer` of one job or of the whole
sink, `Clear` to `Close`; `AnsweredInv` is what makes `Answer` legal.

The last part is what the liveness of the thread rests on.  `WakeInv` says that a worker
about to block saw an empty queue, that one asleep over a queued job is about to be
notified, and where a promise that is missing is.  From it `NothingStrandedCorrect`
(somebody can always move while a job or a caller waits), `JobsApproachCorrect`
(`Distance(j)` falls with every step of the worker until j runs, and no other step raises
it) and `ClosingEndsCorrect` (a worker awake when `stop()` signals has at most `Work` steps
left, and only it moves).  With the scheduling of §4 these are the reasons for
`EveryJobExecuted` and `StopReturnsWhenWorkerAwake`; that last inference is TLC's.

**HashPoolProofs.** `IInv` is `TypeOK`, `EachJobOnce` and `StopInv` (a thread that left
did so with the queue empty and the flag cleared, and nothing is submitted after).
The count in `EachJobOnce` uses the cardinality of the busy threads, so `Workers`
is assumed finite.  For `OvertakingCorrect`, `OrderInv` adds that the queue is the interval
of jobs after those taken from it, and that for each finished job some thread is idle or
at a later job: the unfinished ones before it are held by the other threads.

**ConnectionRegistryProofs.** The argument is about addresses.  Open connections have
different ones, so every queued job of a statement is in one queue, that of the
connection at the statement's address (`Local`); there the teardown is last and alone
(`TornLast`); a statement with a handle has none (`Owned`), one without a handle that is alive has
one (`NotLeaked`).  `Good` is their conjunction.  It is an operator of the maps, so that what each kind of
change keeps can be stated once: `AppendKeeps`, `RunKeeps`, `RetireKeeps`,
`OpenKeeps`, `DropKeeps`, `PrepareKeeps`.  `IInv` adds `Named` (handles lie below
the next one and no two name one statement), `Ghosts` (a statement has the address of its
connection as long as that is open) and `Waits` (the registries stay empty while `reset`
joins the workers).  `TypeCorrect`, `BorrowCorrect`, `OwnedCorrect` and `ClosedCorrect`
follow for any number of addresses, connections, statements, models and jobs.

The second half of the module is about replies.  A job on its way out is in what was
dispatched, in what the tick has taken, or in `completed_`, and a tick only moves the boundary:
`Out` is the three as one sequence.  `OInv` says that `Out` is in order for each connection,
that each worker's queue is in order and behind what is out (`Ordered`), and that each number
given to a job is in a queue or out, unless it was lost with the component (`Covered`).  What
it needs of a step is one of four lemmas, by the kind of change: a job is queued (`GrowKeeps`),
a job goes from the head of a queue to the end of `Out` (`MoveKeeps`), connections come and go
(`ChangeKeeps`), nothing of it changes (`AlikeKeeps`).  `OrderCorrect` follows for every bound.

**PreparedStatementProofs.** A script that waits binds only while the queue is empty, so the
two threads take turns.  `CalmInv` says what each finds when its turn comes: `params_` is as
long as `paramCount_`, except between the two halves of a binding and of the reconciliation;
what is staged equals what is bound; and every queued execution was submitted with what
is bound now, as far as the server counts (`QueuedBinds`; `ResizedTwice` is why it survives
the reconciliation).  `LaneInv` says where the worker is in its queue, with the teardown last; `LifeInv`
that nothing is prepared before the handle that stays.  `StagingCorrect`, `ExecutionsCorrect`
and `TypeCorrect` follow for whatever the parser counted.

**QueryGuardsProofs.** `RateLimitIsExact` speaks of all queries ever accepted under a
limit, the code keeps a trimmed log.  `IInv` adds `LogInv` (the log is the end of that
history and is in order of time) and `GoneInv` (what was popped is more than a window
older than the clock); `HandleInv` (handles in use lie below the next one, so that a new
connection starts with an empty log); `PendingInv` (`pending_` is at least the
number of jobs unanswered).  Then a log shorter than n means that the n-th query
before was popped, hence is old enough.  `RateLimitExact`,
`Backpressure`, `TypeCorrect` follow for every limit, window and number of connections.

**DispatchProofs.** A script, a hook and a native can each start the next, so nothing bounds
what happens between a result's arrival and its callback; the argument is about the stack.
`ShapeOf` says of every frame what it may stand on (a callback on an asynchronous dispatch,
that on the tick, a synchronous dispatch on a script, the tick on nothing) and what it says of
itself: a synchronous query has no callback, and is never calling one.  None of it speaks of
what else is on the stack, so it survives every push, pop and change of the top (`PushKeeps`,
`PopKeeps`, `ReplaceKeeps`), and every action is one of those (`StackStep` and the lemmas after
it).  `findScriptWithPublic` finds no public for the empty name (`NoScriptHasNoName`), which is
why a synchronous dispatch never reaches the callback.  `HandleInv` keeps the numbers of
handles dense and below the next one, each retained result the one its number was given out
for, and counts the synchronous queries on the stack that will still take one (`Keeping`): the
bound `MaxHandles` holds because each of them reserved its handle.  For `SyncReturnsItsResult`,
`OnlyEndsShorten` shows that the stack gets shorter only when the frame on top ends, and
`ReturnsToItsScript` that below a synchronous dispatch there is its script. For
`ActiveIsTheCallbacks`, the shape puts the one dispatch that calls a callback on the tick,
second from the bottom (`CallingIsSecond`), so that whether there is one does not depend on
what nests above; `Quiet` says that a step changes neither this nor what is active, and every
action but `Callback`, `Cleanup` and `Reset` is quiet or sets `chosen`. `TypeCorrect`,
`ActiveCorrect`, `HandlesCorrect` and `SyncCorrect` follow for any scripts, publics, depth,
number of queries and of restarts.

**ModelRecordProofs.** That a row holds a pair shown by the script's variables is not
inductive: an UPDATE on its way may break it later.  `IInv` adds that every queued UPDATE
with a key carries such a pair (`Honest`), that a key which is `NULL` names no row
(`Null` is no value), and the types of the bindings, of jobs and of replies; the pairs
shown only grow, so jobs stay honest.  `RowsCorrect`, `WritesCorrect` and `TypeCorrect`
follow for any number of variables, values, operations and touches.
`OneRowCorrect` needs the script, too: `CalmInv` says that a script that waits for replies
has at most one operation under way, submitted with the key its variable still holds, and that
with nothing under way that key is one of its rows' or unset (`Settled`).  As long as every
row's key came back, an INSERT under way inserts the row that is there or the first, its
reply brings the key of that row, and the key names it.  Once one did not (the answer was
lost, or no script was there to take it) there may be two rows; what is left of the
invariant is what the last part of the property needs.

**ConnectionProofs.** `CalmInv` says what each place of the worker means as long as the main
thread leaves the handle alone: the sets it has are the first results of the job, all of them
fetched (`Fetched`), the wire holds exactly the others (`Ahead`), the handle says whether there are more;
at the end the outcome agrees with what the server did (`Complete`,
`Caused`), and the link is lost or nothing is left to read (`Clean`).  The calls of the library have a lemma
each (`CommandFailsFacts` and the like); the invariant then takes one lemma per
action of the worker and one for everything else.  `HandleInv` adds to the types that a
result that waits is on the wire.  `RepliesCorrect`, `LeftCleanCorrect` and
`TypeCorrect` follow for any number of jobs and results (the first two for what their names
call calm: no native used the handle during the job, no prepared CALL before, and for a success
no rows broke off, where `SuccessIsComplete` fails); `VerifiedCorrect` rests on
`AskedFacts` and `AcceptedIsTrusted`: every set of options that can be asked for, against every server.
`JobEndsCorrect` is about every state, also when the main thread uses the handle during a
job: `Steps`, twice the results still on the wire and where the worker is among them, falls
with each step of the job and is raised by nothing; `NothingAwaitedCorrect` says that each
of these steps has an outcome (`HeadInv`: only a result with rows waits to be stored).

**QueryGuardsProofs, the lexers.** `ScanInv` ties the mode of a lexer to the reference: in code
the reference's current token begins at the index; in a literal or a comment it began
before, with what opens that mode, and nothing read since ends it; inside a string no
run of backslashes is half read.  So a character closes the mode in the lexer exactly if
it ends the token in the reference, and `Recognised` follows by one case per action.
`ResultCorrect` adds that `sawSeparator` is "a separator is among the code so far", that
the verdict is "code is behind a separator" (`Stacked`), and that `count` is the number of
question marks in the code.  `StackedMeaning` compares `Stacked` with the documented meaning:
the separator it found has a word before it, or all words are behind it; and a word behind
a separator makes it true unless it is quoted.  Every text, of any length.

**Only model-checked.** All liveness properties and everything that needs ENABLED:
`EveryJobExecuted`, `StopReturnsWhenWorkerAwake`, `EveryHashComputed`,
`StopReturnsWhenAwake`, `EveryJobDispatched` and `EveryQueryAnswered`.  For all but
`EveryJobDispatched` the part without fairness is proved: somebody can move, and what moves lowers a bound
that nothing else raises (for `EveryHashComputed` only the first).  Every other property of a
passing run is a theorem.  The prover has no induction over data here, so what a
recursive definition computes would stay with TLC; no module needs one (`Outcomes`,
`Asked` and the rest are set expressions).

## 6. Findings

Three promises of comments are runs of their own, which end in a counterexample:

* `StopReturns` (`ConnectionWorker`): `stop()` stores `running_ = false` and signals without
  the mutex; if the worker has just found its predicate false and not yet blocked, both are
  missed, and `join` never returns.
* `StatementStaysOnItsConnection` (`ConnectionRegistry`): a statement survives
  `mysql_close` of its connection, and runs on a new connection that was allocated at
  the same address.
* `SuccessIsComplete` (`Connection`): `mysql_store_result` returns NULL for a statement
  without rows and for rows that broke off; `queryBuffered` takes both for the first, and
  reports an empty success.

### Promises the code does not keep

The modules define these too, at their end, each with the words it comes from.
They are not runs; to see the counterexample, put the name as the only INVARIANT
of the configuration of the module's passing run.

| definition | code | what happens |
|---|---|---|
| `NeverOutOfSync` (`Connection`) | `Statement.cpp:244` | a prepared CALL leaves every result but its first unread, and the next query is refused |
| `NoFalseNegative` (`Connection`) | `Connection.cpp:361` | where the client does not know the cipher, the query for it is one byte short and every connection is refused |
| `VerdictAsDocumented` (`SqlScanner`) | `MySQLComponent.cpp:371` | a quoted text or identifier behind a separator is skipped like a comment and is no second statement; a separator before the only statement makes it one |
| `RetainedUntilReleased` (`Dispatch`, as a PROPERTY) | `MySQLComponent.cpp:996` | `reset()` drops the results that filterscripts retained and numbers handles from 1 again |
| `SaveIsAnUpsert` (`ModelRecord`) | `natives.cpp:1980` | a record saved again before the key of its row is back, or when it never comes back, is inserted again |
| `ModelResultReachesItsModel` (`ConnectionRegistry`) | `MySQLComponent.cpp:1004` | `reset()` starts handles at 1 again and keeps `completed_`: a late reply is applied to a new model |
| `ExecutionsSendTheirBinds` (`PreparedStatement`) | `Statement.cpp:204` | binding again right after `mysql_stmt_execute` changes what the first execution sends |
| `OneThreadPerConnection` (`ConnectionWorker`) | `natives.cpp:1396` | `mysql_escape`, `mysql_errno`, `mysql_error`, the charset, status and TLS natives use the `MYSQL*` on the main thread while the worker may be in a query on it |
| `PendingCountCurrent` (`ConnectionWorker`) | `QueryQueue.cpp:174` | the count still includes a job whose answer the script has |
| `ReplyNamesItsConnection` (`ConnectionRegistry`) | `MySQLComponent.cpp:1004` | after a restart an old reply carries a handle that names a new connection |
| `BindsLineUp` (`PreparedStatement`) | `Statement.cpp:98` | `ensureParam` overwrites the server's count with an older, smaller one |
| `NothingLeftOpen` (`PreparedStatement`) | `Statement.cpp:162` | after a failed prepare the next `execute` drops the old `MYSQL_STMT` unfreed |
| `EnqueuedWithinWindow` (`QueryGuards`) | `MySQLComponent.cpp:265` | queries sent while the limit was off do not count once it is on |
| `RejectionsReported` (`QueryGuards`) | `natives.cpp:1944` | a model operation rejected by a guard is reported nowhere |
| `EveryFailureReported` (`Dispatch`) | `MySQLComponent.cpp:721` | a failed `mysql_execute_for` of a player who left fires no `OnQueryError` |
| `EveryExecutionAudited` (`Dispatch`) | `MySQLComponent.cpp:694` | without a gamemode and a callback the filterscripts' `OnQueryExecute` is not called |
| `BoundCallbackForItsPlayer` (`Dispatch`) | `MySQLComponent.cpp:718` | whoever has the id now gets the callback (needs `MaxSessions = 2`) |
| `CallbackRunsInItsScript` (`Dispatch`) | `MySQLComponent.cpp:683` | the gamemode's public of that name is called instead |
| `CallbackKeepsItsResult` (`Dispatch`) | `natives.cpp:444` | a hook called from a native of the callback replaces the active result |

More divergences, which need no definition: a successful INSERT into a table without
AUTO_INCREMENT overwrites the key variable with 0 (`MySQLComponent.cpp:615`;
`OneRowPerRecord` without its condition `auto` shows it); a failed find reports
`MODEL_NO_DATA` (`MySQLComponent.cpp:632`), which `omp-mysql.inc:78` explains as "find()
matched no row"; `mysql_stmt_execute` without a callback is queued
(`natives.cpp:856`), where `omp-mysql.inc:475-476` says that it "runs synchronously";
`AUTO_RECONNECT` (`omp-mysql.inc:96`) is stored and never read; `POOL_SIZE`,
`MAX_PENDING_QUERIES`, `MAX_QUERIES_PER_SECOND` and `MAX_QUERY_LENGTH` are accepted as options
and ignored by `ApplyIntOption`; the key `pool_size` of a configuration file
(`omp-mysql.inc:232`) is not parsed; after a failed `mysql_connect` there is no handle
whose `mysql_errno` could say why; `Connection::query` has no caller.

## 7. Not modelled

* `mysql_escape` and `mysql_get_charset` (they send nothing); compression and the
  timeouts (passed on to the library; a timeout is one way in which the link of
  `Connection` is lost).
* The handles of option sets: a plain map.  What a set means is in `Connection`.
* Decoding of arguments, `mysql_format`, row and field readers, vectors, obfuscation,
  `${VAR}` expansion and the other keys of the configuration file, logging, the version
  check, Argon2id: sequential conversions of their input.
* In `Dispatch`: the marshalling of callback arguments, and the getters of the cache,
  which only read.
* The filterscript, the probes and the tools are clients.
* Out of memory and exceptions thrown by the standard library, anywhere.
