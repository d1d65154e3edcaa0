------------------------- MODULE ConnectionRegistry -------------------------
(***************************************************************************)
(* The registries of MySQLComponent: connections with their workers,       *)
(* prepared statements and models, all named by integer handles, and the   *)
(* tick that dispatches finished jobs to the scripts.                      *)
(*                                                                         *)
(* A worker is its queue: ConnectionWorker shows that jobs of one          *)
(* connection run in order and that stop() drains them.  Objects carry an  *)
(* identity that is never reused (a ghost); handles and addresses are      *)
(* reused as the code reuses them.                                         *)
(***************************************************************************)
EXTENDS Naturals, Sequences, Functions, SequencesExt

CONSTANTS
  Addresses,      \* where a Connection object can be allocated
  MaxConnections, \* bound on the connections opened
  MaxStatements,  \* bound on the statements prepared
  MaxModels,      \* bound on the models created
  MaxJobs         \* bound on the jobs submitted by natives

VARIABLES
  connections,   \* connections_ : handle -> [addr, id]
  input,         \* workers_ : handle -> the queue of its worker
  statements,    \* statements_ : handle -> identity of the PreparedStatement
  models,        \* models_ : handle -> identity of the Model
  nextHandle, nextStatement, nextModel,
  stmt,          \* identity -> the PreparedStatement object
  opened,        \* how many connections were opened (the last identity)
  created,       \* how many models were created (the last identity)
  submitted,     \* how many jobs natives submitted (the last number)
  completed,     \* completed_
  batch,         \* the jobs onTick drained and has not dispatched yet
  dispatched,    \* history: the jobs dispatched, in order
  waiting        \* what the main thread waits for: [for, on]

regVars == <<connections, input, statements, models>>
nextVars == <<nextHandle, nextStatement, nextModel>>
sinkVars == <<completed, batch, dispatched>>
vars == <<regVars, nextVars, stmt, opened, created, submitted, sinkVars, waiting>>

None == 0
Nothing == [for |-> "nothing", on |-> None]
Free == waiting = Nothing

Init ==
  /\ connections = <<>> /\ input = <<>> /\ statements = <<>> /\ models = <<>>
  /\ nextHandle = 1 /\ nextStatement = 1 /\ nextModel = 1
  /\ stmt = <<>>
  /\ opened = 0 /\ created = 0 /\ submitted = 0
  /\ completed = <<>> /\ batch = <<>> /\ dispatched = <<>>
  /\ waiting = Nothing

\* f with k mapped to v, and f without the keys K.
Put(f, k, v) == [x \in DOMAIN f \union {k} |-> IF x = k THEN v ELSE f[x]]
Drop(f, K) == Restrict(f, DOMAIN f \ K)

LiveConnections == {connections[h].id : h \in DOMAIN connections}

\* A job: its number (asynchronous jobs only), the handle it was submitted for, the connection that handle
\* named, and the statement, model handle and model it is about.
Job(h, what, s, m) ==
  [n |-> submitted + 1, handle |-> h, conn |-> connections[h].id, what |-> what,
   stmt |-> s, model |-> m, of |-> IF m = None THEN None ELSE models[m]]

-----------------------------------------------------------------------------
(* Connections                                                             *)

\* mysql_connect, DoConnect, addConnection: the allocator may return the address of a
\* Connection destroyed before.
Connect ==
  /\ Free /\ opened < MaxConnections
  /\ \E a \in Addresses :
       /\ \A h \in DOMAIN connections : connections[h].addr # a
       /\ connections' = Put(connections, nextHandle, [addr |-> a, id |-> opened + 1])
  /\ input' = Put(input, nextHandle, <<>>)
  /\ nextHandle' = nextHandle + 1
  /\ opened' = opened + 1
  /\ UNCHANGED <<statements, models, nextStatement, nextModel, stmt, created, submitted, sinkVars, waiting>>

\* connectionHandleOf compares addresses; None when no connection has this one.
ConnectionHandleOf(a) ==
  IF \E h \in DOMAIN connections : connections[h].addr = a
    THEN CHOOSE h \in DOMAIN connections : connections[h].addr = a
    ELSE None

\* mysql_close, removeConnection: the main thread waits in stop() ...
CloseConnection(h) ==
  /\ Free /\ h \in DOMAIN connections
  /\ waiting' = [for |-> "close", on |-> h]
  /\ UNCHANGED <<regVars, nextVars, stmt, opened, created, submitted, sinkVars>>

\* ... until the worker has drained its queue; then worker and connection go.
FinishClose ==
  /\ waiting.for = "close"
  /\ input[waiting.on] = <<>>
  /\ connections' = Drop(connections, {waiting.on})
  /\ input' = Drop(input, {waiting.on})
  /\ waiting' = Nothing
  /\ UNCHANGED <<statements, models, nextVars, stmt, opened, created, submitted, sinkVars>>

-----------------------------------------------------------------------------
(* Jobs                                                                    *)

\* mysql_execute, enqueueJob.
Query(h) ==
  /\ Free /\ submitted < MaxJobs
  /\ h \in DOMAIN connections
  /\ input' = [input EXCEPT ![h] = Append(@, Job(h, "query", None, None))]
  /\ submitted' = submitted + 1
  /\ UNCHANGED <<connections, statements, models, nextVars, stmt, opened, created, sinkVars, waiting>>

\* mysql_execute_sync, runJobSync: the main thread waits for its job, which is the last.
QuerySync(h) ==
  /\ Free /\ h \in DOMAIN connections
  /\ input' = [input EXCEPT ![h] = Append(@, [Job(h, "sync", None, None) EXCEPT !.n = None])]
  /\ waiting' = [for |-> "reply", on |-> h]
  /\ UNCHANGED <<connections, statements, models, nextVars, stmt, opened, created, submitted, sinkVars>>

FinishSync ==
  /\ waiting.for = "reply"
  /\ input[waiting.on] = <<>>
  /\ waiting' = Nothing
  /\ UNCHANGED <<regVars, nextVars, stmt, opened, created, submitted, sinkVars>>

-----------------------------------------------------------------------------
(* Prepared statements                                                     *)

\* mysql_prepare: the statement remembers the address of its connection.
Prepare(h) ==
  /\ Free /\ Len(stmt) < MaxStatements
  /\ h \in DOMAIN connections
  /\ stmt' = Append(stmt, [addr |-> connections[h].addr, owner |-> connections[h].id,
                           alive |-> TRUE, preparedOn |-> None])
  /\ statements' = Put(statements, nextStatement, Len(stmt) + 1)
  /\ nextStatement' = nextStatement + 1
  /\ UNCHANGED <<connections, input, models, nextHandle, nextModel, opened, created, submitted, sinkVars, waiting>>

\* mysql_stmt_execute: queued on the worker of the connection at that address.
Execute(s) ==
  /\ Free /\ submitted < MaxJobs
  /\ s \in DOMAIN statements
  /\ LET o == statements[s]
         h == ConnectionHandleOf(stmt[o].addr)
     IN /\ h # None
        /\ input' = [input EXCEPT ![h] = Append(@, Job(h, "exec", o, None))]
  /\ submitted' = submitted + 1
  /\ UNCHANGED <<connections, statements, models, nextVars, stmt, opened, created, sinkVars, waiting>>

Teardown(h, o) ==
  [n |-> None, handle |-> h, conn |-> connections[h].id, what |-> "close",
   stmt |-> o, model |-> None, of |-> None]

\* The teardown jobs for the statements of gone whose connection is at handle h, in the
\* order of the registry (any order: statements_ is a hash map).
TeardownsFor(gone, h) ==
  LET mine == SetToSeq({o \in gone : ConnectionHandleOf(stmt[o].addr) = h})
  IN  [i \in DOMAIN mine |-> Teardown(h, mine[i])]
Orphans(gone) == {o \in gone : ConnectionHandleOf(stmt[o].addr) = None}
Destroyed(os) == [o \in DOMAIN stmt |-> [stmt[o] EXCEPT !.alive = @ /\ o \notin os]]

\* Variant: the statement is destroyed on the main thread.
RetireInline(gone) == stmt' = Destroyed(gone) /\ UNCHANGED input

\* Variant: the teardown goes in front of the queue.
RetireAtFront(gone) ==
  /\ input' = [h \in DOMAIN input |-> TeardownsFor(gone, h) \o input[h]]
  /\ stmt' = Destroyed(Orphans(gone))

\* Variant: a statement whose connection is gone is forgotten.
RetireForget(gone) ==
  /\ input' = [h \in DOMAIN input |-> input[h] \o TeardownsFor(gone, h)]
  /\ UNCHANGED stmt

\* removeStatement of the objects in gone: each is handed to the worker of the
\* connection at its address, behind the jobs that borrow it; without such a worker
\* it is destroyed at once.
Retire(gone) ==
  /\ input' = [h \in DOMAIN input |-> input[h] \o TeardownsFor(gone, h)]
  /\ stmt' = Destroyed(Orphans(gone))

\* mysql_stmt_close.
CloseStatement(s) ==
  /\ Free /\ s \in DOMAIN statements
  /\ Retire({statements[s]})
  /\ statements' = Drop(statements, {s})
  /\ UNCHANGED <<connections, models, nextVars, opened, created, submitted, sinkVars, waiting>>

-----------------------------------------------------------------------------
(* Models                                                                  *)

CreateModel ==
  /\ Free /\ created < MaxModels
  /\ models' = Put(models, nextModel, created + 1)
  /\ nextModel' = nextModel + 1
  /\ created' = created + 1
  /\ UNCHANGED <<connections, input, statements, nextHandle, nextStatement, stmt, opened, submitted, sinkVars, waiting>>

DestroyModel(m) ==
  /\ Free /\ m \in DOMAIN models
  /\ models' = Drop(models, {m})
  /\ UNCHANGED <<connections, input, statements, nextVars, stmt, opened, created, submitted, sinkVars, waiting>>

\* mysql_model_find, _save, ...: the job carries the model's handle.
ModelQuery(m, h) ==
  /\ Free /\ submitted < MaxJobs
  /\ m \in DOMAIN models /\ h \in DOMAIN connections
  /\ input' = [input EXCEPT ![h] = Append(@, Job(h, "query", None, m))]
  /\ submitted' = submitted + 1
  /\ UNCHANGED <<connections, statements, models, nextVars, stmt, opened, created, sinkVars, waiting>>

-----------------------------------------------------------------------------
(* Workers                                                                 *)

\* The worker of h runs its oldest job.
RunJob(h) ==
  /\ h \in DOMAIN input /\ input[h] # <<>>
  /\ LET j == Head(input[h]) IN
       /\ completed' = IF j.what \in {"query", "exec"} THEN Append(completed, j) ELSE completed
       /\ stmt' = CASE j.what = "close" -> [stmt EXCEPT ![j.stmt].alive = FALSE]
                    [] j.what = "exec" /\ stmt[j.stmt].preparedOn = None ->
                         [stmt EXCEPT ![j.stmt].preparedOn = connections[h].id]
                    [] OTHER -> stmt
  /\ input' = [input EXCEPT ![h] = Tail(@)]
  /\ UNCHANGED <<connections, statements, models, nextVars, opened, created, submitted, batch, dispatched, waiting>>

-----------------------------------------------------------------------------
(* The tick                                                                *)

\* Variant: finished jobs are kept back until their connections are there.
DrainOpen ==
  /\ Free /\ batch = <<>> /\ completed # <<>>
  /\ \A j \in Range(completed) : j.handle \in DOMAIN connections
  /\ batch' = completed
  /\ completed' = <<>>
  /\ UNCHANGED <<regVars, nextVars, stmt, opened, created, submitted, dispatched, waiting>>

\* Variant: the newest finished jobs are dispatched first.
DrainReversed ==
  /\ Free /\ batch = <<>> /\ completed # <<>>
  /\ batch' = Reverse(completed)
  /\ completed' = <<>>
  /\ UNCHANGED <<regVars, nextVars, stmt, opened, created, submitted, dispatched, waiting>>

\* onTick: drainCompleted.
Drain ==
  /\ Free /\ batch = <<>> /\ completed # <<>>
  /\ batch' = completed
  /\ completed' = <<>>
  /\ UNCHANGED <<regVars, nextVars, stmt, opened, created, submitted, dispatched, waiting>>

\* onTick: dispatchJob of the next drained job.  Its callback may call any native
\* before the next one is dispatched.
Dispatch ==
  /\ Free /\ batch # <<>>
  /\ dispatched' = Append(dispatched, [n |-> Head(batch).n, conn |-> Head(batch).conn])
  /\ batch' = Tail(batch)
  /\ UNCHANGED <<regVars, nextVars, stmt, opened, created, submitted, completed, waiting>>

-----------------------------------------------------------------------------
(* Gamemode restart and shutdown                                           *)

\* reset and free, up to clearConnections: statements are retired, models dropped, every
\* worker is told to stop.  Both run between ticks.
Clear(what) ==
  /\ Free /\ batch = <<>>
  /\ Retire(Range(statements))
  /\ statements' = <<>> /\ models' = <<>>
  /\ waiting' = [for |-> what, on |-> None]
  /\ UNCHANGED <<connections, nextVars, opened, created, submitted, sinkVars>>

\* Variant: the models survive, their handles are given out again.
FinishResetKeepingOne ==
  /\ waiting.for = "reset"
  /\ \A h \in DOMAIN input : input[h] = <<>>
  /\ connections' = <<>> /\ input' = <<>>
  /\ models' = IF created > 0 THEN Put(<<>>, nextModel - 1, created) ELSE models
  /\ nextHandle' = 1 /\ nextStatement' = 1 /\ nextModel' = 1
  /\ waiting' = Nothing
  /\ UNCHANGED <<statements, stmt, opened, created, submitted, sinkVars>>

\* clearConnections has joined every worker; handles start again at 1.  completed_ is
\* not cleared.
FinishReset ==
  /\ waiting.for = "reset"
  /\ \A h \in DOMAIN input : input[h] = <<>>
  /\ connections' = <<>> /\ input' = <<>>
  /\ nextHandle' = 1 /\ nextStatement' = 1 /\ nextModel' = 1
  /\ waiting' = Nothing
  /\ UNCHANGED <<statements, models, stmt, opened, created, submitted, sinkVars>>

\* free deletes the component, and with it what no tick has dispatched.
FinishFree ==
  /\ waiting.for = "free"
  /\ \A h \in DOMAIN input : input[h] = <<>>
  /\ connections' = <<>> /\ input' = <<>> /\ completed' = <<>>
  /\ waiting' = [for |-> "gone", on |-> None]
  /\ UNCHANGED <<statements, models, nextVars, stmt, opened, created, submitted, batch, dispatched>>

Gone == waiting.for = "gone"

-----------------------------------------------------------------------------
Handles == 1..MaxConnections
Finish == FinishClose \/ FinishSync \/ FinishReset \/ FinishFree

Next ==
  \/ Connect
  \/ \E h \in Handles : CloseConnection(h) \/ Query(h) \/ QuerySync(h) \/ Prepare(h)
  \/ \E s \in 1..MaxStatements : Execute(s) \/ CloseStatement(s)
  \/ CreateModel
  \/ \E m \in 1..MaxModels : DestroyModel(m) \/ \E h \in Handles : ModelQuery(m, h)
  \/ \E h \in Handles : RunJob(h)
  \/ Drain \/ Dispatch
  \/ Clear("reset") \/ Clear("free")
  \/ Finish
  \/ Gone /\ UNCHANGED vars

\* Worker threads are scheduled, a synchronous native goes on when it has its answer, and the
\* server keeps ticking (Drain) and finishes each tick (Dispatch).  Nothing makes stop() return:
\* it may join a thread that has missed the signal for ever (StopReturns of ConnectionWorker).
Fairness ==
  /\ \A h \in Handles : WF_vars(RunJob(h))
  /\ WF_vars(FinishSync)
  /\ SF_vars(Drain) /\ SF_vars(Dispatch)

SafeSpec == Init /\ [][Next]_vars
Spec == SafeSpec /\ Fairness

-----------------------------------------------------------------------------
(* What is promised                                                        *)

Queued == UNION {Range(input[h]) : h \in DOMAIN input}
Teardowns == {j \in Queued : j.what = "close"}

\* Handles, identities and the queues are what they claim to be.
TypeOK ==
  /\ DOMAIN connections \subseteq 1..(nextHandle - 1) /\ DOMAIN input = DOMAIN connections
  /\ DOMAIN statements \subseteq 1..(nextStatement - 1)
  /\ DOMAIN models \subseteq 1..(nextModel - 1)
  /\ \A h \in DOMAIN connections : connections[h] \in [addr : Addresses, id : 1..opened]
  /\ \A s \in DOMAIN statements : statements[s] \in DOMAIN stmt
  /\ waiting.for \in {"close", "reply"} => waiting.on \in DOMAIN connections

\* A job that borrows a statement never outlives it: the statement is alive, and if it
\* is waiting for its teardown the job is in front of the teardown in the same queue.
BorrowedStatementAlive ==
  \A h \in DOMAIN input : \A i \in DOMAIN input[h] :
    input[h][i].what = "exec" =>
      /\ stmt[input[h][i].stmt].alive
      /\ \A g \in DOMAIN input : \A k \in DOMAIN input[g] :
           (input[g][k].what = "close" /\ input[g][k].stmt = input[h][i].stmt) => g = h /\ i < k

\* A statement object lives exactly as long as its handle or one teardown job owns it:
\* none leaks, none is freed twice.
StatementOwnedOnce ==
  \A o \in DOMAIN stmt :
    /\ stmt[o].alive <=> o \in Range(statements) \/ \E j \in Teardowns : j.stmt = o
    /\ o \in Range(statements) => \A j \in Teardowns : j.stmt # o
    /\ \A g, h \in DOMAIN input : \A i \in DOMAIN input[g], k \in DOMAIN input[h] :
         (input[g][i].what = "close" /\ input[g][i].stmt = o /\
          input[h][k].what = "close" /\ input[h][k].stmt = o) => g = h /\ i = k

\* While its connection lives, a statement is destroyed by that connection's worker and
\* by no other thread.
ClosedByItsWorker ==
  [][\A o \in DOMAIN stmt :
       (stmt[o].alive /\ ~stmt'[o].alive /\ stmt[o].owner \in LiveConnections) =>
         \E h \in DOMAIN input :
           /\ connections[h].id = stmt[o].owner
           /\ input[h] # <<>> /\ input'[h] = Tail(input[h])
           /\ Head(input[h]).what = "close" /\ Head(input[h]).stmt = o]_vars

\* Replies of one connection are dispatched in submission order, whatever natives the
\* callbacks in between call, and closing a connection or restarting the gamemode loses
\* no asynchronous job: each is queued, finished or dispatched.
RepliesInOrder ==
  LET out == dispatched \o batch \o completed IN
  /\ \A i, k \in DOMAIN out : (i < k /\ out[i].conn = out[k].conn) => out[i].n < out[k].n
  /\ ~Gone => 1..submitted \subseteq {j.n : j \in Queued \union Range(out)}

\* The main thread joins workers.
Stopping == waiting.for \in {"close", "reset", "free"}

\* Every asynchronous job reaches the tick's dispatch, those of connections closed or dropped
\* by a restart in the meantime too, unless the component is freed or a stop() never returns.
EveryJobDispatched == []<>~Stopping => []<>(Gone \/ Len(dispatched) = submitted)

-----------------------------------------------------------------------------
(* What the comments and the documentation say, and the code does not do   *)

\* "The job must run on the worker that owns this statement's connection"
\* (natives.cpp): a statement is only ever prepared on the connection it was made for.
StatementStaysOnItsConnection ==
  \A o \in DOMAIN stmt : stmt[o].preparedOn \in {None, stmt[o].owner}

\* OnQueryError's handle is "the connection it ran on" (omp-mysql.inc): if the handle a
\* job is dispatched with names a connection, it is the job's.
ReplyNamesItsConnection ==
  batch # <<>> =>
    \A h \in DOMAIN connections : h = Head(batch).handle => connections[h].id = Head(batch).conn

\* "The auto-increment key is written back into the bound key variable" of the model
\* that was saved (omp-mysql.inc): no other model receives a model's result.
ModelResultReachesItsModel ==
  batch # <<>> =>
    \A m \in DOMAIN models : m = Head(batch).model => models[m] = Head(batch).of
=============================================================================
