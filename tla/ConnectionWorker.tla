-------------------------- MODULE ConnectionWorker --------------------------
(***************************************************************************)
(* One connection's worker thread and the server's main thread             *)
(* (QueryQueue.cpp, class ConnectionWorker, with the completed-queue of    *)
(* class QueryEngine).                                                     *)
(*                                                                         *)
(* A job is its submission number.  "async" stands for a query or a        *)
(* prepared execute with a callback, "sync" for a job of runSync, "close"  *)
(* for a statement teardown.  What a job does on the server is left out:   *)
(* the order in which jobs reach the server is what matters here.          *)
(***************************************************************************)
EXTENDS Integers, Sequences, Functions

CONSTANT MaxJobs  \* bound on the number of jobs submitted
ASSUME MaxJobsAssumption == MaxJobs \in Nat

VARIABLES
  kind,      \* kind[j] : the kind of the j-th job submitted
  running,   \* running_
  input,     \* input_ : the jobs queued, oldest first
  pending,   \* pending_
  completed, \* completed_ : finished jobs waiting for the tick
  promise,   \* the job handed back through syncSignal, or NoJob
  wpc,       \* where the worker thread is in loop()
  wjob,      \* the job the worker holds
  mpc,       \* where the main thread is
  mjob,      \* the job the main thread is enqueueing or waiting for
  ran,       \* history: the jobs executed, in order
  delivered  \* history: the replies the main thread received, in order

workerVars == <<wpc, wjob>>
mainVars == <<mpc, mjob>>
histVars == <<ran, delivered>>
vars == <<kind, running, input, pending, completed, promise,
          wpc, wjob, mpc, mjob, ran, delivered>>

NoJob == 0
Kinds == {"async", "sync", "close"}

\* test: about to evaluate the wait predicate.  park: the predicate was false, the
\* thread still holds inputMutex_.  asleep: blocked in the condition variable.
WorkerPlaces == {"test", "park", "asleep", "run", "deliver", "uncount", "exited"}

\* script: between natives.  direct: in a native that calls libmysqlclient itself.
\* count, notify: in enqueue.  await: in finished.get().  signal, join, clear: in stop.
MainPlaces == {"script", "direct", "count", "notify", "await",
               "signal", "join", "clear", "gone"}

Jobs == DOMAIN kind
Ran == Range(ran)
Delivered == Range(delivered)

Init ==
  /\ kind = <<>>
  /\ running = TRUE
  /\ input = <<>>
  /\ pending = 0
  /\ completed = <<>>
  /\ promise = NoJob
  /\ wpc = "test"
  /\ wjob = NoJob
  /\ mpc = "script"
  /\ mjob = NoJob
  /\ ran = <<>>
  /\ delivered = <<>>

-----------------------------------------------------------------------------
(* Main thread: enqueue and runSync                                        *)

\* condition_variable::wait releases the mutex and blocks in one step; until then
\* the worker that found the predicate false holds it.
InputMutexFree == wpc # "park"

\* enqueue, first part: push under inputMutex_.
Submit(k) ==
  /\ mpc = "script"
  /\ Len(kind) < MaxJobs
  /\ InputMutexFree
  /\ kind' = Append(kind, k)
  /\ input' = Append(input, Len(kind) + 1)
  /\ mjob' = Len(kind) + 1
  /\ mpc' = "count"
  /\ UNCHANGED <<running, pending, completed, promise, workerVars, histVars>>

\* Variant: runSync pushes its job without counting it.
CountAsyncOnly ==
  /\ mpc = "count"
  /\ pending' = IF kind[mjob] = "sync" THEN pending ELSE pending + 1
  /\ mpc' = "notify"
  /\ UNCHANGED <<kind, running, input, completed, promise, workerVars, mjob, histVars>>

\* pending_.fetch_add(1), after the mutex was released.
CountJob ==
  /\ mpc = "count"
  /\ pending' = pending + 1
  /\ mpc' = "notify"
  /\ UNCHANGED <<kind, running, input, completed, promise, workerVars, mjob, histVars>>

Woken == IF wpc = "asleep" THEN "test" ELSE wpc

\* Variant: enqueue forgets notify_one.
NotifyNobody ==
  /\ mpc = "notify"
  /\ mpc' = IF kind[mjob] = "sync" THEN "await" ELSE "script"
  /\ UNCHANGED <<kind, running, input, pending, completed, promise, workerVars, mjob, histVars>>

\* notify_one; a synchronous caller goes on to wait for its promise.
Notify ==
  /\ mpc = "notify"
  /\ wpc' = Woken
  /\ mpc' = IF kind[mjob] = "sync" THEN "await" ELSE "script"
  /\ UNCHANGED <<kind, running, input, pending, completed, promise, wjob, mjob, histVars>>

\* finished.get() returns the job.
AwaitReply ==
  /\ mpc = "await"
  /\ promise # NoJob
  /\ delivered' = Append(delivered, promise)
  /\ promise' = NoJob
  /\ mpc' = "script"
  /\ UNCHANGED <<kind, running, input, pending, completed, workerVars, mjob, ran>>

-----------------------------------------------------------------------------
(* Main thread: the tick, direct calls and stop                            *)

\* Variant: the drained jobs stay in the sink.
TickKeeps ==
  /\ mpc \in {"script", "gone"}
  /\ completed # <<>>
  /\ Len(delivered) < 2 * MaxJobs
  /\ delivered' = delivered \o completed
  /\ UNCHANGED <<kind, running, input, pending, completed, promise, workerVars, mainVars, ran>>

\* drainCompleted: the tick takes everything the workers finished.
Tick ==
  /\ mpc \in {"script", "gone"}
  /\ completed # <<>>
  /\ delivered' = delivered \o completed
  /\ completed' = <<>>
  /\ UNCHANGED <<kind, running, input, pending, promise, workerVars, mainVars, ran>>

\* mysql_escape, mysql_errno, mysql_error, mysql_set_charset, ... call libmysqlclient
\* on the connection's MYSQL* from the main thread.
BeginDirectCall ==
  /\ mpc = "script"
  /\ mpc' = "direct"
  /\ UNCHANGED <<kind, running, input, pending, completed, promise, workerVars, mjob, histVars>>

EndDirectCall ==
  /\ mpc = "direct"
  /\ mpc' = "script"
  /\ UNCHANGED <<kind, running, input, pending, completed, promise, workerVars, mjob, histVars>>

\* stop: running_.exchange(false), without inputMutex_.
Stop ==
  /\ mpc = "script"
  /\ running
  /\ running' = FALSE
  /\ mpc' = "signal"
  /\ UNCHANGED <<kind, input, pending, completed, promise, workerVars, mjob, histVars>>

\* inputCv_.notify_all()
StopNotify ==
  /\ mpc = "signal"
  /\ wpc' = Woken
  /\ mpc' = "join"
  /\ UNCHANGED <<kind, running, input, pending, completed, promise, wjob, mjob, histVars>>

\* Variant: stop does not join the thread.
JoinEarly ==
  /\ mpc = "join"
  /\ mpc' = "clear"
  /\ UNCHANGED <<kind, running, input, pending, completed, promise, workerVars, mjob, histVars>>

Join ==
  /\ mpc = "join"
  /\ wpc = "exited"
  /\ mpc' = "clear"
  /\ UNCHANGED <<kind, running, input, pending, completed, promise, workerVars, mjob, histVars>>

\* input_.clear(), pending_.store(0); then the connection is destroyed.
Clear ==
  /\ mpc = "clear"
  /\ input' = <<>>
  /\ pending' = 0
  /\ mpc' = "gone"
  /\ UNCHANGED <<kind, running, completed, promise, workerVars, mjob, histVars>>

-----------------------------------------------------------------------------
(* Worker thread: loop                                                     *)

\* Variant: the wait predicate looks at the queue only.
ShouldWakeForJobs == input # <<>>

\* The predicate of inputCv_.wait.
ShouldWake == ~running \/ input # <<>>

Park ==
  /\ wpc = "test"
  /\ ~ShouldWake
  /\ wpc' = "park"
  /\ UNCHANGED <<kind, running, input, pending, completed, promise, wjob, mainVars, histVars>>

Block ==
  /\ wpc = "park"
  /\ wpc' = "asleep"
  /\ UNCHANGED <<kind, running, input, pending, completed, promise, wjob, mainVars, histVars>>

SpuriousWake ==
  /\ wpc = "asleep"
  /\ wpc' = "test"
  /\ UNCHANGED <<kind, running, input, pending, completed, promise, wjob, mainVars, histVars>>

\* Variant: the newest job is taken first.
TakeNewest ==
  /\ wpc = "test"
  /\ input # <<>>
  /\ wjob' = input[Len(input)]
  /\ input' = SubSeq(input, 1, Len(input) - 1)
  /\ wpc' = "run"
  /\ UNCHANGED <<kind, running, pending, completed, promise, mainVars, histVars>>

TakeJob ==
  /\ wpc = "test"
  /\ input # <<>>
  /\ wjob' = Head(input)
  /\ input' = Tail(input)
  /\ wpc' = "run"
  /\ UNCHANGED <<kind, running, pending, completed, promise, mainVars, histVars>>

\* On shutdown the thread leaves only when the queue is empty.
Exit ==
  /\ wpc = "test"
  /\ input = <<>>
  /\ ~running
  /\ wpc' = "exited"
  /\ UNCHANGED <<kind, running, input, pending, completed, promise, wjob, mainVars, histVars>>

\* The query, the prepared execute or the mysql_stmt_close; a teardown has no reply.
Run ==
  /\ wpc = "run"
  /\ ran' = Append(ran, wjob)
  /\ wpc' = IF kind[wjob] = "close" THEN "uncount" ELSE "deliver"
  /\ UNCHANGED <<kind, running, input, pending, completed, promise, wjob, mainVars, delivered>>

\* syncSignal->set_value, or push to the shared sink.
Deliver ==
  /\ wpc = "deliver"
  /\ IF kind[wjob] = "sync"
       THEN promise' = wjob /\ UNCHANGED completed
       ELSE completed' = Append(completed, wjob) /\ UNCHANGED promise
  /\ wpc' = "uncount"
  /\ UNCHANGED <<kind, running, input, pending, wjob, mainVars, histVars>>

\* Variant: a teardown job falls through to the second fetch_sub.
UncountTeardownTwice ==
  /\ wpc = "uncount"
  /\ pending' = pending - (IF kind[wjob] = "close" THEN 2 ELSE 1)
  /\ wjob' = NoJob
  /\ wpc' = "test"
  /\ UNCHANGED <<kind, running, input, completed, promise, mainVars, histVars>>

\* pending_.fetch_sub(1), after the job was handed back.
Uncount ==
  /\ wpc = "uncount"
  /\ pending' = pending - 1
  /\ wjob' = NoJob
  /\ wpc' = "test"
  /\ UNCHANGED <<kind, running, input, completed, promise, mainVars, histVars>>

-----------------------------------------------------------------------------
Enqueue == CountJob \/ Notify
Stopping == StopNotify \/ Join \/ Clear
Worker == Park \/ Block \/ TakeJob \/ Exit \/ Run \/ Deliver \/ Uncount

\* The connection was closed and every reply collected: nothing is left to do.
Finished ==
  /\ mpc = "gone" /\ wpc = "exited" /\ completed = <<>>
  /\ UNCHANGED vars

Next ==
  \/ \E k \in Kinds : Submit(k)
  \/ Enqueue \/ AwaitReply
  \/ Tick
  \/ BeginDirectCall \/ EndDirectCall
  \/ Stop \/ Stopping
  \/ Worker \/ SpuriousWake
  \/ Finished

\* The scheduler runs both threads; a native in progress goes on; the server calls
\* onTick again and again.  Nothing makes a script submit a job or close the
\* connection, and nothing promises a spurious wakeup.
Fairness ==
  /\ WF_vars(Worker)
  /\ WF_vars(Enqueue \/ AwaitReply \/ EndDirectCall \/ Stopping)
  /\ SF_vars(Tick)

SafeSpec == Init /\ [][Next]_vars
Spec == SafeSpec /\ Fairness

-----------------------------------------------------------------------------
(* What is promised                                                        *)

\* Every variable has its type; pending_ never falls below -1 (a job can finish
\* between the push and the fetch_add of enqueue) nor exceeds the jobs submitted.
TypeOK ==
  /\ kind \in Seq(Kinds)
  /\ running \in BOOLEAN
  /\ input \in Seq(Jobs)
  /\ pending \in -1..Len(kind)
  /\ completed \in Seq(Jobs)
  /\ promise \in {NoJob} \union Jobs
  /\ wpc \in WorkerPlaces
  /\ wjob \in {NoJob} \union Jobs
  /\ mpc \in MainPlaces
  /\ mjob \in {NoJob} \union Jobs
  /\ ran \in Seq(Jobs)
  /\ delivered \in Seq(Jobs)

InHand == IF wpc \in {"run", "deliver", "uncount"} THEN 1 ELSE 0
Uncounted == IF mpc = "count" THEN 1 ELSE 0

\* pending_ is the queue plus the job in the worker's hands, minus the job enqueue has
\* pushed and not counted yet: the two threads' updates, made outside the mutex and in
\* either order, never lose one another, whatever the job's kind.
PendingAccounting == pending = Len(input) + InHand - Uncounted

\* Jobs reach the server in the order the scripts submitted them.
FifoExecution == \A i \in DOMAIN ran : ran[i] = i

\* When a synchronous native has its answer, every job submitted before it has run:
\* "a sync query never jumps the async queue" (QueryQueue.hpp, runSync).
SyncNeverOvertakes ==
  mpc = "await" /\ promise # NoJob => promise = mjob /\ 1..mjob \subseteq Ran

\* The main thread never gets the same job twice, gets no teardown job, gets replies of
\* executed jobs only, and gets asynchronous replies in submission order.
RepliesOnceInOrder ==
  /\ \A i \in DOMAIN delivered : delivered[i] \in Ran /\ kind[delivered[i]] # "close"
  /\ \A i, j \in DOMAIN delivered : i < j =>
       /\ delivered[i] # delivered[j]
       /\ (kind[delivered[i]] = "async" /\ kind[delivered[j]] = "async")
            => delivered[i] < delivered[j]

\* When stop() has joined the thread nothing was dropped: every job ever submitted has
\* run on the worker and input_.clear() has nothing to clear, so no reply is lost and
\* no statement is closed on the main thread.
StoppedMeansDrained ==
  mpc \in {"clear", "gone"} =>
    /\ wpc = "exited"
    /\ input = <<>>
    /\ Jobs \subseteq Ran

\* Every submitted job is executed, also when the connection is being closed, and a
\* synchronous native returns to the script: no wakeup for a job is lost between the
\* predicate and the block.
EveryJobExecuted ==
  /\ \A j \in 1..MaxJobs : j \in Jobs ~> j \in Ran
  /\ mpc = "await" ~> mpc = "script"

\* stop() returns if the worker is not about to block when the flag is signalled.
StopReturnsWhenWorkerAwake ==
  (mpc = "join" /\ wpc \notin {"park", "asleep"}) ~> mpc = "gone"

\* The connection implements the queue-free promise.
QS == INSTANCE QueryService WITH
        done <- Len(ran), answered <- Delivered, open <- mpc # "gone"
ServiceSpec == QS!Spec

-----------------------------------------------------------------------------
(* What the comments and the documentation say, and the code does not do   *)

\* "stop the worker (joins the thread) before destroying its Connection"
\* (MySQLComponent.cpp): closing a connection ends.
StopReturns == mpc = "join" ~> mpc = "gone"

\* "a given MYSQL* is only ever touched by one thread" (QueryQueue.hpp).
OneThreadPerConnection == ~(mpc = "direct" /\ wpc = "run")

\* mysql_pending_count is the "number of queries still queued/in-flight"
\* (omp-mysql.inc): it is 0 once every job submitted was answered.
PendingCountCurrent == (mpc = "script" /\ Jobs \subseteq Delivered) => pending = 0
=============================================================================
