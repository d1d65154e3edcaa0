------------------------- MODULE PreparedStatement --------------------------
(***************************************************************************)
(* One prepared statement (Statement.cpp).  Scripts bind its parameters on *)
(* the main thread and submit executions; the connection's worker prepares *)
(* it on the first execution, stages the parameters and executes.  The two *)
(* threads share params_ and paramCount_ without a lock.                   *)
(*                                                                         *)
(* The reads and writes of the two threads are atomic here; a read outside *)
(* params_ yields any value, a write outside it is lost.                   *)
(***************************************************************************)
EXTENDS Naturals, Sequences, FiniteSets

CONSTANTS
  Values,        \* what scripts bind
  Null,          \* an unbound parameter, and SQL NULL
  ClientCounts,  \* how many placeholders CountPlaceholders may find in the query
  ServerParams,  \* parameters the server finds (mysql_stmt_param_count)
  MaxIndex,      \* bound on the parameter index scripts bind
  MaxExecutions  \* bound on the executions submitted

ASSUME PreparedStatementAssumption ==
  /\ ClientCounts \subseteq Nat /\ ServerParams \in Nat
  /\ MaxIndex \in Nat /\ MaxExecutions \in Nat
  /\ Null \notin Values

VARIABLES
  params,     \* params_
  paramCount, \* paramCount_
  prepared,   \* prepared_
  handle,     \* stmt_ : a MYSQL_STMT, or NoHandle
  binding,    \* the mysql_stmt_set_* the main thread is in
  queue,      \* the worker's queue: executions and the teardown
  wpc,        \* where the worker is in execute()
  size,       \* how long the worker made binds
  read,       \* the parameters staged into binds so far
  executed,   \* history: the last execution, what it was submitted and sent with
  submitted,  \* history: how many executions were submitted
  opened,     \* history: the MYSQL_STMTs ever allocated
  live,       \* history: those not closed yet
  ready,      \* history: those prepared on the server
  overlapped  \* history: a parameter was bound while an execution was outstanding

clientVars == <<params, paramCount>>
workerVars == <<wpc, size, read>>
handleVars == <<prepared, handle, opened, live, ready>>
histVars == <<executed, submitted, overlapped>>
vars == <<clientVars, binding, queue, workerVars, handleVars, histVars>>

Params == Values \union {Null}
NoHandle == 0
NoBind == [step |-> "none", index |-> 0, value |-> Null]
NeverExecuted == [submittedWith |-> <<>>, sentWith |-> <<>>]
Closing == \E i \in DOMAIN queue : queue[i].close

\* std::vector::resize: new parameters are Null.
Resized(s, n) == [i \in 1..n |-> IF i <= Len(s) THEN s[i] ELSE Null]

\* The constructor sizes params_ by the client's count.
Init ==
  /\ paramCount \in ClientCounts
  /\ params = Resized(<<>>, paramCount)
  /\ prepared = FALSE /\ handle = NoHandle
  /\ opened = 0 /\ live = {} /\ ready = {}
  /\ binding = NoBind
  /\ queue = <<>>
  /\ wpc = "idle" /\ size = 0 /\ read = <<>>
  /\ executed = NeverExecuted
  /\ submitted = 0
  /\ overlapped = FALSE

-----------------------------------------------------------------------------
(* Main thread                                                             *)

Outstanding == queue # <<>>

\* mysql_stmt_set_int, _float, _string, _null: ensureParam grows params_ ...
BeginBind(i, v) ==
  /\ binding = NoBind /\ ~Closing /\ wpc # "closed"
  /\ params' = IF i > Len(params) THEN Resized(params, i) ELSE params
  /\ binding' = [step |-> IF i > Len(params) /\ i > paramCount THEN "count" ELSE "write",
                 index |-> i, value |-> v]
  /\ overlapped' = (overlapped \/ Outstanding)
  /\ UNCHANGED <<paramCount, queue, workerVars, handleVars, executed, submitted>>

\* ... and paramCount_, which it compared before ...
Count ==
  /\ binding.step = "count"
  /\ paramCount' = binding.index
  /\ binding' = [binding EXCEPT !.step = "write"]
  /\ UNCHANGED <<params, queue, workerVars, handleVars, histVars>>

\* ... and the parameter is set.
Write ==
  /\ binding.step = "write"
  /\ params' = [i \in DOMAIN params |-> IF i = binding.index THEN binding.value ELSE params[i]]
  /\ binding' = NoBind
  /\ UNCHANGED <<paramCount, queue, workerVars, handleVars, histVars>>

\* mysql_stmt_execute: the job borrows the statement and carries no parameters.
Execute ==
  /\ binding = NoBind /\ ~Closing /\ wpc # "closed" /\ submitted < MaxExecutions
  /\ queue' = Append(queue, [close |-> FALSE, staged |-> params])
  /\ submitted' = submitted + 1
  /\ UNCHANGED <<clientVars, binding, workerVars, handleVars, executed, overlapped>>

\* mysql_stmt_close: a teardown job behind the executions.
Close ==
  /\ binding = NoBind /\ ~Closing /\ wpc # "closed"
  /\ queue' = Append(queue, [close |-> TRUE, staged |-> <<>>])
  /\ UNCHANGED <<clientVars, binding, workerVars, handleVars, histVars>>

-----------------------------------------------------------------------------
(* Worker thread.  The job it works on stays at the head of queue.         *)

\* The job is done, with or without success.
Finish == wpc' = "idle" /\ queue' = Tail(queue) /\ size' = 0 /\ read' = <<>>

Begin ==
  /\ wpc = "idle" /\ queue # <<>> /\ ~Head(queue).close
  /\ wpc' = IF prepared THEN "size" ELSE "init"
  /\ UNCHANGED <<clientVars, binding, queue, size, read, handleVars, histVars>>

\* mysql_stmt_init; stmt_ is overwritten.
InitHandle ==
  /\ wpc = "init"
  /\ opened' = opened + 1
  /\ handle' = opened + 1
  /\ live' = live \union {opened + 1}
  /\ wpc' = "prepare"
  /\ UNCHANGED <<clientVars, binding, queue, size, read, prepared, ready, histVars>>

\* Variant: the NULL of mysql_stmt_init is not looked at.
InitUnchecked ==
  /\ wpc = "init"
  /\ handle' = NoHandle
  /\ wpc' = "prepare"
  /\ UNCHANGED <<clientVars, binding, queue, size, read, prepared, opened, live, ready, histVars>>

\* mysql_stmt_init returned NULL.
InitFails ==
  /\ wpc = "init"
  /\ handle' = NoHandle
  /\ Finish
  /\ UNCHANGED <<clientVars, binding, prepared, opened, live, ready, histVars>>

\* mysql_stmt_prepare failed: the handle stays in stmt_.
PrepareFails ==
  /\ wpc = "prepare"
  /\ Finish
  /\ UNCHANGED <<clientVars, binding, handleVars, histVars>>

\* Variant: the server's parameter count is not looked at.
PrepareTrustingClient ==
  /\ wpc = "prepare"
  /\ ready' = ready \union {handle}
  /\ wpc' = "prepared"
  /\ UNCHANGED <<clientVars, binding, queue, size, read, prepared, handle, opened, live, histVars>>

\* mysql_stmt_prepare, and the first half of the reconciliation.
Prepare ==
  /\ wpc = "prepare"
  /\ ready' = ready \union {handle}
  /\ paramCount' = ServerParams
  /\ wpc' = IF paramCount = ServerParams THEN "prepared" ELSE "resize"
  /\ UNCHANGED <<params, binding, queue, size, read, prepared, handle, opened, live, histVars>>

\* Variant: the reconciliation starts over with an empty vector.
ResizeFromScratch ==
  /\ wpc = "resize"
  /\ params' = Resized(<<>>, paramCount)
  /\ wpc' = "prepared"
  /\ UNCHANGED <<paramCount, binding, queue, size, read, handleVars, histVars>>

\* params_.resize(paramCount_), with paramCount_ read again.
Resize ==
  /\ wpc = "resize"
  /\ params' = Resized(params, paramCount)
  /\ wpc' = "prepared"
  /\ UNCHANGED <<paramCount, binding, queue, size, read, handleVars, histVars>>

MarkPrepared ==
  /\ wpc = "prepared"
  /\ prepared' = TRUE
  /\ wpc' = "size"
  /\ UNCHANGED <<clientVars, binding, queue, size, read, handle, opened, live, ready, histVars>>

\* binds(paramCount_)
SizeBinds ==
  /\ wpc = "size"
  /\ size' = paramCount
  /\ wpc' = "stage"
  /\ UNCHANGED <<clientVars, binding, queue, read, handleVars, histVars>>

\* One turn of the staging loop, whose condition reads paramCount_ again.
Stage ==
  /\ wpc = "stage" /\ Len(read) < paramCount
  /\ \E v \in Params :
       /\ Len(read) < Len(params) => v = params[Len(read) + 1]
       /\ read' = Append(read, v)
  /\ UNCHANGED <<clientVars, binding, queue, wpc, size, handleVars, histVars>>

\* mysql_stmt_bind_param copies as many binds as the server has parameters, and
\* mysql_stmt_execute sends them; beyond binds there is any value.  A string is staged
\* by its address, so what is sent of a parameter bound since is any value, too.
Send ==
  /\ wpc = "stage" /\ Len(read) >= paramCount
  /\ \E sent \in [1..ServerParams -> Params] :
       /\ \A i \in 1..ServerParams \intersect DOMAIN read :
            i \in DOMAIN params /\ params[i] = read[i] => sent[i] = read[i]
       /\ executed' = [submittedWith |-> Head(queue).staged, sentWith |-> sent]
  /\ Finish
  /\ UNCHANGED <<clientVars, binding, handleVars, submitted, overlapped>>

\* mysql_stmt_bind_param or mysql_stmt_execute failed.
SendFails ==
  /\ wpc = "stage" /\ Len(read) >= paramCount
  /\ Finish
  /\ UNCHANGED <<clientVars, binding, handleVars, histVars>>

\* ~PreparedStatement, run by the teardown job.
Destroy ==
  /\ wpc = "idle" /\ queue # <<>> /\ Head(queue).close
  /\ live' = live \ {handle}
  /\ handle' = NoHandle
  /\ queue' = Tail(queue)
  /\ wpc' = "closed"
  /\ UNCHANGED <<clientVars, binding, size, read, prepared, opened, ready, histVars>>

-----------------------------------------------------------------------------
Bind == (\E i \in 1..MaxIndex, v \in Params : BeginBind(i, v)) \/ Count \/ Write
Preparing == InitHandle \/ InitFails \/ Prepare \/ PrepareFails \/ Resize \/ MarkPrepared
Worker == Begin \/ Preparing \/ SizeBinds \/ Stage \/ Send \/ SendFails \/ Destroy

\* The statement is gone: nothing is left to do.
Finished == wpc = "closed" /\ UNCHANGED vars

Next == Bind \/ Execute \/ Close \/ Worker \/ Finished
Spec == Init /\ [][Next]_vars

-----------------------------------------------------------------------------
(* What is promised                                                        *)

\* Every variable has its type; the worker's array is never longer than the largest
\* count it can have read.
TypeOK ==
  /\ params \in Seq(Params) /\ read \in Seq(Params)
  /\ paramCount \in Nat /\ size \in Nat
  /\ prepared \in BOOLEAN /\ overlapped \in BOOLEAN
  /\ handle \in 0..opened /\ live \subseteq 1..opened /\ ready \subseteq 1..opened
  /\ wpc \in {"idle", "init", "prepare", "resize", "prepared", "size", "stage", "closed"}
  /\ wpc \in {"prepare", "resize", "prepared", "size", "stage"} => handle \in live
  /\ submitted \in 0..MaxExecutions
  /\ Cardinality(ready) <= 1 /\ (prepared /\ wpc # "closed" => ready = {handle})

\* The parameters an execution must send: those staged when it was submitted, Null for
\* the ones the server has and the script never bound.
ItsBinds == executed.sentWith = Resized(executed.submittedWith, ServerParams)

\* If scripts wait for an execution before they bind again, every execution sends the
\* parameters bound when it was submitted, also when CountPlaceholders miscounted.
CalmExecutionsSendTheirBinds == ~overlapped /\ executed # NeverExecuted => ItsBinds

\* If scripts wait, the worker stages as many parameters as it sized binds for, reads
\* none outside params_, and has one for each the server expects.
CalmStagingInBounds ==
  ~overlapped /\ wpc = "stage" =>
    /\ paramCount = size
    /\ paramCount = Len(params)
    /\ paramCount >= ServerParams

-----------------------------------------------------------------------------
(* What the comments and the documentation say, and the code does not do   *)

\* "Re-bind and execute again to reuse the statement cheaply" (omp-mysql.inc): an
\* execution sends the parameters bound when it was submitted.
ExecutionsSendTheirBinds == executed # NeverExecuted => ItsBinds

\* execute() trusts the server's count "so binds line up even if the parser miscounted"
\* (Statement.cpp): there is a bind for every parameter the server expects.
BindsLineUp == wpc = "stage" => paramCount >= ServerParams

\* "Free a prepared statement" (omp-mysql.inc): after the teardown no MYSQL_STMT of this
\* statement is left.
NothingLeftOpen == wpc = "closed" => live = {}
=============================================================================
