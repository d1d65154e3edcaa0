---------------------------- MODULE QueryGuards ----------------------------
(***************************************************************************)
(* The query guards (MySQLComponent.cpp: checkGuards and its callers):     *)
(* length cap, stacked statements, backpressure and the sliding-window     *)
(* rate limit, which scripts switch on, off and over at run time.          *)
(*                                                                         *)
(* A map entry that is absent reads as the default, as operator[] does.    *)
(***************************************************************************)
EXTENDS Naturals, Sequences, FiniteSets

CONSTANTS
  MaxHandle,     \* bound on the connection handles
  Window,        \* rateWindow
  DefaultLength, \* the default of maxQueryLength
  Sizes,         \* how long queries are
  Caps,          \* what scripts set the limits to; 0 means no limit
  MaxTime,       \* bound on the clock
  MaxAccepted    \* bound on the queries accepted of a connection

ASSUME QueryGuardsAssumption ==
  /\ MaxHandle \in Nat /\ Window \in Nat /\ DefaultLength \in Nat /\ MaxTime \in Nat /\ MaxAccepted \in Nat
  /\ Caps \subseteq Nat /\ Sizes \subseteq Nat

Handles == 1..MaxHandle

VARIABLES
  now,        \* steady_clock
  workers,    \* the handles in workers_ and guards_
  nextHandle, \* nextHandle_
  multi,      \* the handles multiStatementAllowed_ has as true
  guards,     \* guards_
  rateLog,    \* rateLog_
  pending,    \* pending_ of each worker
  unanswered, \* history: the jobs of each worker that are not completed
  limited,    \* history: the queries accepted under a rate limit, when and under which
  enqueued,   \* history: when queries were accepted at all
  crowded,    \* history: a query was accepted at the pending limit
  rejected    \* history: the last query a guard rejected, and was it reported?

settings == <<nextHandle, multi, guards>>
history == <<limited, enqueued, unanswered, crowded, rejected>>
vars == <<now, workers, settings, rateLog, pending, history>>

Default == [maxQueryLength |-> DefaultLength, maxQueriesPerWindow |-> 0, maxPendingQueries |-> 0]
None == [by |-> "none", reported |-> TRUE]

\* Who submits: mysql_execute and its variants, their synchronous forms, mysql_stmt_execute
\* and the model natives.
Natives == {"execute", "sync", "statement", "model"}
Queries == [by : Natives, size : Sizes, stacked : BOOLEAN]

Init ==
  /\ now = 0
  /\ workers = {} /\ nextHandle = 1 /\ multi = {}
  /\ guards = [h \in Handles |-> Default]
  /\ rateLog = [h \in Handles |-> <<>>]
  /\ pending = [h \in Handles |-> 0] /\ unanswered = [h \in Handles |-> 0]
  /\ limited = [h \in Handles |-> <<>>] /\ enqueued = [h \in Handles |-> <<>>]
  /\ crowded = FALSE
  /\ rejected = None

-----------------------------------------------------------------------------
(* The guards                                                              *)

TooLong(h, q) ==
  /\ q.by # "statement"
  /\ guards[h].maxQueryLength # 0 /\ q.size > guards[h].maxQueryLength

MultiStatement(h, q) == q.by # "statement" /\ h \notin multi /\ q.stacked

TooManyPending(h) ==
  guards[h].maxPendingQueries # 0 /\ pending[h] >= guards[h].maxPendingQueries

\* What the first three guards say; the fourth is reached only if they agree.
Admitted(h, q) == ~TooLong(h, q) /\ ~MultiStatement(h, q) /\ ~TooManyPending(h)

Limit(h) == guards[h].maxQueriesPerWindow
Stale(t) == t + Window < now

\* Popping the front of the log while it is stale stops after n entries.
Pops(log, n) ==
  /\ n \in 0..Len(log)
  /\ \A i \in 1..n : Stale(log[i])
  /\ n < Len(log) => ~Stale(log[n + 1])

Trimmed(log, n) == SubSeq(log, n + 1, Len(log))

\* Variant: one more than the limit fits in the log.
FullOffByOne(log, h) == Len(log) > Limit(h)

Full(log, h) == Len(log) >= Limit(h)

-----------------------------------------------------------------------------
(* Natives                                                                 *)

\* A synchronous native waits for its job, which is behind all others; the worker may
\* not have counted it out yet.
Waited(h) ==
  /\ \E n \in 0..1 : pending' = [pending EXCEPT ![h] = n]
  /\ unanswered' = [unanswered EXCEPT ![h] = 0]

Queued(h) ==
  /\ pending' = [pending EXCEPT ![h] = @ + 1]
  /\ unanswered' = [unanswered EXCEPT ![h] = @ + 1]

\* What becomes of an accepted query.
Accepted(h, q) ==
  /\ IF q.by = "sync" THEN Waited(h) ELSE Queued(h)
  /\ crowded' = (crowded \/ (guards[h].maxPendingQueries # 0
                              /\ unanswered[h] + 1 > guards[h].maxPendingQueries))
  /\ enqueued' = [enqueued EXCEPT ![h] = Append(@, now)]
  /\ rejected' = None

\* ReportGuardReject and ReportSyncReject; ModelExecute does not ask for the reason.
Rejected(q) ==
  /\ rejected' = [by |-> q.by, reported |-> q.by # "model"]
  /\ UNCHANGED <<pending, unanswered, crowded, enqueued, limited>>

Submitting(h) == h \in workers /\ Len(enqueued[h]) < MaxAccepted

\* Without a rate limit the log is left alone.
SubmitUnlimited(h, q) ==
  /\ Submitting(h) /\ Admitted(h, q) /\ Limit(h) = 0
  /\ Accepted(h, q)
  /\ UNCHANGED <<now, workers, settings, rateLog, limited>>

SubmitLimited(h, q) ==
  /\ Submitting(h) /\ Admitted(h, q) /\ Limit(h) # 0
  /\ \E n \in 0..Len(rateLog[h]) :
       LET log == Trimmed(rateLog[h], n) IN
       /\ Pops(rateLog[h], n)
       /\ ~Full(log, h)
       /\ rateLog' = [rateLog EXCEPT ![h] = Append(log, now)]
  /\ limited' = [limited EXCEPT ![h] = Append(@, [at |-> now, limit |-> Limit(h)])]
  /\ Accepted(h, q)
  /\ UNCHANGED <<now, workers, settings>>

\* The rate limit rejects: the log is trimmed all the same.
SubmitOverLimit(h, q) ==
  /\ Submitting(h) /\ Admitted(h, q) /\ Limit(h) # 0
  /\ \E n \in 0..Len(rateLog[h]) :
       LET log == Trimmed(rateLog[h], n) IN
       /\ Pops(rateLog[h], n)
       /\ Full(log, h)
       /\ rateLog' = [rateLog EXCEPT ![h] = log]
  /\ Rejected(q)
  /\ UNCHANGED <<now, workers, settings>>

\* Another guard rejects.
SubmitRefused(h, q) ==
  /\ Submitting(h) /\ ~Admitted(h, q)
  /\ Rejected(q)
  /\ UNCHANGED <<now, workers, settings, rateLog>>

\* mysql_set_limit
SetLimit(h, guard, cap) ==
  /\ h \in workers
  /\ guards' = [guards EXCEPT ![h][guard] = cap]
  /\ UNCHANGED <<now, workers, nextHandle, multi, rateLog, pending, history>>

\* addConnection
Connect(multiStatements) ==
  /\ nextHandle \in Handles
  /\ workers' = workers \union {nextHandle}
  /\ nextHandle' = nextHandle + 1
  /\ multi' = IF multiStatements THEN multi \union {nextHandle} ELSE multi \ {nextHandle}
  /\ guards' = [guards EXCEPT ![nextHandle] = Default]
  /\ pending' = [pending EXCEPT ![nextHandle] = 0]
  /\ unanswered' = [unanswered EXCEPT ![nextHandle] = 0]
  /\ limited' = [limited EXCEPT ![nextHandle] = <<>>]
  /\ enqueued' = [enqueued EXCEPT ![nextHandle] = <<>>]
  /\ UNCHANGED <<now, rateLog, crowded, rejected>>

\* Variant: the permission for stacked statements outlives the connection.
CloseKeepingPermission(h) ==
  /\ h \in workers
  /\ workers' = workers \ {h} /\ multi' = multi
  /\ guards' = [guards EXCEPT ![h] = Default]
  /\ rateLog' = [rateLog EXCEPT ![h] = <<>>]
  /\ UNCHANGED <<now, nextHandle, pending, history>>

\* removeConnection
Close(h) ==
  /\ h \in workers
  /\ workers' = workers \ {h} /\ multi' = multi \ {h}
  /\ guards' = [guards EXCEPT ![h] = Default]
  /\ rateLog' = [rateLog EXCEPT ![h] = <<>>]
  /\ UNCHANGED <<now, nextHandle, pending, history>>

\* reset(), a gamemode restart: clearConnections, and handles start again at 1.
Reset ==
  /\ workers' = {} /\ multi' = {} /\ nextHandle' = 1
  /\ guards' = [h \in Handles |-> Default]
  /\ rateLog' = [h \in Handles |-> <<>>]
  /\ UNCHANGED <<now, pending, history>>

-----------------------------------------------------------------------------
(* The worker and the clock                                                *)

\* A job is completed ...
Answer(h) ==
  /\ h \in workers /\ unanswered[h] > 0
  /\ unanswered' = [unanswered EXCEPT ![h] = @ - 1]
  /\ UNCHANGED <<now, workers, settings, rateLog, pending, limited, enqueued, crowded, rejected>>

\* Variant: the worker counts jobs out as it takes them.
UncountEarly(h) ==
  /\ h \in workers /\ pending[h] > 0
  /\ pending' = [pending EXCEPT ![h] = @ - 1]
  /\ UNCHANGED <<now, workers, settings, rateLog, history>>

\* ... and then counted out.
Uncount(h) ==
  /\ h \in workers /\ pending[h] > unanswered[h]
  /\ pending' = [pending EXCEPT ![h] = @ - 1]
  /\ UNCHANGED <<now, workers, settings, rateLog, history>>

Advance ==
  /\ now < MaxTime
  /\ now' = now + 1
  /\ UNCHANGED <<workers, settings, rateLog, pending, history>>

Submit(h, q) ==
  SubmitUnlimited(h, q) \/ SubmitLimited(h, q) \/ SubmitOverLimit(h, q) \/ SubmitRefused(h, q)

Next ==
  \/ \E h \in Handles :
       \/ \E q \in Queries : Submit(h, q)
       \/ \E guard \in DOMAIN Default, cap \in Caps : SetLimit(h, guard, cap)
       \/ Close(h) \/ Answer(h) \/ Uncount(h)
  \/ \E multiStatements \in BOOLEAN : Connect(multiStatements)
  \/ Reset
  \/ Advance

Spec == Init /\ [][Next]_vars

-----------------------------------------------------------------------------
(* What is promised                                                        *)

\* Types; only open connections may send stacked statements.
TypeOK ==
  /\ now \in Nat /\ nextHandle \in Nat \ {0}
  /\ workers \subseteq Handles /\ multi \subseteq workers
  /\ guards \in [Handles -> [DOMAIN Default -> Nat]]
  /\ rateLog \in [Handles -> Seq(Nat)]
  /\ limited \in [Handles -> Seq([at : Nat, limit : Nat \ {0}])]
  /\ enqueued \in [Handles -> Seq(Nat)]
  /\ pending \in [Handles -> Nat] /\ unanswered \in [Handles -> Nat]
  /\ crowded \in BOOLEAN
  /\ rejected \in [by : Natives \union {"none"}, reported : BOOLEAN]

\* However limits change, a query accepted under a limit of n comes more than a window
\* after the n-th query before it that was accepted under any limit.
RateLimitHolds ==
  \A h \in workers : \A j \in DOMAIN limited[h] :
    LET n == limited[h][j].limit
    IN n < j => limited[h][j - n].at + Window < limited[h][j].at

\* The log of a connection is what is left of the queries accepted under a limit on this
\* very connection: rejected queries cost nothing, and no earlier connection with the
\* same handle left anything.
LogIsRecent ==
  \A h \in workers :
    LET gone == Len(limited[h]) - Len(rateLog[h]) IN
    /\ Len(rateLog[h]) <= Len(limited[h])
    /\ \A i \in DOMAIN rateLog[h] : rateLog[h][i] = limited[h][gone + i].at

\* The limiter lets no query too many through and charges for none it should not.
RateLimitIsExact == RateLimitHolds /\ LogIsRecent

\* No query is accepted while as many as the limit wait for their answer, although the
\* worker counts jobs out concurrently.
BackpressureHolds == ~crowded

-----------------------------------------------------------------------------
(* What the comments and the documentation say, and the code does not do   *)

\* "Reject when more than maxQueriesPerWindow queries have been enqueued on a connection
\* within rateWindow" (MySQLComponent.hpp): the last query accepted under the limit now
\* in force is not one too many.
EnqueuedWithinWindow ==
  \A h \in workers :
    (limited[h] # <<>> /\ enqueued[h] # <<>>) =>
      LET last == limited[h][Len(limited[h])]
          Before == {i \in DOMAIN enqueued[h] : enqueued[h][i] + Window >= last.at}
      IN (enqueued[h][Len(enqueued[h])] = last.at /\ Limit(h) = last.limit)
           => Cardinality(Before) <= last.limit

\* "a rejected query never executes and (for async queries) reports via OnQueryError"
\* (omp-mysql.inc).
RejectionsReported == rejected.by # "sync" => rejected.reported
=============================================================================
