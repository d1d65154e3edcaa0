---------------------- MODULE PreparedStatementProofs ----------------------
(***************************************************************************)
(* Theorems about one prepared statement: types and the life of its        *)
(* MYSQL_STMT; and, for scripts that wait for an execution before they     *)
(* bind again, that the worker stages within bounds and sends what was     *)
(* bound, whatever the placeholders the parser counted.                    *)
(*                                                                         *)
(* A script that waits binds only while the queue is empty, so the two     *)
(* threads take turns: CalmInv says what each finds when its turn comes.   *)
(***************************************************************************)
EXTENDS PreparedStatement, SequenceTheorems, FiniteSetTheorems, TLAPS

Jobs == [close : BOOLEAN, staged : Seq(Params)]
Bindings == [step : {"none", "count", "write"}, index : Nat, value : Params]

Types ==
  /\ params \in Seq(Params) /\ read \in Seq(Params)
  /\ paramCount \in Nat /\ size \in Nat
  /\ prepared \in BOOLEAN /\ overlapped \in BOOLEAN
  /\ wpc \in {"idle", "init", "prepare", "resize", "prepared", "size", "stage", "closed"}
  /\ submitted \in 0..MaxExecutions
  /\ binding \in Bindings /\ queue \in Seq(Jobs)

\* The worker is in an execution at the head of the queue; a teardown is last, and after it
\* nothing is left.
LaneInv ==
  /\ wpc \notin {"idle", "closed"} => queue # <<>> /\ ~Head(queue).close
  /\ wpc = "closed" => queue = <<>>
  /\ wpc # "stage" => read = <<>>
  /\ \A i \in DOMAIN queue : queue[i].close => i = Len(queue)

\* The life of the statement on the server: nothing is prepared before the handle that
\* stays, and that is closed by the teardown only.
LifeInv ==
  /\ opened \in Nat /\ handle \in 0..opened
  /\ live \subseteq 1..opened /\ ready \subseteq 1..opened
  /\ wpc \in {"prepare", "resize", "prepared", "size", "stage"} => handle \in live
  /\ wpc \in {"init", "prepare", "resize", "prepared"} => ~prepared
  /\ wpc \in {"size", "stage"} => prepared
  /\ prepared /\ wpc # "closed" => handle \in live /\ ready = {handle}
  /\ wpc \in {"resize", "prepared"} => ready = {handle}
  /\ ~prepared /\ wpc \notin {"resize", "prepared"} => ready = {}
  /\ ready = {} \/ \E x \in 1..opened : ready = {x}

\* What an execution submitted with the one finds in the other.
Same(staged, ps) == Resized(staged, ServerParams) = Resized(ps, ServerParams)

QueuedBinds == \A i \in DOMAIN queue : ~queue[i].close => Same(queue[i].staged, params)

Staged == \A i \in DOMAIN read : i \in DOMAIN params /\ read[i] = params[i]

Calm ==
  /\ binding # NoBind => queue = <<>>
  /\ binding.step = "count" => paramCount <= binding.index /\ Len(params) = binding.index
  /\ binding.step # "count" /\ wpc # "resize" => Len(params) = paramCount
  /\ wpc = "resize" => paramCount = ServerParams
  /\ prepared \/ wpc = "prepared" => paramCount >= ServerParams
  /\ wpc = "stage" => size = paramCount /\ Staged
  /\ QueuedBinds
  /\ executed # NeverExecuted => ItsBinds

CalmInv == ~overlapped => Calm

IInv == Types /\ LaneInv /\ LifeInv /\ CalmInv

-----------------------------------------------------------------------------
(* Sequences *)

\* What std::vector::resize gives.
LEMMA ResizedFacts ==
  ASSUME NEW s \in Seq(Params), NEW n \in Nat
  PROVE  /\ Resized(s, n) \in Seq(Params) /\ Len(Resized(s, n)) = n
         /\ DOMAIN Resized(s, n) = 1..n
         /\ \A i \in 1..n : Resized(s, n)[i] = IF i <= Len(s) THEN s[i] ELSE Null
<1>1. \A i \in 1..n : (IF i <= Len(s) THEN s[i] ELSE Null) \in Params
  <2> SUFFICES ASSUME NEW i \in 1..n PROVE (IF i <= Len(s) THEN s[i] ELSE Null) \in Params
    OBVIOUS
  <2>1. CASE i <= Len(s)
    <3>1. i \in 1..Len(s)
      BY <2>1
    <3> QED BY <2>1, <3>1
  <2>2. CASE ~(i <= Len(s))
    BY <2>2 DEF Params
  <2> QED BY <2>1, <2>2
<1>2. Resized(s, n) \in [1..n -> Params]
  BY <1>1 DEF Resized
<1>3. Resized(s, n) \in Seq(Params)
  BY <1>2, SeqDef
<1>4. Len(Resized(s, n)) = n
  BY <1>2, <1>3, LenProperties
<1> QED BY <1>2, <1>3, <1>4 DEF Resized

\* Resizing twice to the server's count is resizing once.
LEMMA ResizedTwice ==
  ASSUME NEW s \in Seq(Params), ServerParams \in Nat
  PROVE  Same(Resized(s, ServerParams), s)
<1>1. Resized(s, ServerParams) \in Seq(Params) /\ Len(Resized(s, ServerParams)) = ServerParams
  BY ResizedFacts
<1>2. \A i \in 1..ServerParams :
        (IF i <= Len(Resized(s, ServerParams)) THEN Resized(s, ServerParams)[i] ELSE Null)
          = IF i <= Len(s) THEN s[i] ELSE Null
  <2>1. \A i \in 1..ServerParams :
          Resized(s, ServerParams)[i] = IF i <= Len(s) THEN s[i] ELSE Null
    BY ResizedFacts
  <2>2. \A i \in 1..ServerParams : i <= Len(Resized(s, ServerParams))
    BY <1>1
  <2> QED BY <2>1, <2>2
<1>3. Resized(Resized(s, ServerParams), ServerParams)
        = [i \in 1..ServerParams |-> IF i <= Len(s) THEN s[i] ELSE Null]
  BY <1>2 DEF Resized
<1> QED BY <1>3 DEF Same, Resized

LEMMA QueueGrows ==
  ASSUME NEW q \in Seq(Jobs), NEW j \in Jobs
  PROVE  /\ Append(q, j) \in Seq(Jobs) /\ Append(q, j) # <<>>
         /\ Len(Append(q, j)) = Len(q) + 1 /\ Len(q) \in Nat
         /\ DOMAIN Append(q, j) = 1..Len(q) + 1 /\ DOMAIN q = 1..Len(q)
         /\ \A i \in 1..Len(q) : Append(q, j)[i] = q[i]
         /\ Append(q, j)[Len(q) + 1] = j
<1>1. /\ Append(q, j) \in Seq(Jobs) /\ Len(Append(q, j)) = Len(q) + 1 /\ Len(q) \in Nat
      /\ \A i \in 1..Len(q) : Append(q, j)[i] = q[i]
      /\ Append(q, j)[Len(q) + 1] = j
  BY AppendProperties, LenProperties
<1>2. DOMAIN Append(q, j) = 1..Len(Append(q, j)) /\ DOMAIN q = 1..Len(q)
  BY <1>1, LenProperties
<1>3. Append(q, j) # <<>>
  BY <1>1
<1> QED BY <1>1, <1>2, <1>3

LEMMA QueueShrinks ==
  ASSUME NEW q \in Seq(Jobs), q # <<>>
  PROVE  /\ Tail(q) \in Seq(Jobs) /\ Len(Tail(q)) = Len(q) - 1 /\ Len(q) \in Nat /\ Len(q) > 0
         /\ DOMAIN Tail(q) = 1..Len(q) - 1 /\ DOMAIN q = 1..Len(q)
         /\ \A i \in 1..Len(q) - 1 : Tail(q)[i] = q[i + 1]
         /\ Head(q) = q[1] /\ q[1] \in Jobs /\ 1 \in DOMAIN q
<1>1. /\ Tail(q) \in Seq(Jobs) /\ Len(Tail(q)) = Len(q) - 1 /\ Len(q) \in Nat /\ Len(q) > 0
      /\ \A i \in 1..Len(q) - 1 : Tail(q)[i] = q[i + 1]
      /\ Head(q) = q[1] /\ q[1] \in Jobs
  OBVIOUS
<1>2. DOMAIN Tail(q) = 1..Len(Tail(q)) /\ DOMAIN q = 1..Len(q)
  BY <1>1, LenProperties
<1>3. 1 \in 1..Len(q)
  BY <1>1
<1> QED BY <1>1, <1>2, <1>3

-----------------------------------------------------------------------------
(* Types *)

LEMMA InitTypes == Init => Types
<1> SUFFICES ASSUME Init PROVE Types
  OBVIOUS
<1> USE PreparedStatementAssumption
<1>1. prepared \in BOOLEAN /\ overlapped \in BOOLEAN
  BY Zenon DEF Init
<1>2. /\ paramCount \in Nat /\ read \in Seq(Params) /\ size \in Nat /\ queue \in Seq(Jobs)
      /\ wpc = "idle" /\ submitted = 0 /\ binding = NoBind
  BY DEF Init
<1>3. <<>> \in Seq(Params) /\ params = Resized(<<>>, paramCount)
  BY DEF Init
<1>4. params \in Seq(Params)
  BY <1>2, <1>3, ResizedFacts
<1>5. binding \in Bindings
  BY <1>2 DEF NoBind, Bindings, Params
<1> QED BY <1>1, <1>2, <1>4, <1>5 DEF Types

LEMMA BindTypes == Types /\ Bind => Types'
<1> SUFFICES ASSUME Types, Bind PROVE Types'
  OBVIOUS
<1>1. CASE \E i \in 1..MaxIndex, v \in Params : BeginBind(i, v)
  <2>1. PICK i \in 1..MaxIndex, v \in Params : BeginBind(i, v)
    BY <1>1
  <2>2. i \in Nat
    BY PreparedStatementAssumption
  <2>3. params' \in Seq(Params)
    <3>1. Resized(params, i) \in Seq(Params)
      BY <2>2, ResizedFacts DEF Types
    <3> QED BY <2>1, <3>1 DEF BeginBind, Types
  <2>4. binding' \in Bindings
    <3>1. binding' = [step |-> IF i > Len(params) /\ i > paramCount THEN "count" ELSE "write",
                      index |-> i, value |-> v]
      BY <2>1 DEF BeginBind
    <3> QED BY <2>2, <3>1 DEF Bindings
  <2>5. overlapped' \in BOOLEAN
    BY <2>1, Zenon DEF BeginBind
  <2>6. UNCHANGED <<read, paramCount, size, prepared, wpc, submitted, queue>>
    BY <2>1 DEF BeginBind, workerVars, handleVars
  <2> QED BY <2>3, <2>4, <2>5, <2>6 DEF Types
<1>2. CASE Count
  <2>1. binding.index \in Nat /\ [binding EXCEPT !.step = "write"] \in Bindings
    BY DEF Types, Bindings
  <2> QED BY <1>2, <2>1 DEF Count, Types, workerVars, handleVars, histVars
<1>3. CASE Write
  <2>1. params' = [i \in DOMAIN params |-> IF i = binding.index THEN binding.value ELSE params[i]]
    BY <1>3 DEF Write
  <2>2. DOMAIN params = 1..Len(params) /\ Len(params) \in Nat /\ \A i \in DOMAIN params : params[i] \in Params
    BY LenProperties DEF Types
  <2>3. binding.value \in Params
    BY DEF Types, Bindings
  <2>4. params' \in [1..Len(params) -> Params]
    BY <2>1, <2>2, <2>3
  <2>5. params' \in Seq(Params)
    BY <2>2, <2>4, SeqDef
  <2>6. binding' \in Bindings
    BY <1>3 DEF Write, NoBind, Bindings, Params
  <2> QED BY <1>3, <2>5, <2>6 DEF Write, Types, workerVars, handleVars, histVars
<1> QED BY <1>1, <1>2, <1>3 DEF Bind

LEMMA SubmitTypes == Types /\ (Execute \/ Close) => Types'
<1> SUFFICES ASSUME Types, Execute \/ Close PROVE Types'
  OBVIOUS
<1>1. CASE Execute
  <2>1. [close |-> FALSE, staged |-> params] \in Jobs
    <3>1. params \in Seq(Params)
      BY DEF Types
    <3> QED BY <3>1, Zenon DEF Jobs
  <2>2. queue' \in Seq(Jobs)
    BY <1>1, <2>1, QueueGrows DEF Execute, Types
  <2>3. submitted' \in 0..MaxExecutions
    BY <1>1, PreparedStatementAssumption DEF Execute, Types
  <2> QED BY <1>1, <2>2, <2>3 DEF Execute, Types, clientVars, workerVars, handleVars
<1>2. CASE Close
  <2>1. [close |-> TRUE, staged |-> <<>>] \in Jobs
    <3>1. <<>> \in Seq(Params)
      OBVIOUS
    <3> QED BY <3>1, Zenon DEF Jobs
  <2>2. queue' \in Seq(Jobs)
    BY <1>2, <2>1, QueueGrows DEF Close, Types
  <2> QED BY <1>2, <2>2 DEF Close, Types, clientVars, workerVars, handleVars, histVars
<1> QED BY <1>1, <1>2

LEMMA WorkerTypes == Types /\ LaneInv /\ Worker => Types'
<1> SUFFICES ASSUME Types, LaneInv, Worker PROVE Types'
  OBVIOUS
<1>1. ASSUME Finish, queue # <<>>,
             UNCHANGED <<params, paramCount, binding, prepared, submitted, overlapped>>
      PROVE  Types'
  <2>1. /\ queue' \in Seq(Jobs) /\ read' \in Seq(Params) /\ wpc' = "idle" /\ size' = 0
    BY <1>1, QueueShrinks DEF Types, Finish
  <2> QED BY <1>1, <2>1 DEF Types
<1>2. CASE Begin
  BY <1>2 DEF Begin, Types, clientVars, handleVars, histVars
<1>3. CASE InitHandle
  BY <1>3 DEF InitHandle, Types, clientVars, histVars
<1>4. CASE InitFails \/ PrepareFails \/ Send \/ SendFails
  BY <1>1, <1>4 DEF InitFails, PrepareFails, Send, SendFails, LaneInv, clientVars, handleVars,
                    histVars
<1>5. CASE Prepare
  BY <1>5, PreparedStatementAssumption DEF Prepare, Types, histVars
<1>6. CASE Resize
  <2>1. params' \in Seq(Params)
    BY <1>6, ResizedFacts DEF Resize, Types
  <2> QED BY <1>6, <2>1 DEF Resize, Types, handleVars, histVars
<1>7. CASE MarkPrepared
  <2>1. prepared' \in BOOLEAN
    BY <1>7, Zenon DEF MarkPrepared
  <2> QED BY <1>7, <2>1 DEF MarkPrepared, Types, clientVars, histVars
<1>8. CASE SizeBinds
  BY <1>8 DEF SizeBinds, Types, clientVars, handleVars, histVars
<1>9. CASE Stage
  <2>1. read' \in Seq(Params)
    <3>1. PICK v \in Params : read' = Append(read, v)
      BY <1>9 DEF Stage
    <3> QED BY <3>1, AppendProperties DEF Types
  <2> QED BY <1>9, <2>1 DEF Stage, Types, clientVars, handleVars, histVars
<1>10. CASE Destroy
  <2>1. queue' \in Seq(Jobs)
    BY <1>10, QueueShrinks DEF Destroy, Types
  <2> QED BY <1>10, <2>1 DEF Destroy, Types, clientVars, histVars
<1> QED BY <1>2, <1>3, <1>4, <1>5, <1>6, <1>7, <1>8, <1>9, <1>10 DEF Worker, Preparing

LEMMA TypeInductive == Types /\ LaneInv /\ [Next]_vars => Types'
<1> SUFFICES ASSUME Types, LaneInv, [Next]_vars PROVE Types'
  OBVIOUS
<1>1. CASE Bind
  BY <1>1, BindTypes
<1>2. CASE Execute \/ Close
  BY <1>2, SubmitTypes
<1>3. CASE Worker
  BY <1>3, WorkerTypes
<1>4. CASE UNCHANGED vars
  BY <1>4 DEF vars, Types, clientVars, workerVars, handleVars, histVars
<1> QED BY <1>1, <1>2, <1>3, <1>4 DEF Next, Finished

-----------------------------------------------------------------------------
(* The queue and the life of the statement *)

LEMMA LaneInductive == Types /\ LaneInv /\ [Next]_vars => LaneInv'
<1> SUFFICES ASSUME Types, LaneInv, [Next]_vars PROVE LaneInv'
  OBVIOUS
<1>1. ASSUME UNCHANGED <<wpc, read, queue>> PROVE LaneInv'
  BY <1>1 DEF LaneInv
<1>2. CASE Bind
  BY <1>1, <1>2 DEF Bind, BeginBind, Count, Write, workerVars
<1>3. ASSUME NEW j \in Jobs, queue' = Append(queue, j), ~Closing, wpc # "closed",
             UNCHANGED <<wpc, read>>
      PROVE  LaneInv'
  <2>1. /\ queue' # <<>> /\ Len(queue') = Len(queue) + 1
        /\ DOMAIN queue' = 1..Len(queue) + 1 /\ DOMAIN queue = 1..Len(queue)
        /\ \A i \in 1..Len(queue) : queue'[i] = queue[i]
    BY <1>3, QueueGrows DEF Types
  <2>2. \A i \in DOMAIN queue : ~queue[i].close
    BY <1>3 DEF Closing
  <2>3. Len(queue) \in Nat
    BY DEF Types
  <2>4. \A i \in DOMAIN queue' : queue'[i].close => i = Len(queue')
    <3> SUFFICES ASSUME NEW i \in DOMAIN queue', queue'[i].close, i # Len(queue')
                 PROVE  FALSE
      OBVIOUS
    <3>1. i \in 1..Len(queue)
      BY <2>1, <2>3
    <3> QED BY <2>1, <2>2, <3>1
  <2>5. queue # <<>> => Head(queue') = Head(queue)
    BY <2>1, <2>3, <1>3, QueueGrows DEF Types
  <2> QED BY <1>3, <2>1, <2>4, <2>5 DEF LaneInv
<1>4. CASE Execute
  <2>1. [close |-> FALSE, staged |-> params] \in Jobs
    <3>1. params \in Seq(Params)
      BY DEF Types
    <3> QED BY <3>1, Zenon DEF Jobs
  <2> QED BY <1>3, <1>4, <2>1 DEF Execute, workerVars
<1>5. CASE Close
  <2>1. [close |-> TRUE, staged |-> <<>>] \in Jobs
    <3>1. <<>> \in Seq(Params)
      OBVIOUS
    <3> QED BY <3>1, Zenon DEF Jobs
  <2> QED BY <1>3, <1>5, <2>1 DEF Close, workerVars
<1>6. ASSUME queue # <<>>, queue' = Tail(queue), read' = <<>>,
             wpc' = "idle" \/ (wpc' = "closed" /\ Head(queue).close)
      PROVE  LaneInv'
  <2>1. /\ Len(queue') = Len(queue) - 1 /\ Len(queue) \in Nat /\ Len(queue) > 0
        /\ DOMAIN queue' = 1..Len(queue) - 1 /\ DOMAIN queue = 1..Len(queue)
        /\ \A i \in 1..Len(queue) - 1 : queue'[i] = queue[i + 1]
        /\ Head(queue) = queue[1] /\ 1 \in DOMAIN queue /\ queue' \in Seq(Jobs)
    BY <1>6, QueueShrinks DEF Types
  <2>2. \A i \in DOMAIN queue' : queue'[i].close => i = Len(queue')
    <3> SUFFICES ASSUME NEW i \in DOMAIN queue', queue'[i].close
                 PROVE  i = Len(queue')
      OBVIOUS
    <3>1. i + 1 \in DOMAIN queue /\ queue[i + 1].close
      BY <2>1
    <3>2. i + 1 = Len(queue)
      BY <3>1 DEF LaneInv
    <3> QED BY <2>1, <3>2
  <2>3. Head(queue).close => queue' = <<>>
    <3>1. Head(queue).close => Len(queue') = 0
      BY <2>1 DEF LaneInv
    <3> QED BY <2>1, <3>1
  <2> QED BY <1>6, <2>2, <2>3 DEF LaneInv
<1>7. CASE InitFails \/ PrepareFails \/ Send \/ SendFails
  BY <1>6, <1>7 DEF InitFails, PrepareFails, Send, SendFails, Finish, LaneInv
<1>8. CASE Destroy
  <2>1. read' = <<>>
    BY <1>8 DEF Destroy, LaneInv
  <2> QED BY <1>6, <1>8, <2>1 DEF Destroy
<1>9. CASE Begin \/ InitHandle \/ Prepare \/ Resize \/ MarkPrepared \/ SizeBinds \/ Stage
  <2>1. /\ queue' = queue /\ queue # <<>> /\ ~Head(queue).close
        /\ wpc' \notin {"idle", "closed"}
        /\ wpc' # "stage" => read' = <<>>
    BY <1>9 DEF Begin, InitHandle, Prepare, Resize, MarkPrepared, SizeBinds, Stage, LaneInv
  <2> QED BY <2>1 DEF LaneInv
<1>10. CASE UNCHANGED vars
  BY <1>1, <1>10 DEF vars, workerVars
<1> QED BY <1>2, <1>4, <1>5, <1>7, <1>8, <1>9, <1>10 DEF Next, Worker, Preparing, Finished

LEMMA LifeInductive == Types /\ LifeInv /\ [Next]_vars => LifeInv'
<1> SUFFICES ASSUME Types, LifeInv, [Next]_vars PROVE LifeInv'
  OBVIOUS
<1>1. ASSUME UNCHANGED <<handleVars, wpc>> PROVE LifeInv'
  BY <1>1 DEF LifeInv, handleVars
<1>2. CASE Bind \/ Execute \/ Close \/ UNCHANGED vars
  BY <1>1, <1>2 DEF Bind, BeginBind, Count, Write, Execute, Close, vars, workerVars
<1>3. CASE Begin
  BY <1>3 DEF Begin, LifeInv, handleVars
<1>4. CASE InitHandle
  BY <1>4 DEF InitHandle, LifeInv
<1>5. CASE InitFails
  <2>1. /\ wpc = "init" /\ wpc' = "idle" /\ handle' = 0
        /\ UNCHANGED <<prepared, opened, live, ready>>
    BY <1>5 DEF InitFails, Finish, NoHandle
  <2>2. ~prepared /\ ready = {}
    BY <2>1 DEF LifeInv
  <2> QED BY <2>1, <2>2 DEF LifeInv
<1>6. CASE PrepareFails \/ Send \/ SendFails \/ SizeBinds \/ Stage \/ Resize
  <2>1. UNCHANGED <<prepared, handle, opened, live, ready>>
    BY <1>6 DEF PrepareFails, Send, SendFails, SizeBinds, Stage, Resize, handleVars
  <2>2. CASE wpc = "prepare" /\ wpc' = "idle"
    <3>1. ~prepared /\ ready = {}
      BY <2>2 DEF LifeInv
    <3> QED BY <2>1, <2>2, <3>1 DEF LifeInv
  <2>3. CASE wpc \in {"size", "stage"} /\ wpc' \in {"stage", "idle"}
    <3>1. prepared /\ ready = {handle} /\ handle \in live
      BY <2>3 DEF LifeInv
    <3> QED BY <2>1, <2>3, <3>1 DEF LifeInv
  <2>4. CASE wpc = "resize" /\ wpc' = "prepared"
    <3>1. ~prepared /\ ready = {handle} /\ handle \in live
      BY <2>4 DEF LifeInv
    <3> QED BY <2>1, <2>4, <3>1 DEF LifeInv
  <2> QED BY <1>6, <2>2, <2>3, <2>4
          DEF PrepareFails, Send, SendFails, SizeBinds, Stage, Resize, Finish
<1>7. CASE Prepare
  BY <1>7 DEF Prepare, LifeInv
<1>8. CASE MarkPrepared
  BY <1>8 DEF MarkPrepared, LifeInv
<1>9. CASE Destroy
  <2>1. /\ wpc = "idle" /\ wpc' = "closed" /\ handle' = 0 /\ live' \subseteq live
        /\ UNCHANGED <<prepared, opened, ready>>
    BY <1>9 DEF Destroy, NoHandle
  <2>2. ~prepared => ready = {}
    BY <2>1 DEF LifeInv
  <2> QED BY <2>1, <2>2 DEF LifeInv
<1> QED BY <1>2, <1>3, <1>4, <1>5, <1>6, <1>7, <1>8, <1>9 DEF Next, Worker, Preparing, Finished
-----------------------------------------------------------------------------
(* Scripts that wait *)

\* A step of the worker that leaves the parameters alone keeps what is queued.
LEMMA TailKeepsBinds ==
  ASSUME Types, QueuedBinds, queue # <<>>, queue' = Tail(queue), params' = params
  PROVE  QueuedBinds'
<1>1. /\ DOMAIN queue' = 1..Len(queue) - 1 /\ DOMAIN queue = 1..Len(queue) /\ Len(queue) \in Nat
      /\ \A i \in 1..Len(queue) - 1 : queue'[i] = queue[i + 1]
  BY QueueShrinks DEF Types
<1>2. \A i \in DOMAIN queue' : i + 1 \in DOMAIN queue /\ queue'[i] = queue[i + 1]
  BY <1>1
<1> QED BY <1>2 DEF QueuedBinds

\* A script that waits binds while nothing is queued and the worker idles.
LEMMA BindCalm ==
  ASSUME Types, LaneInv, LifeInv, Calm, Bind, ~overlapped'
  PROVE  Calm'
<1>1. CASE \E i \in 1..MaxIndex, v \in Params : BeginBind(i, v)
  <2>1. PICK i \in 1..MaxIndex, v \in Params : BeginBind(i, v)
    BY <1>1
  <2>2. i \in Nat
    BY PreparedStatementAssumption
  <2>3. queue = <<>>
    <3>1. overlapped' = (overlapped \/ Outstanding)
      BY <2>1 DEF BeginBind
    <3>2. ~Outstanding
      BY <3>1, Zenon
    <3> QED BY <3>2 DEF Outstanding
  <2>4. wpc = "idle" /\ binding = NoBind /\ Len(params) = paramCount
    BY <2>1, <2>3 DEF BeginBind, LaneInv, Calm, NoBind, Types
  <2>5. /\ UNCHANGED <<paramCount, queue, wpc, size, read, prepared, executed>>
        /\ params' = IF i > Len(params) THEN Resized(params, i) ELSE params
        /\ binding' = [step |-> IF i > Len(params) /\ i > paramCount THEN "count" ELSE "write",
                       index |-> i, value |-> v]
    BY <2>1 DEF BeginBind, workerVars, handleVars
  <2>6. paramCount \in Nat
    BY DEF Types
  <2>7. CASE i > Len(params)
    <3>1. Len(params') = i /\ binding'.step = "count" /\ binding'.index = i
      BY <2>2, <2>4, <2>5, <2>7, ResizedFacts DEF Types
    <3>2. QueuedBinds'
      BY <2>3, <2>5 DEF QueuedBinds
    <3> QED BY <2>2, <2>3, <2>4, <2>5, <2>6, <2>7, <3>1, <3>2 DEF Calm, ItsBinds
  <2>8. CASE ~(i > Len(params))
    <3>1. params' = params /\ binding'.step = "write"
      BY <2>5, <2>8
    <3>2. QueuedBinds'
      BY <2>3, <2>5 DEF QueuedBinds
    <3> QED BY <2>3, <2>4, <2>5, <3>1, <3>2 DEF Calm, ItsBinds
  <2> QED BY <2>7, <2>8
<1>2. ASSUME binding.step \in {"count", "write"}
      PROVE  queue = <<>> /\ wpc \in {"idle", "closed"}
  <2>1. binding # NoBind
    BY <1>2 DEF NoBind
  <2>2. queue = <<>>
    BY <2>1 DEF Calm
  <2> QED BY <2>2 DEF LaneInv
<1>3. CASE Count
  <2>1. /\ paramCount' = binding.index /\ binding.step = "count"
        /\ binding' = [binding EXCEPT !.step = "write"]
        /\ UNCHANGED <<params, queue, wpc, size, read, prepared, executed>>
    BY <1>3 DEF Count, workerVars, handleVars, histVars
  <2>2. queue = <<>> /\ wpc \in {"idle", "closed"}
    BY <1>2, <2>1
  <2>3. paramCount <= binding.index /\ Len(params) = binding.index /\ binding'.step = "write"
    BY <2>1 DEF Calm, Types, Bindings
  <2>4. paramCount \in Nat /\ binding.index \in Nat /\ ServerParams \in Nat
    BY PreparedStatementAssumption DEF Types, Bindings
  <2>5. QueuedBinds'
    BY <2>1, <2>2 DEF QueuedBinds
  <2> QED BY <2>1, <2>2, <2>3, <2>4, <2>5 DEF Calm, ItsBinds
<1>4. CASE Write
  <2>1. /\ params' = [i \in DOMAIN params |-> IF i = binding.index THEN binding.value ELSE params[i]]
        /\ binding.step = "write" /\ binding' = NoBind
        /\ UNCHANGED <<paramCount, queue, wpc, size, read, prepared, executed>>
    BY <1>4 DEF Write, workerVars, handleVars, histVars
  <2>2. queue = <<>> /\ wpc \in {"idle", "closed"}
    BY <1>2, <2>1
  <2>3. Len(params') = Len(params)
    <3>1. DOMAIN params' = DOMAIN params
      BY <2>1
    <3>2. params \in Seq(Params) /\ params' \in Seq(Params)
      BY <1>4, BindTypes DEF Bind, Types
    <3> QED BY <3>1, <3>2, LenProperties
  <2>4. binding'.step = "none"
    BY <2>1 DEF NoBind
  <2>5. QueuedBinds'
    BY <2>1, <2>2 DEF QueuedBinds
  <2> QED BY <2>1, <2>2, <2>3, <2>4, <2>5 DEF Calm, ItsBinds
<1> QED BY <1>1, <1>3, <1>4 DEF Bind

\* What is submitted carries the parameters as they are.
LEMMA SubmitCalm ==
  ASSUME Types, Calm, Execute \/ Close
  PROVE  Calm'
<1>1. PICK j \in Jobs : queue' = Append(queue, j) /\ (j.close \/ j.staged = params)
  <2>1. CASE Execute
    <3>1. [close |-> FALSE, staged |-> params] \in Jobs
      <4>1. params \in Seq(Params)
        BY DEF Types
      <4> QED BY <4>1, Zenon DEF Jobs
    <3> QED BY <2>1, <3>1 DEF Execute
  <2>2. CASE Close
    <3>1. [close |-> TRUE, staged |-> <<>>] \in Jobs
      <4>1. <<>> \in Seq(Params)
        OBVIOUS
      <4> QED BY <4>1, Zenon DEF Jobs
    <3> QED BY <2>2, <3>1 DEF Close
  <2> QED BY <2>1, <2>2
<1>2. /\ UNCHANGED <<params, paramCount, binding, wpc, size, read, prepared, executed>>
      /\ binding = NoBind
  BY DEF Execute, Close, clientVars, workerVars, handleVars, histVars
<1>3. QueuedBinds'
  <2>1. /\ DOMAIN queue' = 1..Len(queue) + 1 /\ DOMAIN queue = 1..Len(queue) /\ Len(queue) \in Nat
        /\ \A i \in 1..Len(queue) : queue'[i] = queue[i]
        /\ queue'[Len(queue) + 1] = j
    BY <1>1, QueueGrows DEF Types
  <2> SUFFICES ASSUME NEW i \in DOMAIN queue', ~queue'[i].close
               PROVE  Same(queue'[i].staged, params)
    BY <1>2 DEF QueuedBinds
  <2>2. CASE i \in DOMAIN queue
    BY <2>1, <2>2 DEF Calm, QueuedBinds
  <2>3. CASE i = Len(queue) + 1
    BY <1>1, <2>1, <2>3 DEF Same
  <2> QED BY <2>1, <2>2, <2>3
<1> QED BY <1>2, <1>3 DEF Calm, Staged, ItsBinds

\* While the worker has something to do, no parameter is being bound.
LEMMA NobodyBinds ==
  ASSUME Calm, queue # <<>>
  PROVE  binding = NoBind /\ binding.step = "none" /\ (wpc # "resize" => Len(params) = paramCount)
BY DEF Calm, NoBind

\* Preparing brings the parameters to the server's count.
LEMMA PreparingCalm ==
  ASSUME Types, LaneInv, LifeInv, Calm, Begin \/ Preparing
  PROVE  Calm'
<1> USE PreparedStatementAssumption
<1>1. queue # <<>> /\ UNCHANGED <<binding, executed>>
  BY DEF Begin, Preparing, InitHandle, InitFails, Prepare, PrepareFails, Resize, MarkPrepared,
         LaneInv, histVars
<1>2. binding = NoBind /\ binding.step = "none" /\ (wpc # "resize" => Len(params) = paramCount)
  BY <1>1, NobodyBinds
<1>3. paramCount \in Nat /\ ServerParams \in Nat
  BY DEF Types
<1>4. CASE Begin
  <2>1. /\ UNCHANGED <<params, paramCount, queue, prepared>>
        /\ wpc = "idle" /\ wpc' \in {"size", "init"}
    BY <1>4 DEF Begin, clientVars, handleVars
  <2>2. QueuedBinds'
    BY <2>1 DEF Calm, QueuedBinds
  <2> QED BY <1>1, <1>2, <2>1, <2>2 DEF Calm, ItsBinds
<1>5. CASE InitHandle
  <2>1. /\ UNCHANGED <<params, paramCount, queue, prepared>>
        /\ wpc = "init" /\ wpc' = "prepare"
    BY <1>5 DEF InitHandle, clientVars
  <2>2. QueuedBinds'
    BY <2>1 DEF Calm, QueuedBinds
  <2> QED BY <1>1, <1>2, <2>1, <2>2 DEF Calm, ItsBinds
<1>6. CASE InitFails \/ PrepareFails
  <2>1. /\ UNCHANGED <<params, paramCount, prepared>> /\ queue' = Tail(queue)
        /\ wpc \in {"init", "prepare"} /\ wpc' = "idle"
    BY <1>6 DEF InitFails, PrepareFails, Finish, clientVars, handleVars
  <2>2. QueuedBinds'
    BY <1>1, <2>1, TailKeepsBinds DEF Calm
  <2> QED BY <1>1, <1>2, <2>1, <2>2 DEF Calm, ItsBinds
<1>7. CASE Prepare
  <2>1. /\ UNCHANGED <<params, queue, prepared>> /\ paramCount' = ServerParams
        /\ wpc = "prepare"
        /\ wpc' = IF paramCount = ServerParams THEN "prepared" ELSE "resize"
    BY <1>7 DEF Prepare
  <2>2. QueuedBinds'
    BY <2>1 DEF Calm, QueuedBinds
  <2> QED BY <1>1, <1>2, <1>3, <2>1, <2>2 DEF Calm, ItsBinds
<1>8. CASE Resize
  <2>1. /\ UNCHANGED <<paramCount, queue, prepared>> /\ params' = Resized(params, paramCount)
        /\ wpc = "resize" /\ wpc' = "prepared" /\ paramCount = ServerParams
    BY <1>8 DEF Resize, handleVars, Calm
  <2>2. Len(params') = paramCount
    BY <1>3, <2>1, ResizedFacts DEF Types
  <2>3. Same(params', params)
    BY <1>3, <2>1, ResizedTwice DEF Types
  <2>4. QueuedBinds'
    BY <2>1, <2>3 DEF Calm, QueuedBinds, Same
  <2> QED BY <1>1, <1>2, <1>3, <2>1, <2>2, <2>4 DEF Calm, ItsBinds
<1>9. CASE MarkPrepared
  <2>1. /\ UNCHANGED <<params, paramCount, queue>> /\ wpc = "prepared" /\ wpc' = "size"
    BY <1>9 DEF MarkPrepared, clientVars
  <2>2. QueuedBinds'
    BY <2>1 DEF Calm, QueuedBinds
  <2> QED BY <1>1, <1>2, <2>1, <2>2 DEF Calm, ItsBinds
<1> QED BY <1>4, <1>5, <1>6, <1>7, <1>8, <1>9 DEF Preparing

\* Staging reads the parameters that are there, ...
LEMMA StagingCalm ==
  ASSUME Types, LaneInv, LifeInv, Calm, SizeBinds \/ Stage
  PROVE  Calm'
<1>1. /\ queue # <<>> /\ wpc \in {"size", "stage"} /\ wpc' = "stage"
      /\ UNCHANGED <<params, paramCount, binding, queue, prepared, executed>>
  BY DEF SizeBinds, Stage, LaneInv, clientVars, handleVars, histVars
<1>2. binding = NoBind /\ binding.step = "none" /\ Len(params) = paramCount
  BY <1>1, NobodyBinds
<1>3. QueuedBinds'
  BY <1>1 DEF Calm, QueuedBinds
<1>4. size' = paramCount'
  BY <1>1 DEF SizeBinds, Stage, Calm
<1>5. Staged'
  <2>1. CASE SizeBinds
    <3>1. read' = <<>>
      BY <2>1 DEF SizeBinds, LaneInv
    <3> QED BY <3>1 DEF Staged
  <2>2. CASE Stage
    <3>1. PICK v \in Params : /\ Len(read) < Len(params) => v = params[Len(read) + 1]
                              /\ read' = Append(read, v)
      BY <2>2 DEF Stage
    <3>2. /\ Len(read) < Len(params) /\ Len(read) \in Nat /\ Len(params) \in Nat
          /\ DOMAIN params = 1..Len(params) /\ Staged
      BY <1>2, <2>2, LenProperties DEF Stage, Types, Calm
    <3>3. /\ DOMAIN read' = 1..Len(read) + 1 /\ DOMAIN read = 1..Len(read)
          /\ \A i \in 1..Len(read) : read'[i] = read[i]
          /\ read'[Len(read) + 1] = params[Len(read) + 1]
      <4>1. /\ read' \in Seq(Params) /\ Len(read') = Len(read) + 1
            /\ \A i \in 1..Len(read) : read'[i] = read[i]
            /\ read'[Len(read) + 1] = v
        BY <3>1, AppendProperties DEF Types
      <4>2. DOMAIN read' = 1..Len(read') /\ DOMAIN read = 1..Len(read)
        BY <4>1, LenProperties DEF Types
      <4> QED BY <3>1, <3>2, <4>1, <4>2
    <3> SUFFICES ASSUME NEW i \in DOMAIN read'
                 PROVE  i \in DOMAIN params /\ read'[i] = params[i]
      BY <1>1 DEF Staged
    <3>4. CASE i \in DOMAIN read
      BY <3>2, <3>3, <3>4 DEF Staged
    <3>5. CASE i = Len(read) + 1
      BY <3>2, <3>3, <3>5
    <3> QED BY <3>2, <3>3, <3>4, <3>5
  <2> QED BY <2>1, <2>2
<1> QED BY <1>1, <1>2, <1>3, <1>4, <1>5 DEF Calm, ItsBinds

\* ... and what is sent is what was staged, which is what was submitted.
LEMMA SendCalm ==
  ASSUME Types, LaneInv, LifeInv, Calm, Send
  PROVE  ItsBinds'
<1> USE PreparedStatementAssumption
<1>1. /\ wpc = "stage" /\ Len(read) >= paramCount /\ queue # <<>> /\ ~Head(queue).close
  BY DEF Send, LaneInv
<1>2. /\ Len(params) = paramCount /\ Staged /\ prepared
  BY <1>1, NobodyBinds DEF Calm, LifeInv
<1>3. paramCount >= ServerParams
  BY <1>2 DEF Calm
<1>4. /\ Len(read) \in Nat /\ Len(params) \in Nat /\ DOMAIN read = 1..Len(read)
      /\ paramCount \in Nat /\ ServerParams \in Nat
  BY LenProperties DEF Types
<1>5. PICK sent \in [1..ServerParams -> Params] :
        /\ \A i \in 1..ServerParams \intersect DOMAIN read :
             i \in DOMAIN params /\ params[i] = read[i] => sent[i] = read[i]
        /\ executed' = [submittedWith |-> Head(queue).staged, sentWith |-> sent]
  BY DEF Send
<1>6. \A i \in 1..ServerParams : sent[i] = params[i] /\ i <= Len(params)
  <2> SUFFICES ASSUME NEW i \in 1..ServerParams
               PROVE  sent[i] = params[i] /\ i <= Len(params)
    OBVIOUS
  <2>1. i \in DOMAIN read /\ i <= Len(params)
    BY <1>1, <1>2, <1>3, <1>4
  <2>2. i \in DOMAIN params /\ params[i] = read[i]
    BY <1>2, <2>1 DEF Staged
  <2> QED BY <1>5, <2>1, <2>2
<1>7. sent = Resized(params, ServerParams)
  <2>1. \A i \in 1..ServerParams : sent[i] = (IF i <= Len(params) THEN params[i] ELSE Null)
    BY <1>6
  <2>2. sent = [i \in 1..ServerParams |-> sent[i]]
    BY <1>5
  <2> QED BY <2>1, <2>2 DEF Resized
<1>8. Resized(Head(queue).staged, ServerParams) = Resized(params, ServerParams)
  <2>1. Head(queue) = queue[1] /\ 1 \in DOMAIN queue
    BY <1>1, QueueShrinks DEF Types
  <2> QED BY <1>1, <2>1 DEF Calm, QueuedBinds, Same
<1> QED BY <1>5, <1>7, <1>8 DEF ItsBinds

LEMMA FinishCalm ==
  ASSUME Types, LaneInv, LifeInv, Calm, Send \/ SendFails \/ Destroy
  PROVE  Calm'
<1>1. /\ queue # <<>> /\ queue' = Tail(queue) /\ wpc # "resize" /\ wpc' \in {"idle", "closed"}
      /\ UNCHANGED <<params, paramCount, binding, prepared>>
  BY DEF Send, SendFails, Destroy, Finish, LaneInv, clientVars, handleVars
<1>2. binding = NoBind /\ binding.step = "none" /\ Len(params) = paramCount
  BY <1>1, NobodyBinds
<1>3. QueuedBinds'
  BY <1>1, TailKeepsBinds DEF Calm
<1>4. executed' # NeverExecuted => ItsBinds'
  <2>1. CASE Send
    BY <2>1, SendCalm
  <2>2. CASE SendFails \/ Destroy
    BY <2>2 DEF SendFails, Destroy, histVars, Calm, ItsBinds
  <2> QED BY <2>1, <2>2
<1> QED BY <1>1, <1>2, <1>3, <1>4 DEF Calm

LEMMA CalmInductive == IInv /\ [Next]_vars => CalmInv'
<1> SUFFICES ASSUME IInv, [Next]_vars, ~overlapped' PROVE Calm'
  BY DEF CalmInv
<1>1. Calm
  <2>1. overlapped => overlapped'
    <3>1. overlapped' = overlapped \/ \E i \in 1..MaxIndex, v \in Params : BeginBind(i, v)
      BY DEF Next, Bind, Count, Write, Execute, Close, Worker, Preparing, Begin, InitHandle,
             InitFails, Prepare, PrepareFails, Resize, MarkPrepared, SizeBinds, Stage, Send,
             SendFails, Destroy, Finished, vars, histVars
    <3>2. (\E i \in 1..MaxIndex, v \in Params : BeginBind(i, v))
            => overlapped' = (overlapped \/ Outstanding)
      BY DEF BeginBind
    <3> QED BY <3>1, <3>2, Zenon
  <2> QED BY <2>1 DEF IInv, CalmInv
<1>2. CASE Bind
  BY <1>1, <1>2, BindCalm DEF IInv
<1>3. CASE Execute \/ Close
  BY <1>1, <1>3, SubmitCalm DEF IInv
<1>4. CASE Begin \/ Preparing
  BY <1>1, <1>4, PreparingCalm DEF IInv
<1>5. CASE SizeBinds \/ Stage
  BY <1>1, <1>5, StagingCalm DEF IInv
<1>6. CASE Send \/ SendFails \/ Destroy
  BY <1>1, <1>6, FinishCalm DEF IInv
<1>7. CASE UNCHANGED vars
  BY <1>1, <1>7 DEF vars, clientVars, workerVars, handleVars, histVars, Calm, QueuedBinds, Staged,
                    ItsBinds
<1> QED BY <1>2, <1>3, <1>4, <1>5, <1>6, <1>7 DEF Next, Worker, Finished

-----------------------------------------------------------------------------
(* The invariant and what follows *)

LEMMA InitInv == Init => IInv
<1> SUFFICES ASSUME Init PROVE IInv
  OBVIOUS
<1>1. Types
  BY InitTypes
<1>2. LaneInv /\ LifeInv
  BY DEF Init, LaneInv, LifeInv, NoHandle
<1>3. Calm
  <2>1. paramCount \in Nat /\ params = Resized(<<>>, paramCount)
    BY PreparedStatementAssumption DEF Init
  <2>2. <<>> \in Seq(Params)
    OBVIOUS
  <2>3. Len(params) = paramCount
    BY <2>1, <2>2, ResizedFacts
  <2> QED BY <2>3 DEF Init, Calm, NoBind, QueuedBinds
<1> QED BY <1>1, <1>2, <1>3 DEF IInv, CalmInv

LEMMA Invariance == Spec => []IInv
<1>1. IInv /\ [Next]_vars => IInv'
  BY TypeInductive, LaneInductive, LifeInductive, CalmInductive DEF IInv
<1> QED BY <1>1, InitInv, PTL DEF Spec

\* Every variable has its type; at most one MYSQL_STMT is ever prepared, and once prepared_
\* is set, stmt_ is that one and open until the teardown (Statement.cpp, execute).
THEOREM TypeCorrect == Spec => []TypeOK
<1>1. IInv => TypeOK
  <2> SUFFICES ASSUME IInv PROVE TypeOK
    OBVIOUS
  <2>1. Cardinality(ready) <= 1
    <3>1. CASE ready = {}
      BY <3>1, FS_EmptySet
    <3>2. CASE \E x \in 1..opened : ready = {x}
      BY <3>2, FS_Singleton
    <3> QED BY <3>1, <3>2 DEF IInv, LifeInv
  <2> QED BY <2>1 DEF IInv, Types, LifeInv, TypeOK
<1> QED BY <1>1, Invariance, PTL

\* If scripts wait for an execution before they bind again, execute() stages as many
\* parameters as it sized binds for, reads none outside params_ and has one for each the
\* server expects, whatever CountPlaceholders found.
THEOREM StagingCorrect == Spec => []CalmStagingInBounds
<1>1. IInv => CalmStagingInBounds
  <2> SUFFICES ASSUME IInv, ~overlapped, wpc = "stage"
               PROVE  paramCount = size /\ paramCount = Len(params) /\ paramCount >= ServerParams
    BY DEF CalmStagingInBounds
  <2>1. Calm /\ queue # <<>> /\ prepared
    BY DEF IInv, CalmInv, LaneInv, LifeInv
  <2>2. Len(params) = paramCount
    BY <2>1, NobodyBinds
  <2> QED BY <2>1, <2>2 DEF Calm
<1> QED BY <1>1, Invariance, PTL

\* If scripts wait, every execution sends the parameters bound when it was submitted, Null
\* for those the server has and the script never bound (Statement.cpp, execute).
THEOREM ExecutionsCorrect == Spec => []CalmExecutionsSendTheirBinds
<1>1. IInv => CalmExecutionsSendTheirBinds
  BY DEF IInv, CalmInv, Calm, CalmExecutionsSendTheirBinds
<1> QED BY <1>1, Invariance, PTL
=============================================================================
