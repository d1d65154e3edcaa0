----------------------- MODULE ConnectionWorkerProofs -----------------------
(***************************************************************************)
(* Safety of ConnectionWorker for any number of jobs.                      *)
(***************************************************************************)
EXTENDS ConnectionWorker, SequenceTheorems, TLAPS

Completed == Range(completed)

\* How many jobs have left input_.
Popped == Len(ran) + (IF wpc = "run" THEN 1 ELSE 0)

\* The queue holds exactly the jobs not yet taken, in submission order.
QueueInv ==
  /\ Len(input) + Popped = Len(kind)
  /\ \A i \in DOMAIN input : input[i] = Popped + i

\* The worker's job is the next one to run, or the last one that ran.
WorkerInv ==
  /\ wpc = "run" => wjob = Len(ran) + 1
  /\ wpc \in {"deliver", "uncount"} => wjob = Len(ran) /\ Len(ran) > 0
  /\ wpc = "deliver" => kind[wjob] # "close"
  /\ wpc = "exited" => input = <<>> /\ ~running

\* What the main thread's place says of the flag, of its job and of the worker.
MainInv ==
  /\ running <=> mpc \notin {"signal", "join", "clear", "gone"}
  /\ mpc \in {"count", "notify", "await"} => mjob = Len(kind) /\ mjob \in Jobs
  /\ mpc = "await" => kind[mjob] = "sync"
  /\ mpc \in {"clear", "gone"} => wpc = "exited"

\* A job handed back through its promise is the one the main thread waits for.
PromiseInv ==
  promise # NoJob =>
    /\ mpc \in {"count", "notify", "await"}
    /\ promise = mjob
    /\ kind[promise] = "sync"
    /\ promise <= Len(ran)
    /\ promise \notin Delivered
    /\ wpc = "deliver" => promise # wjob

\* The sink holds executed asynchronous jobs in submission order.
SinkInv ==
  /\ \A i \in DOMAIN completed :
       /\ kind[completed[i]] = "async"
       /\ completed[i] <= Len(ran)
       /\ wpc = "deliver" => completed[i] < wjob
  /\ \A i, j \in DOMAIN completed : i < j => completed[i] < completed[j]

\* What was delivered precedes what waits in the sink and in the worker's hands.
DeliveredInv ==
  /\ \A i \in DOMAIN delivered :
       /\ kind[delivered[i]] # "close"
       /\ delivered[i] <= Len(ran)
       /\ wpc = "deliver" => delivered[i] # wjob
       /\ (wpc = "deliver" /\ kind[delivered[i]] = "async") => delivered[i] < wjob
  /\ \A i, j \in DOMAIN delivered : i < j =>
       /\ delivered[i] # delivered[j]
       /\ (kind[delivered[i]] = "async" /\ kind[delivered[j]] = "async")
            => delivered[i] < delivered[j]
  /\ \A i \in DOMAIN delivered, k \in DOMAIN completed :
       kind[delivered[i]] = "async" => delivered[i] < completed[k]

\* A synchronous job without its answer is the last one, and the main thread is in its
\* native; an asynchronous job that ran is delivered, in the sink or in the worker's hands.
AnsweredInv ==
  /\ \A j \in Jobs : kind[j] = "sync" =>
       \/ j \in Delivered
       \/ j = Len(kind) /\ mpc \in {"count", "notify", "await"}
  /\ \A j \in Jobs : (kind[j] = "async" /\ j <= Len(ran)) =>
       \/ j \in Delivered \union Completed
       \/ wpc = "deliver" /\ j = wjob

IInv ==
  /\ TypeOK
  /\ PendingAccounting
  /\ FifoExecution
  /\ QueueInv
  /\ WorkerInv
  /\ MainInv
  /\ PromiseInv
  /\ SinkInv
  /\ DeliveredInv
  /\ AnsweredInv

-----------------------------------------------------------------------------
(* Sequences                                                               *)

\* What appending an element does to a sequence's length, domain and entries.
LEMMA AppendFacts ==
  ASSUME NEW S, NEW s \in Seq(S), NEW e \in S
  PROVE  /\ Append(s, e) \in Seq(S)
         /\ Len(Append(s, e)) = Len(s) + 1
         /\ DOMAIN Append(s, e) = DOMAIN s \union {Len(s) + 1}
         /\ \A i \in DOMAIN s : Append(s, e)[i] = s[i] /\ i < Len(s) + 1
         /\ Append(s, e)[Len(s) + 1] = e
OBVIOUS

\* Appending adds exactly the new element to a sequence's elements.
LEMMA AppendRange ==
  ASSUME NEW S, NEW s \in Seq(S), NEW e \in S
  PROVE  Range(Append(s, e)) = Range(s) \union {e}
<1>1. /\ DOMAIN Append(s, e) = DOMAIN s \union {Len(s) + 1}
      /\ \A i \in DOMAIN s : Append(s, e)[i] = s[i]
      /\ Append(s, e)[Len(s) + 1] = e
  BY AppendFacts
<1> QED BY <1>1, Zenon DEF Range

\* Every index of a concatenation belongs to the first sequence or, shifted, to the second.
LEMMA ConcatFacts ==
  ASSUME NEW S, NEW s \in Seq(S), NEW t \in Seq(S)
  PROVE  /\ s \o t \in Seq(S)
         /\ \A i \in DOMAIN s : i \in DOMAIN (s \o t) /\ (s \o t)[i] = s[i]
         /\ \A i \in DOMAIN t : Len(s) + i \in DOMAIN (s \o t) /\ (s \o t)[Len(s) + i] = t[i]
         /\ \A i \in DOMAIN (s \o t) :
              i \in DOMAIN s \/ \E k \in DOMAIN t : i = Len(s) + k
<1>1. /\ s \o t \in Seq(S)
      /\ Len(s \o t) = Len(s) + Len(t)
      /\ \A i \in DOMAIN s : i \in DOMAIN (s \o t) /\ (s \o t)[i] = s[i]
      /\ \A i \in DOMAIN t : Len(s) + i \in DOMAIN (s \o t) /\ (s \o t)[Len(s) + i] = t[i]
  OBVIOUS
<1>2. ASSUME NEW i \in DOMAIN (s \o t), i \notin DOMAIN s
      PROVE  \E k \in DOMAIN t : i = Len(s) + k
  <2>1. i - Len(s) \in DOMAIN t /\ i = Len(s) + (i - Len(s))
    BY <1>1, <1>2
  <2> QED BY <2>1
<1> QED BY <1>1, <1>2

-----------------------------------------------------------------------------
(* One lemma per step                                                      *)

\* stop() clearing running_ disturbs no queue.
LEMMA StopStep == ASSUME IInv, Stop PROVE IInv'
<1> USE DEF Stop, vars, workerVars, mainVars, histVars, Jobs, NoJob
<1>1. running' \in BOOLEAN
  BY Zenon
<1>2. UNCHANGED <<kind, input, pending, completed, promise, wpc, wjob, mjob, ran, delivered>> /\ mpc' = "signal" /\ mpc = "script"
  OBVIOUS
<1>3. TypeOK'
  BY <1>1, <1>2, Zenon DEF IInv, TypeOK, MainPlaces
<1>4. PendingAccounting' /\ FifoExecution' /\ QueueInv' /\ WorkerInv' /\ MainInv' /\ SinkInv' /\ DeliveredInv'
  BY DEF IInv, TypeOK, PendingAccounting, FifoExecution, QueueInv, WorkerInv, MainInv, SinkInv, DeliveredInv, InHand, Uncounted, Popped
<1>5. Delivered' = Delivered /\ Completed' = Completed
  BY DEF Delivered, Completed
<1>6. PromiseInv' /\ AnsweredInv'
  BY <1>5 DEF IInv, TypeOK, PromiseInv, AnsweredInv, MainInv
<1> QED BY <1>3, <1>4, <1>6 DEF IInv

\* enqueue's push keeps the invariant: the new job is the last of kind and of input_.
LEMMA SubmitStep == ASSUME IInv, NEW k \in Kinds, Submit(k) PROVE IInv'
<1> USE DEF Submit, workerVars, histVars, Jobs, NoJob
<1> DEFINE n == Len(kind) + 1
<1>1. /\ n \in Nat /\ n \in DOMAIN kind' /\ DOMAIN kind' = DOMAIN kind \union {n}
      /\ Len(kind') = n /\ kind' \in Seq(Kinds)
      /\ \A j \in DOMAIN kind : kind'[j] = kind[j] /\ j # n
      /\ kind'[n] = k
  BY AppendFacts DEF IInv, TypeOK
<1>2. /\ input' \in Seq(DOMAIN kind')
      /\ Len(input') = Len(input) + 1
      /\ DOMAIN input' = DOMAIN input \union {Len(input) + 1}
      /\ \A i \in DOMAIN input : input'[i] = input[i]
      /\ input'[Len(input) + 1] = n
  <2>1. input \in Seq(DOMAIN kind')
    BY <1>1, SeqMonotonic DEF IInv, TypeOK
  <2> QED BY <2>1, <1>1, AppendFacts
<1>3. TypeOK'
  <2>1. /\ completed \in Seq(DOMAIN kind') /\ ran \in Seq(DOMAIN kind')
        /\ delivered \in Seq(DOMAIN kind')
    BY <1>1, SeqMonotonic DEF IInv, TypeOK
  <2> QED BY <1>1, <1>2, <2>1 DEF IInv, TypeOK, WorkerPlaces, MainPlaces
<1>4. PendingAccounting' /\ FifoExecution'
  BY <1>2 DEF IInv, TypeOK, PendingAccounting, FifoExecution, InHand, Uncounted
<1>5. QueueInv'
  <2>1. Popped' = Popped /\ Popped \in Nat /\ Len(input) \in Nat
    BY DEF IInv, TypeOK, Popped
  <2>2. Len(input) + 1 + Popped = n /\ \A i \in DOMAIN input : input[i] = Popped + i
    <3>1. Len(input) + Popped = Len(kind) /\ \A i \in DOMAIN input : input[i] = Popped + i
      BY DEF IInv, QueueInv
    <3>2. Len(kind) \in Nat
      BY DEF IInv, TypeOK
    <3> QED BY SMTT(30), <2>1, <3>1, <3>2
  <2> HIDE DEF Submit
  <2> QED BY <1>1, <1>2, <2>1, <2>2 DEF QueueInv
<1>6. WorkerInv' /\ MainInv' /\ PromiseInv'
  BY <1>1, <1>2 DEF IInv, TypeOK, WorkerInv, MainInv, PromiseInv
<1>7. SinkInv'
  BY <1>1 DEF IInv, TypeOK, SinkInv
<1>8. DeliveredInv'
  <2>1. UNCHANGED <<delivered, completed, ran, wpc, wjob>>
    OBVIOUS
  <2>2. \A i \in DOMAIN delivered : kind'[delivered[i]] = kind[delivered[i]]
    <3>1. \A i \in DOMAIN delivered : delivered[i] \in DOMAIN kind
      BY DEF IInv, TypeOK
    <3> QED BY <1>1, <3>1
  <2>3. DeliveredInv
    BY DEF IInv
  <2> HIDE DEF Submit
  <2> QED BY <2>1, <2>2, <2>3 DEF DeliveredInv
<1>9. AnsweredInv'
  <2>1. Delivered' = Delivered /\ Completed' = Completed
    BY DEF Delivered, Completed
  <2>2. Len(ran) < n
    BY SMTT(30) DEF IInv, TypeOK, QueueInv, Popped
  <2> QED BY <1>1, <2>1, <2>2 DEF IInv, TypeOK, AnsweredInv
<1> QED BY <1>3, <1>4, <1>5, <1>6, <1>7, <1>8, <1>9 DEF IInv

\* A synchronous reply is a fresh one: its job was not delivered before.
LEMMA AwaitReplyStep == ASSUME IInv, AwaitReply PROVE IInv'
<1> USE DEF AwaitReply, workerVars, Jobs, NoJob
<1> DEFINE d == Len(delivered) + 1
<1>1. /\ delivered' \in Seq(Jobs)
      /\ DOMAIN delivered' = DOMAIN delivered \union {d}
      /\ \A i \in DOMAIN delivered : delivered'[i] = delivered[i] /\ i < d
      /\ delivered'[d] = promise
      /\ Delivered' = Delivered \union {promise}
  <2>1. /\ delivered \in Seq(Jobs) /\ promise \in Jobs
        /\ delivered' = Append(delivered, promise)
    BY DEF IInv, TypeOK
  <2>2. Delivered' = Delivered \union {promise}
    BY <2>1, AppendRange DEF Delivered
  <2> QED BY <2>1, <2>2, AppendFacts
<1>2. /\ kind[promise] = "sync" /\ promise \in Jobs /\ promise <= Len(ran)
      /\ promise = Len(kind) /\ promise \notin Delivered
      /\ wpc = "deliver" => promise # wjob
  BY DEF IInv, TypeOK, PromiseInv, MainInv
<1>3. TypeOK' /\ PendingAccounting' /\ FifoExecution' /\ QueueInv' /\ WorkerInv' /\ MainInv'
  BY <1>1 DEF IInv, TypeOK, PendingAccounting, FifoExecution, QueueInv, WorkerInv, MainInv,
              InHand, Uncounted, Popped, MainPlaces
<1>4. PromiseInv' /\ SinkInv'
  BY DEF IInv, TypeOK, PromiseInv, SinkInv
<1>5. DeliveredInv'
  <2>1. \A i \in DOMAIN delivered : delivered[i] # promise
    BY <1>2 DEF Delivered, Range
  <2>2. completed' = completed /\ UNCHANGED <<kind, wpc, wjob, ran>> /\ DeliveredInv
    BY DEF IInv
  <2>3. \A i \in DOMAIN delivered' : delivered'[i] \in Nat
    BY <1>1 DEF IInv, TypeOK
  <2> HIDE DEF AwaitReply
  <2> QED BY <1>1, <1>2, <2>1, <2>2, <2>3 DEF DeliveredInv
<1>6. AnsweredInv'
  <2>1. Completed' = Completed
    BY DEF Completed
  <2> QED BY <1>1, <1>2, <2>1 DEF IInv, TypeOK, AnsweredInv
<1> QED BY <1>3, <1>4, <1>5, <1>6 DEF IInv

\* The tick appends the sink to what was delivered: the sink is sorted, and above it.
LEMMA TickStep == ASSUME IInv, Tick PROVE IInv'
<1> USE DEF Tick, workerVars, mainVars, Jobs, NoJob
<1>1. /\ delivered' \in Seq(Jobs)
      /\ \A i \in DOMAIN delivered' :
           i \in DOMAIN delivered \/ \E x \in DOMAIN completed : i = Len(delivered) + x
      /\ \A i \in DOMAIN delivered : delivered'[i] = delivered[i]
      /\ \A x \in DOMAIN completed : delivered'[Len(delivered) + x] = completed[x]
      /\ Delivered' = Delivered \union Completed
  <2>1. /\ delivered \in Seq(Jobs) /\ completed \in Seq(Jobs)
        /\ delivered' = delivered \o completed /\ completed' = <<>>
    BY DEF IInv, TypeOK
  <2> HIDE DEF Tick
  <2>2. Delivered' = Delivered \union Completed
    BY <2>1, RangeConcatenation DEF Delivered, Completed
  <2> QED BY <2>1, <2>2, ConcatFacts
<1>2. TypeOK' /\ PendingAccounting' /\ FifoExecution' /\ QueueInv' /\ WorkerInv' /\ MainInv' /\ PromiseInv' /\ SinkInv'
  BY <1>1 DEF IInv, TypeOK, PendingAccounting, FifoExecution, QueueInv, WorkerInv, MainInv,
              PromiseInv, SinkInv, InHand, Uncounted, Popped
<1>3. DeliveredInv'
  <2>1. \A i \in DOMAIN delivered, x \in DOMAIN completed :
          /\ delivered[i] # completed[x]
          /\ kind[completed[x]] = "async"
          /\ kind[delivered[i]] = "async" => delivered[i] < completed[x]
    <3>1. \A i \in DOMAIN delivered, x \in DOMAIN completed :
            /\ kind[completed[x]] = "async"
            /\ kind[delivered[i]] = "async" => delivered[i] < completed[x]
      BY DEF IInv, SinkInv, DeliveredInv
    <3>2. \A i \in DOMAIN delivered : delivered[i] \in Nat
      BY DEF IInv, TypeOK
    <3> QED BY <3>1, <3>2
  <2>2. ASSUME NEW i \in DOMAIN delivered'
        PROVE  /\ kind[delivered'[i]] # "close"
               /\ delivered'[i] <= Len(ran)
               /\ wpc = "deliver" => delivered'[i] # wjob
               /\ (wpc = "deliver" /\ kind[delivered'[i]] = "async") => delivered'[i] < wjob
    <3>1. CASE i \in DOMAIN delivered
      BY <3>1, <1>1 DEF IInv, TypeOK, DeliveredInv
    <3>2. CASE \E x \in DOMAIN completed : i = Len(delivered) + x
      <4>1. PICK x \in DOMAIN completed : i = Len(delivered) + x
        BY <3>2
      <4>2. delivered'[i] = completed[x] /\ completed[x] \in Nat
        BY <4>1, <1>1 DEF IInv, TypeOK
      <4>3. SinkInv /\ (wpc = "deliver" => wjob \in Nat)
        BY DEF IInv, TypeOK, WorkerInv
      <4> QED BY <4>2, <4>3 DEF SinkInv
    <3> QED BY <1>1, <3>1, <3>2
  <2>3. ASSUME NEW i \in DOMAIN delivered', NEW j \in DOMAIN delivered', i < j
        PROVE  /\ delivered'[i] # delivered'[j]
               /\ (kind[delivered'[i]] = "async" /\ kind[delivered'[j]] = "async")
                    => delivered'[i] < delivered'[j]
    <3>1. CASE i \in DOMAIN delivered /\ j \in DOMAIN delivered
      BY <2>3, <3>1, <1>1 DEF IInv, DeliveredInv
    <3>2. CASE /\ i \in DOMAIN delivered
               /\ \E x \in DOMAIN completed : j = Len(delivered) + x
      BY <3>2, <1>1, <2>1
    <3>3. CASE \E x, y \in DOMAIN completed : i = Len(delivered) + x /\ j = Len(delivered) + y
      <4>1. PICK x, y \in DOMAIN completed : i = Len(delivered) + x /\ j = Len(delivered) + y
        BY <3>3
      <4>2. x < y /\ delivered'[i] = completed[x] /\ delivered'[j] = completed[y]
        <5>1. Len(delivered) \in Nat /\ x \in Nat /\ y \in Nat
          <6>1. delivered \in Seq(Jobs) /\ completed \in Seq(Jobs)
            BY DEF IInv, TypeOK
          <6> HIDE DEF Tick
          <6> QED BY <6>1
        <5> HIDE DEF Tick
        <5>2. Len(delivered) + x < Len(delivered) + y
          BY <2>3, <4>1
        <5>3. x < y
          BY <5>1, <5>2
        <5>4. delivered'[i] = completed[x] /\ delivered'[j] = completed[y]
          BY <4>1, <1>1, Zenon
        <5> QED BY <5>3, <5>4
      <4>3. completed[x] \in Nat /\ completed[x] < completed[y]
        <5>1. completed[x] \in Nat
          BY SMTT(30) DEF IInv, TypeOK
        <5>2. SinkInv
          BY DEF IInv
        <5> QED BY <4>2, <5>1, <5>2, Zenon DEF SinkInv
      <4>4. completed[y] \in Nat
        BY DEF IInv, TypeOK
      <4> HIDE DEF Tick
      <4> QED BY <4>2, <4>3, <4>4
    <3>4. CASE j \in DOMAIN delivered /\ \E x \in DOMAIN completed : i = Len(delivered) + x
      <4>1. PICK x \in DOMAIN completed : i = Len(delivered) + x
        BY <3>4
      <4>2. Len(delivered) \in Nat /\ x \in Nat /\ x > 0 /\ j <= Len(delivered) /\ j \in Nat
        <5>1. delivered \in Seq(Jobs) /\ completed \in Seq(Jobs)
          BY DEF IInv, TypeOK
        <5> HIDE DEF Tick
        <5> QED BY <5>1, <3>4
      <4>3. FALSE
        BY <2>3, <4>1, <4>2
      <4> QED BY <4>3
    <3> QED BY <1>1, <3>1, <3>2, <3>3, <3>4
  <2>4. completed' = <<>> /\ UNCHANGED <<kind, wpc, wjob, ran>>
    OBVIOUS
  <2> HIDE DEF Tick
  <2> QED BY <2>2, <2>3, <2>4 DEF DeliveredInv
<1>4. AnsweredInv'
  BY <1>1 DEF IInv, TypeOK, AnsweredInv
<1> QED BY <1>2, <1>3, <1>4 DEF IInv

\* Popping the oldest job leaves the rest of the queue consecutive.
LEMMA TakeJobStep == ASSUME IInv, TakeJob PROVE IInv'
<1>0. /\ UNCHANGED <<kind, running, pending, completed, promise, mpc, mjob, ran, delivered>>
      /\ wpc = "test" /\ wpc' = "run" /\ input # <<>>
  BY DEF TakeJob, mainVars, histVars
<1> USE <1>0 DEF Jobs, NoJob
<1>1. /\ input' \in Seq(Jobs)
      /\ Len(input) > 0 /\ Len(input') = Len(input) - 1
      /\ \A i \in DOMAIN input' : i + 1 \in DOMAIN input /\ input'[i] = input[i + 1]
      /\ wjob' = input[1] /\ wjob' \in Jobs /\ 1 \in DOMAIN input
  BY HeadTailProperties DEF IInv, TypeOK, TakeJob
<1>2. TypeOK' /\ PendingAccounting' /\ FifoExecution'
  BY <1>1 DEF IInv, TypeOK, PendingAccounting, FifoExecution, InHand, Uncounted, WorkerPlaces
<1>3. /\ Popped = Len(ran) /\ Popped' = Len(ran) + 1
      /\ Len(ran) \in Nat /\ Len(input) \in Nat /\ Len(kind) \in Nat
      /\ DOMAIN input' \subseteq Nat
  BY SMTT(30), <1>1 DEF IInv, TypeOK, Popped
<1>4. QueueInv' /\ wjob' = Len(ran) + 1
  <2>1. Len(input) + Popped = Len(kind) /\ \A i \in DOMAIN input : input[i] = Popped + i
    BY DEF IInv, QueueInv
  <2>2. \A i \in DOMAIN input' : input'[i] = Popped' + i
    BY <1>1, <1>3, <2>1
  <2>3. Len(input') + Popped' = Len(kind')
    <3>1. Len(input') = Len(input) - 1 /\ Popped' = Popped + 1
      BY <1>1, <1>3
    <3>2. Len(kind') = Len(kind) /\ Popped \in Nat
      BY <1>3
    <3> QED BY <3>1, <3>2, <1>3, <2>1
  <2>4. wjob' = Len(ran) + 1
    BY <1>1, <1>3, <2>1
  <2> QED BY <2>2, <2>3, <2>4 DEF QueueInv
<1>7. WorkerInv' /\ MainInv' /\ SinkInv' /\ DeliveredInv'
  BY <1>4 DEF IInv, WorkerInv, MainInv, SinkInv, DeliveredInv
<1>5. Delivered' = Delivered /\ Completed' = Completed
  BY DEF Delivered, Completed
<1>6. PromiseInv' /\ AnsweredInv'
  BY <1>5 DEF IInv, TypeOK, PromiseInv, AnsweredInv
<1> QED BY <1>2, <1>4, <1>6, <1>7 DEF IInv

\* The job that runs is the next one in submission order.
LEMMA RunStep == ASSUME IInv, Run PROVE IInv'
<1> USE DEF Run, mainVars, Jobs, NoJob
<1>1. /\ wjob = Len(ran) + 1 /\ wjob \in Jobs
      /\ ran' \in Seq(Jobs) /\ Len(ran') = wjob
      /\ DOMAIN ran' = DOMAIN ran \union {wjob}
      /\ \A i \in DOMAIN ran : ran'[i] = ran[i]
      /\ ran'[wjob] = wjob
  <2>1. wjob = Len(ran) + 1 /\ wjob \in Jobs
    BY DEF IInv, TypeOK, WorkerInv
  <2> QED BY <2>1, AppendFacts DEF IInv, TypeOK
<1>2. /\ UNCHANGED <<kind, running, input, pending, completed, promise, wjob, mpc, mjob, delivered>>
      /\ wpc = "run" /\ wpc' = (IF kind[wjob] = "close" THEN "uncount" ELSE "deliver")
      /\ Len(ran) \in Nat /\ Len(ran') = Len(ran) + 1
  BY <1>1 DEF IInv, TypeOK
<1>3. TypeOK' /\ PendingAccounting' /\ FifoExecution'
  BY <1>1 DEF IInv, TypeOK, PendingAccounting, FifoExecution, InHand, Uncounted, WorkerPlaces
<1>8. QueueInv'
  <2>1. Popped' = Popped
    BY <1>2 DEF Popped
  <2>2. QueueInv
    BY DEF IInv
  <2> HIDE DEF Run
  <2> QED BY <1>2, <2>1, <2>2 DEF QueueInv
<1>9. WorkerInv' /\ MainInv'
  <2>1. WorkerInv /\ MainInv
    BY DEF IInv
  <2> HIDE DEF Run
  <2> QED BY <1>1, <1>2, <2>1 DEF WorkerInv, MainInv
<1>4. SinkInv' /\ DeliveredInv'
  <2>1. /\ \A i \in DOMAIN completed : completed[i] \in Nat /\ completed[i] < wjob
        /\ \A i \in DOMAIN delivered : delivered[i] \in Nat /\ delivered[i] < wjob
    <3>1. /\ \A i \in DOMAIN completed : completed[i] \in Nat
          /\ \A i \in DOMAIN delivered : delivered[i] \in Nat
      BY DEF IInv, TypeOK
    <3>2. /\ \A i \in DOMAIN completed : completed[i] <= Len(ran)
          /\ \A i \in DOMAIN delivered : delivered[i] <= Len(ran)
      BY DEF IInv, SinkInv, DeliveredInv
    <3>3. Len(ran) \in Nat /\ wjob = Len(ran) + 1
      BY <1>1, <1>2
    <3> HIDE DEF Run
    <3> QED BY <3>1, <3>2, <3>3
  <2>2. SinkInv /\ DeliveredInv
    BY DEF IInv
  <2>3. wjob \in Nat
    BY <1>1
  <2> HIDE DEF Run
  <2>4. SinkInv'
    BY <1>1, <1>2, <2>1, <2>2, <2>3 DEF SinkInv
  <2>5. DeliveredInv'
    BY <1>1, <1>2, <2>1, <2>2, <2>3 DEF DeliveredInv
  <2> QED BY <2>4, <2>5
<1>5. Delivered' = Delivered /\ Completed' = Completed
  BY DEF Delivered, Completed
<1>6. PromiseInv'
  BY <1>1, <1>5 DEF IInv, TypeOK, PromiseInv
<1>7. AnsweredInv'
  <2>1. AnsweredInv
    BY DEF IInv
  <2>6. \A j \in Jobs : j \in Nat
    BY DEF IInv, TypeOK
  <2> HIDE DEF Run
  <2>2. \A j \in Jobs : j <= Len(ran') => j <= Len(ran) \/ j = wjob
    BY <1>1, <1>2, <2>6
  <2>3. /\ UNCHANGED <<Jobs, kind, mpc, wjob>> /\ wpc # "deliver"
        /\ kind[wjob] = "async" => wpc' = "deliver"
    BY <1>2
  <2> HIDE DEF Jobs
  <2>4. \A j \in Jobs : kind[j] = "sync" =>
          j \in Delivered' \/ (j = Len(kind) /\ mpc \in {"count", "notify", "await"})
    BY <1>5, <2>1 DEF AnsweredInv
  <2>5. \A j \in Jobs : (kind[j] = "async" /\ j <= Len(ran')) =>
          j \in Delivered' \union Completed' \/ (wpc' = "deliver" /\ j = wjob)
    BY <1>5, <2>1, <2>2, <2>3 DEF AnsweredInv
  <2> QED BY <2>3, <2>4, <2>5 DEF AnsweredInv
<1> QED BY <1>3, <1>4, <1>6, <1>7, <1>8, <1>9 DEF IInv

\* The job handed back is above everything in the sink, or is the one awaited.
LEMMA DeliverStep == ASSUME IInv, Deliver PROVE IInv'
<1> USE DEF Deliver, mainVars, histVars, Jobs, NoJob
<1>1. wjob = Len(ran) /\ wjob \in Jobs /\ kind[wjob] \in {"async", "sync"}
  BY DEF IInv, TypeOK, WorkerInv, Kinds
<1>2. FifoExecution' /\ QueueInv' /\ WorkerInv' /\ MainInv' /\ PendingAccounting'
  BY DEF IInv, TypeOK, PendingAccounting, FifoExecution, QueueInv, WorkerInv, MainInv, InHand, Uncounted, Popped
<1>3. Delivered' = Delivered
  BY DEF Delivered
<1>4. wjob \notin Delivered
  BY DEF IInv, DeliveredInv, Delivered, Range
<1>5. CASE kind[wjob] = "sync"
  <2>1. promise' = wjob /\ completed' = completed /\ Completed' = Completed
    BY <1>5 DEF Completed
  <2>2. wjob = Len(kind) /\ wjob = mjob /\ mpc \in {"count", "notify", "await"}
    BY <1>1, <1>4, <1>5 DEF IInv, AnsweredInv, MainInv
  <2>3. TypeOK' /\ PromiseInv'
    BY <1>1, <1>3, <1>4, <1>5, <2>1, <2>2 DEF IInv, TypeOK, PromiseInv, WorkerPlaces
  <2>4. SinkInv' /\ DeliveredInv'
    BY <2>1 DEF IInv, TypeOK, SinkInv, DeliveredInv
  <2>5. AnsweredInv'
    BY <1>1, <1>3, <1>5, <2>1 DEF IInv, AnsweredInv
  <2> QED BY <1>2, <2>3, <2>4, <2>5 DEF IInv
<1>6. CASE kind[wjob] = "async"
  <2> DEFINE c == Len(completed) + 1
  <2>1. /\ promise' = promise /\ completed' \in Seq(Jobs)
        /\ DOMAIN completed' = DOMAIN completed \union {c}
        /\ \A i \in DOMAIN completed : completed'[i] = completed[i] /\ i < c
        /\ completed'[c] = wjob
        /\ Completed' = Completed \union {wjob}
    <3>1. completed \in Seq(Jobs) /\ completed' = Append(completed, wjob) /\ promise' = promise
      BY <1>6 DEF IInv, TypeOK
    <3> HIDE DEF Deliver
    <3>2. \A i \in DOMAIN completed : i < c
      BY <3>1
    <3>3. Completed' = Completed \union {wjob}
      BY <1>1, <3>1, AppendRange DEF Completed
    <3> QED BY <1>1, <3>1, <3>2, <3>3, AppendFacts
  <2>2. TypeOK' /\ PromiseInv'
    BY <1>3, <2>1 DEF IInv, TypeOK, PromiseInv, WorkerPlaces
  <2>3. UNCHANGED <<kind, wjob, ran, delivered>> /\ wpc = "deliver" /\ wpc' = "uncount"
    OBVIOUS
  <2> HIDE DEF Deliver
  <2>4. SinkInv'
    BY <1>1, <1>6, <2>1, <2>3 DEF IInv, SinkInv
  <2>5. DeliveredInv'
    BY <1>1, <1>6, <2>1, <2>3 DEF IInv, DeliveredInv
  <2>6. AnsweredInv'
    BY <1>1, <1>3, <1>6, <2>1 DEF IInv, AnsweredInv, Deliver
  <2> QED BY <1>2, <2>2, <2>4, <2>5, <2>6 DEF IInv
<1> QED BY <1>1, <1>5, <1>6

\* fetch_add in enqueue.
LEMMA CountJobStep == ASSUME IInv, CountJob PROVE IInv'
<1> USE DEF CountJob, workerVars, histVars, Jobs, NoJob
<1>1. TypeOK' /\ PendingAccounting' /\ FifoExecution' /\ QueueInv'
  BY DEF IInv, TypeOK, PendingAccounting, FifoExecution, QueueInv, WorkerInv, MainInv,
         InHand, Uncounted, Popped, WorkerPlaces, MainPlaces
<1>2. WorkerInv' /\ MainInv' /\ SinkInv' /\ DeliveredInv'
  BY DEF IInv, TypeOK, WorkerInv, MainInv, SinkInv, DeliveredInv
<1>3. Delivered' = Delivered /\ Completed' = Completed
  BY DEF Delivered, Completed
<1>4. PromiseInv' /\ AnsweredInv'
  BY <1>3 DEF IInv, TypeOK, MainInv, PromiseInv, AnsweredInv
<1> QED BY <1>1, <1>2, <1>4 DEF IInv

\* notify_one in enqueue.
LEMMA NotifyStep == ASSUME IInv, Notify PROVE IInv'
<1> USE DEF Notify, histVars, Jobs, NoJob, Woken
<1>1. TypeOK' /\ PendingAccounting' /\ FifoExecution' /\ QueueInv'
  BY DEF IInv, TypeOK, PendingAccounting, FifoExecution, QueueInv, WorkerInv, MainInv,
         InHand, Uncounted, Popped, WorkerPlaces, MainPlaces
<1>2. WorkerInv' /\ MainInv' /\ SinkInv' /\ DeliveredInv'
  BY DEF IInv, TypeOK, WorkerInv, MainInv, SinkInv, DeliveredInv
<1>3. Delivered' = Delivered /\ Completed' = Completed
  BY DEF Delivered, Completed
<1>4. PromiseInv' /\ AnsweredInv'
  BY <1>3 DEF IInv, TypeOK, MainInv, PromiseInv, AnsweredInv
<1> QED BY <1>1, <1>2, <1>4 DEF IInv

\* A native enters libmysqlclient on the main thread.
LEMMA BeginDirectCallStep == ASSUME IInv, BeginDirectCall PROVE IInv'
<1> USE DEF BeginDirectCall, workerVars, histVars, Jobs, NoJob
<1>1. TypeOK' /\ PendingAccounting' /\ FifoExecution' /\ QueueInv'
  BY DEF IInv, TypeOK, PendingAccounting, FifoExecution, QueueInv, WorkerInv, MainInv,
         InHand, Uncounted, Popped, WorkerPlaces, MainPlaces
<1>2. WorkerInv' /\ MainInv' /\ SinkInv' /\ DeliveredInv'
  BY DEF IInv, TypeOK, WorkerInv, MainInv, SinkInv, DeliveredInv
<1>3. Delivered' = Delivered /\ Completed' = Completed
  BY DEF Delivered, Completed
<1>4. PromiseInv' /\ AnsweredInv'
  BY <1>3 DEF IInv, TypeOK, MainInv, PromiseInv, AnsweredInv
<1> QED BY <1>1, <1>2, <1>4 DEF IInv

\* That native returns.
LEMMA EndDirectCallStep == ASSUME IInv, EndDirectCall PROVE IInv'
<1> USE DEF EndDirectCall, workerVars, histVars, Jobs, NoJob
<1>1. TypeOK' /\ PendingAccounting' /\ FifoExecution' /\ QueueInv'
  BY DEF IInv, TypeOK, PendingAccounting, FifoExecution, QueueInv, WorkerInv, MainInv,
         InHand, Uncounted, Popped, WorkerPlaces, MainPlaces
<1>2. WorkerInv' /\ MainInv' /\ SinkInv' /\ DeliveredInv'
  BY DEF IInv, TypeOK, WorkerInv, MainInv, SinkInv, DeliveredInv
<1>3. Delivered' = Delivered /\ Completed' = Completed
  BY DEF Delivered, Completed
<1>4. PromiseInv' /\ AnsweredInv'
  BY <1>3 DEF IInv, TypeOK, MainInv, PromiseInv, AnsweredInv
<1> QED BY <1>1, <1>2, <1>4 DEF IInv

\* notify_all in stop().
LEMMA StopNotifyStep == ASSUME IInv, StopNotify PROVE IInv'
<1> USE DEF StopNotify, histVars, Jobs, NoJob, Woken
<1>1. TypeOK' /\ PendingAccounting' /\ FifoExecution' /\ QueueInv'
  BY DEF IInv, TypeOK, PendingAccounting, FifoExecution, QueueInv, WorkerInv, MainInv,
         InHand, Uncounted, Popped, WorkerPlaces, MainPlaces
<1>2. WorkerInv' /\ MainInv' /\ SinkInv' /\ DeliveredInv'
  BY DEF IInv, TypeOK, WorkerInv, MainInv, SinkInv, DeliveredInv
<1>3. Delivered' = Delivered /\ Completed' = Completed
  BY DEF Delivered, Completed
<1>4. PromiseInv' /\ AnsweredInv'
  BY <1>3 DEF IInv, TypeOK, MainInv, PromiseInv, AnsweredInv
<1> QED BY <1>1, <1>2, <1>4 DEF IInv

\* The thread was joined: it has exited.
LEMMA JoinStep == ASSUME IInv, Join PROVE IInv'
<1> USE DEF Join, workerVars, histVars, Jobs, NoJob
<1>1. TypeOK' /\ PendingAccounting' /\ FifoExecution' /\ QueueInv'
  BY DEF IInv, TypeOK, PendingAccounting, FifoExecution, QueueInv, WorkerInv, MainInv,
         InHand, Uncounted, Popped, WorkerPlaces, MainPlaces
<1>2. WorkerInv' /\ MainInv' /\ SinkInv' /\ DeliveredInv'
  BY DEF IInv, TypeOK, WorkerInv, MainInv, SinkInv, DeliveredInv
<1>3. Delivered' = Delivered /\ Completed' = Completed
  BY DEF Delivered, Completed
<1>4. PromiseInv' /\ AnsweredInv'
  BY <1>3 DEF IInv, TypeOK, MainInv, PromiseInv, AnsweredInv
<1> QED BY <1>1, <1>2, <1>4 DEF IInv

\* input_.clear() finds the queue empty.
LEMMA ClearStep == ASSUME IInv, Clear PROVE IInv'
<1> USE DEF Clear, workerVars, histVars, Jobs, NoJob
<1>1. TypeOK' /\ PendingAccounting' /\ FifoExecution' /\ QueueInv'
  BY DEF IInv, TypeOK, PendingAccounting, FifoExecution, QueueInv, WorkerInv, MainInv,
         InHand, Uncounted, Popped, WorkerPlaces, MainPlaces
<1>2. WorkerInv' /\ MainInv' /\ SinkInv' /\ DeliveredInv'
  BY DEF IInv, TypeOK, WorkerInv, MainInv, SinkInv, DeliveredInv
<1>3. Delivered' = Delivered /\ Completed' = Completed
  BY DEF Delivered, Completed
<1>4. PromiseInv' /\ AnsweredInv'
  BY <1>3 DEF IInv, TypeOK, MainInv, PromiseInv, AnsweredInv
<1> QED BY <1>1, <1>2, <1>4 DEF IInv

\* The wait predicate was false.
LEMMA ParkStep == ASSUME IInv, Park PROVE IInv'
<1> USE DEF Park, mainVars, histVars, Jobs, NoJob, ShouldWake
<1>1. TypeOK' /\ PendingAccounting' /\ FifoExecution' /\ QueueInv'
  BY DEF IInv, TypeOK, PendingAccounting, FifoExecution, QueueInv, WorkerInv, MainInv,
         InHand, Uncounted, Popped, WorkerPlaces, MainPlaces
<1>2. WorkerInv' /\ MainInv' /\ SinkInv' /\ DeliveredInv'
  BY DEF IInv, TypeOK, WorkerInv, MainInv, SinkInv, DeliveredInv
<1>3. Delivered' = Delivered /\ Completed' = Completed
  BY DEF Delivered, Completed
<1>4. PromiseInv' /\ AnsweredInv'
  BY <1>3 DEF IInv, TypeOK, MainInv, PromiseInv, AnsweredInv
<1> QED BY <1>1, <1>2, <1>4 DEF IInv

\* The worker blocks.
LEMMA BlockStep == ASSUME IInv, Block PROVE IInv'
<1> USE DEF Block, mainVars, histVars, Jobs, NoJob
<1>1. TypeOK' /\ PendingAccounting' /\ FifoExecution' /\ QueueInv'
  BY DEF IInv, TypeOK, PendingAccounting, FifoExecution, QueueInv, WorkerInv, MainInv,
         InHand, Uncounted, Popped, WorkerPlaces, MainPlaces
<1>2. WorkerInv' /\ MainInv' /\ SinkInv' /\ DeliveredInv'
  BY DEF IInv, TypeOK, WorkerInv, MainInv, SinkInv, DeliveredInv
<1>3. Delivered' = Delivered /\ Completed' = Completed
  BY DEF Delivered, Completed
<1>4. PromiseInv' /\ AnsweredInv'
  BY <1>3 DEF IInv, TypeOK, MainInv, PromiseInv, AnsweredInv
<1> QED BY <1>1, <1>2, <1>4 DEF IInv

\* The worker wakes without a signal.
LEMMA SpuriousWakeStep == ASSUME IInv, SpuriousWake PROVE IInv'
<1> USE DEF SpuriousWake, mainVars, histVars, Jobs, NoJob
<1>1. TypeOK' /\ PendingAccounting' /\ FifoExecution' /\ QueueInv'
  BY DEF IInv, TypeOK, PendingAccounting, FifoExecution, QueueInv, WorkerInv, MainInv,
         InHand, Uncounted, Popped, WorkerPlaces, MainPlaces
<1>2. WorkerInv' /\ MainInv' /\ SinkInv' /\ DeliveredInv'
  BY DEF IInv, TypeOK, WorkerInv, MainInv, SinkInv, DeliveredInv
<1>3. Delivered' = Delivered /\ Completed' = Completed
  BY DEF Delivered, Completed
<1>4. PromiseInv' /\ AnsweredInv'
  BY <1>3 DEF IInv, TypeOK, MainInv, PromiseInv, AnsweredInv
<1> QED BY <1>1, <1>2, <1>4 DEF IInv

\* The worker leaves its loop with the queue empty.
LEMMA ExitStep == ASSUME IInv, Exit PROVE IInv'
<1> USE DEF Exit, mainVars, histVars, Jobs, NoJob
<1>1. TypeOK' /\ PendingAccounting' /\ FifoExecution' /\ QueueInv'
  BY DEF IInv, TypeOK, PendingAccounting, FifoExecution, QueueInv, WorkerInv, MainInv,
         InHand, Uncounted, Popped, WorkerPlaces, MainPlaces
<1>2. WorkerInv' /\ MainInv' /\ SinkInv' /\ DeliveredInv'
  BY DEF IInv, TypeOK, WorkerInv, MainInv, SinkInv, DeliveredInv
<1>3. Delivered' = Delivered /\ Completed' = Completed
  BY DEF Delivered, Completed
<1>4. PromiseInv' /\ AnsweredInv'
  BY <1>3 DEF IInv, TypeOK, MainInv, PromiseInv, AnsweredInv
<1> QED BY <1>1, <1>2, <1>4 DEF IInv

\* fetch_sub after the job was handed back.
LEMMA UncountStep == ASSUME IInv, Uncount PROVE IInv'
<1> USE DEF Uncount, mainVars, histVars, Jobs, NoJob
<1>1. TypeOK' /\ PendingAccounting' /\ FifoExecution' /\ QueueInv'
  BY SMTT(30) DEF IInv, TypeOK, PendingAccounting, FifoExecution, QueueInv, WorkerInv, MainInv,
         InHand, Uncounted, Popped, WorkerPlaces, MainPlaces
<1>2. WorkerInv' /\ MainInv' /\ SinkInv' /\ DeliveredInv'
  BY DEF IInv, TypeOK, WorkerInv, MainInv, SinkInv, DeliveredInv
<1>3. Delivered' = Delivered /\ Completed' = Completed
  BY DEF Delivered, Completed
<1>4. PromiseInv' /\ AnsweredInv'
  BY <1>3 DEF IInv, TypeOK, MainInv, PromiseInv, AnsweredInv
<1> QED BY <1>1, <1>2, <1>4 DEF IInv

\* A step that changes nothing keeps the invariant.
LEMMA StutterStep == ASSUME IInv, UNCHANGED vars PROVE IInv'
<1> USE DEF vars, Jobs, NoJob
<1>1. TypeOK' /\ PendingAccounting' /\ FifoExecution' /\ QueueInv'
  BY DEF IInv, TypeOK, PendingAccounting, FifoExecution, QueueInv, WorkerInv, MainInv,
         InHand, Uncounted, Popped, WorkerPlaces, MainPlaces
<1>2. WorkerInv' /\ MainInv' /\ SinkInv' /\ DeliveredInv'
  BY DEF IInv, TypeOK, WorkerInv, MainInv, SinkInv, DeliveredInv
<1>3. Delivered' = Delivered /\ Completed' = Completed
  BY DEF Delivered, Completed
<1>4. PromiseInv' /\ AnsweredInv'
  BY <1>3 DEF IInv, TypeOK, MainInv, PromiseInv, AnsweredInv
<1> QED BY <1>1, <1>2, <1>4 DEF IInv

-----------------------------------------------------------------------------
(* The invariant and what follows from it                                  *)

\* A new worker satisfies the invariant.
THEOREM Initially == Init => IInv
<1> SUFFICES ASSUME Init PROVE IInv
  OBVIOUS
<1>1. TypeOK
  BY DEF Init, TypeOK, Jobs, Kinds, NoJob, WorkerPlaces, MainPlaces
<1>2. PendingAccounting /\ FifoExecution /\ QueueInv /\ WorkerInv /\ MainInv
  BY DEF Init, PendingAccounting, FifoExecution, QueueInv, WorkerInv, MainInv, InHand, Uncounted, Popped, Jobs
<1>3. PromiseInv /\ SinkInv /\ DeliveredInv /\ AnsweredInv
  BY DEF Init, PromiseInv, SinkInv, DeliveredInv, AnsweredInv, Jobs
<1> QED BY <1>1, <1>2, <1>3 DEF IInv

\* Every step of the two threads keeps the invariant, one case per action.
THEOREM Inductive == IInv /\ [Next]_vars => IInv'
<1> SUFFICES ASSUME IInv, [Next]_vars PROVE IInv'
  OBVIOUS
<1>1. CASE \E k \in Kinds : Submit(k) BY <1>1, SubmitStep
<1>2. CASE AwaitReply BY <1>2, AwaitReplyStep
<1>3. CASE Tick BY <1>3, TickStep
<1>4. CASE Stop BY <1>4, StopStep
<1>5. CASE TakeJob BY <1>5, TakeJobStep
<1>6. CASE Run BY <1>6, RunStep
<1>7. CASE Deliver BY <1>7, DeliverStep
<1>8. CASE Enqueue BY <1>8, CountJobStep, NotifyStep DEF Enqueue
<1>9. CASE BeginDirectCall \/ EndDirectCall
  BY <1>9, BeginDirectCallStep, EndDirectCallStep
<1>10. CASE Stopping BY <1>10, StopNotifyStep, JoinStep, ClearStep DEF Stopping
<1>11. CASE Park \/ Block \/ SpuriousWake
  BY <1>11, ParkStep, BlockStep, SpuriousWakeStep
<1>12. CASE Exit \/ Uncount BY <1>12, ExitStep, UncountStep
<1>13. CASE Finished \/ UNCHANGED vars BY <1>13, StutterStep DEF Finished
<1> QED BY <1>1, <1>2, <1>3, <1>4, <1>5, <1>6, <1>7, <1>8, <1>9, <1>10, <1>11, <1>12, <1>13
        DEF Next, Worker

\* The invariant holds in every reachable state, for any number of jobs.
THEOREM Invariance == SafeSpec => []IInv
BY Initially, Inductive, PTL DEF SafeSpec

\* Every variable keeps its type, and pending_ stays within -1 .. jobs submitted.
THEOREM TypeCorrect == SafeSpec => []TypeOK
<1>1. IInv => TypeOK BY DEF IInv
<1> QED BY <1>1, Invariance, PTL

\* pending_ is always the queue plus the job in hand minus the one not counted yet:
\* the unsynchronised fetch_add and fetch_sub of enqueue and loop lose no update.
THEOREM PendingCorrect == SafeSpec => []PendingAccounting
<1>1. IInv => PendingAccounting BY DEF IInv
<1> QED BY <1>1, Invariance, PTL

\* Jobs are executed in submission order (input_ of ConnectionWorker is a FIFO).
THEOREM FifoCorrect == SafeSpec => []FifoExecution
<1>1. IInv => FifoExecution BY DEF IInv
<1> QED BY <1>1, Invariance, PTL

\* The jobs executed are the first Len(ran) ones.
LEMMA RanIsPrefix == IInv => Ran = 1..Len(ran)
<1> SUFFICES ASSUME IInv PROVE Ran = 1..Len(ran)
  OBVIOUS
<1>1. DOMAIN ran = 1..Len(ran) /\ \A i \in DOMAIN ran : ran[i] = i
  BY DEF IInv, TypeOK, FifoExecution
<1> QED BY <1>1, Zenon DEF Ran, Range

\* When runSync has its answer, every job submitted before has run.
THEOREM SyncCorrect == SafeSpec => []SyncNeverOvertakes
<1>1. IInv => SyncNeverOvertakes
  BY RanIsPrefix DEF IInv, TypeOK, PromiseInv, SyncNeverOvertakes, Jobs
<1> QED BY <1>1, Invariance, PTL

\* No reply is given twice, none before execution, asynchronous ones in order.
THEOREM RepliesCorrect == SafeSpec => []RepliesOnceInOrder
<1>1. IInv => RepliesOnceInOrder
  <2> SUFFICES ASSUME IInv PROVE RepliesOnceInOrder
    OBVIOUS
  <2>1. \A i \in DOMAIN delivered : delivered[i] \in 1..Len(ran)
    BY DEF IInv, TypeOK, DeliveredInv, Jobs
  <2> QED BY <2>1, RanIsPrefix DEF IInv, DeliveredInv, RepliesOnceInOrder
<1> QED BY <1>1, Invariance, PTL

\* When stop() has joined the thread, every submitted job was executed: the drain
\* in loop() leaves nothing for input_.clear() to drop.
THEOREM DrainCorrect == SafeSpec => []StoppedMeansDrained
<1>1. IInv => StoppedMeansDrained
  <2> SUFFICES ASSUME IInv, mpc \in {"clear", "gone"} PROVE wpc = "exited" /\ input = <<>> /\ Jobs \subseteq Ran
    BY DEF StoppedMeansDrained
  <2>1. wpc = "exited" /\ input = <<>>
    BY DEF IInv, MainInv, WorkerInv
  <2>2. Len(ran) = Len(kind)
    BY <2>1 DEF IInv, TypeOK, QueueInv, Popped
  <2>3. DOMAIN kind = 1..Len(kind)
    BY DEF IInv, TypeOK
  <2> QED BY <2>1, <2>2, <2>3, RanIsPrefix DEF Jobs
<1> QED BY <1>1, Invariance, PTL

-----------------------------------------------------------------------------
(* The worker implements QueryService                                      *)

\* Initial states of the worker are initial states of QueryService.
THEOREM RefinesInit == Init => QS!Init
BY DEF Init, QS!Init, Delivered, Range

\* The push of enqueue is Submit: no synchronous caller is waiting.
LEMMA RefinesSubmit == ASSUME IInv, NEW k \in Kinds, Submit(k) PROVE QS!Submit(k)
<1>1. QS!Idle
  BY DEF IInv, AnsweredInv, Submit, QS!Idle, QS!Jobs, Jobs
<1>2. UNCHANGED <<Len(ran), Delivered>> /\ kind' = Append(kind, k) /\ mpc = "script" /\ mpc' = "count"
  BY DEF Submit, histVars, Delivered
<1> QED BY <1>1, <1>2 DEF QS!Submit

\* Executing a job is Perform.
LEMMA RefinesRun == ASSUME IInv, Run PROVE QS!Perform
<1>1. Len(ran) < Len(kind) /\ Len(ran') = Len(ran) + 1
  BY DEF IInv, TypeOK, QueueInv, Popped, Run
<1>2. UNCHANGED <<kind, Delivered, mpc>>
  BY DEF Run, mainVars, Delivered
<1> QED BY <1>1, <1>2 DEF QS!Perform

\* Answering a synchronous caller is Answer of one job.
LEMMA RefinesAwait == ASSUME IInv, AwaitReply PROVE QS!Answer({promise})
<1>1. /\ promise \in Jobs /\ promise \in 1..Len(ran) /\ kind[promise] = "sync"
      /\ promise \notin Delivered
  BY DEF IInv, TypeOK, PromiseInv, AwaitReply, Jobs, NoJob
<1>2. Delivered' = Delivered \union {promise}
  BY <1>1, AppendRange DEF IInv, TypeOK, AwaitReply, Delivered
<1>3. UNCHANGED <<kind, Len(ran)>> /\ mpc = "await" /\ mpc' = "script"
  BY DEF AwaitReply
<1> QED BY <1>1, <1>2, <1>3 DEF QS!Answer, QS!Replies, QS!Jobs, Jobs

\* The tick is Answer of the whole sink: no earlier asynchronous job is left out.
LEMMA RefinesTick == ASSUME IInv, Tick PROVE QS!Answer(Completed)
<1>1. \A i \in DOMAIN completed :
        /\ completed[i] \in Jobs /\ completed[i] \in 1..Len(ran)
        /\ kind[completed[i]] = "async"
        /\ wpc = "deliver" => completed[i] < wjob
  BY DEF IInv, TypeOK, SinkInv, Jobs
<1>2. \A j \in Completed : /\ j \in Jobs /\ j \in 1..Len(ran) /\ kind[j] = "async"
                           /\ wpc = "deliver" => j < wjob
  BY <1>1, Zenon DEF Completed, Range
<1>3. Completed # {}
  <2>1. 1 \in DOMAIN completed
    BY DEF Tick, IInv, TypeOK
  <2> QED BY <2>1, Zenon DEF Completed, Range
<1>4. Completed \cap Delivered = {}
  <2>1. ASSUME NEW j \in Completed, j \in Delivered PROVE FALSE
    <3>1. PICK x \in DOMAIN completed : completed[x] = j
      BY <2>1, Zenon DEF Completed, Range
    <3>2. PICK i \in DOMAIN delivered : delivered[i] = j
      BY <2>1, Zenon DEF Delivered, Range
    <3>3. delivered[i] < completed[x]
      BY <3>1, <3>2, <1>2 DEF IInv, DeliveredInv
    <3> QED BY <3>1, <3>2, <3>3, <1>2 DEF IInv, TypeOK, Jobs
  <2> QED BY <2>1
<1>5. \A i, j \in Jobs : (i < j /\ kind[i] = "async" /\ kind[j] = "async" /\ j \in Completed)
                           => i \in Delivered \union Completed
  <2>1. AnsweredInv /\ \A i \in Jobs : i \in Nat
    BY DEF IInv, TypeOK, Jobs
  <2>2. Len(ran) \in Nat
    BY DEF IInv, TypeOK
  <2>3. ASSUME NEW i \in Jobs, NEW j \in Jobs, i < j, kind[i] = "async", j \in Completed
        PROVE  i <= Len(ran) /\ (wpc = "deliver" => i < wjob)
    <3>1. j <= Len(ran) /\ (wpc = "deliver" => j < wjob /\ wjob \in Nat)
      BY <1>2, <2>3, <2>2 DEF IInv, TypeOK, WorkerInv
    <3> QED BY <2>1, <2>2, <2>3, <3>1
  <2>4. \A i \in Jobs : ~(i < i)
    BY <2>1
  <2> QED BY <2>1, <2>3, <2>4 DEF AnsweredInv
<1>6. Delivered' = Delivered \union Completed
  BY RangeConcatenation DEF IInv, TypeOK, Tick, Delivered, Completed
<1>7. UNCHANGED <<kind, Len(ran), mpc>>
  BY DEF Tick, mainVars
<1> QED BY <1>2, <1>3, <1>4, <1>5, <1>6, <1>7 DEF QS!Answer, QS!Replies, QS!Jobs, Jobs

\* The end of stop() is Close: everything was performed.
LEMMA RefinesClear == ASSUME IInv, Clear PROVE QS!Close
<1>1. QS!Idle
  BY DEF IInv, AnsweredInv, Clear, QS!Idle, QS!Jobs, Jobs
<1>2. Len(ran) = Len(kind)
  BY DEF IInv, TypeOK, QueueInv, WorkerInv, MainInv, Popped, Clear
<1>3. UNCHANGED <<kind, Len(ran), Delivered>> /\ mpc = "clear" /\ mpc' = "gone"
  BY DEF Clear, histVars, Delivered
<1> QED BY <1>1, <1>2, <1>3 DEF QS!Close

\* All other steps are invisible to the scripts.
LEMMA Stutters ==
  ASSUME IInv,
         \/ Enqueue \/ BeginDirectCall \/ EndDirectCall \/ Stop \/ StopNotify \/ Join
         \/ Park \/ Block \/ SpuriousWake \/ TakeJob \/ Exit \/ Deliver \/ Uncount
         \/ Finished \/ UNCHANGED vars
  PROVE  UNCHANGED QS!vars
<1>1. UNCHANGED <<kind, ran, delivered>>
  BY DEF Enqueue, CountJob, Notify, BeginDirectCall, EndDirectCall, Stop, StopNotify, Join,
         Park, Block, SpuriousWake, TakeJob, Exit, Deliver, Uncount, Finished, vars, histVars
<1>2. (mpc' # "gone") = (mpc # "gone")
  BY DEF Enqueue, CountJob, Notify, BeginDirectCall, EndDirectCall, Stop, StopNotify, Join,
         Park, Block, SpuriousWake, TakeJob, Exit, Deliver, Uncount, Finished, vars, mainVars
<1> QED BY <1>1, <1>2 DEF QS!vars, Delivered

\* Every step of the two threads is a step of QueryService or a stutter.
THEOREM RefinesNext == IInv /\ [Next]_vars => [QS!Next]_(QS!vars)
<1> SUFFICES ASSUME IInv, [Next]_vars PROVE QS!Next \/ UNCHANGED QS!vars
  OBVIOUS
<1>1. CASE \E k \in Kinds : Submit(k)
  BY <1>1, RefinesSubmit DEF QS!Next, Kinds
<1>2. CASE Run
  BY <1>2, RefinesRun DEF QS!Next
<1>3. CASE AwaitReply
  <2>1. {promise} \in SUBSET QS!Jobs
    BY <1>3 DEF IInv, TypeOK, AwaitReply, Jobs, QS!Jobs
  <2> QED BY <1>3, <2>1, RefinesAwait DEF QS!Next
<1>4. CASE Tick
  <2>1. Completed \in SUBSET QS!Jobs
    BY RangeOfSeq DEF IInv, TypeOK, Completed, Jobs, QS!Jobs
  <2> QED BY <1>4, <2>1, RefinesTick DEF QS!Next
<1>5. CASE Clear
  BY <1>5, RefinesClear DEF QS!Next
<1>6. CASE \/ Enqueue \/ BeginDirectCall \/ EndDirectCall \/ Stop \/ StopNotify \/ Join
           \/ Park \/ Block \/ SpuriousWake \/ TakeJob \/ Exit \/ Deliver \/ Uncount
           \/ Finished \/ UNCHANGED vars
  BY <1>6, Stutters
<1> QED BY <1>1, <1>2, <1>3, <1>4, <1>5, <1>6 DEF Next, Stopping, Worker

\* The worker thread, its queue, sink and locks implement QueryService: this is what
\* the natives may rely on (QueryQueue.hpp), for any number of jobs.
THEOREM Refinement == SafeSpec => ServiceSpec
BY RefinesInit, RefinesNext, Invariance, PTL DEF SafeSpec, ServiceSpec, QS!Spec

-----------------------------------------------------------------------------
(* What the liveness of the thread rests on                                *)

\* A worker about to block saw an empty queue; one that sleeps over a queued job is about
\* to be notified by the enqueue in progress; a synchronous job that ran and has no answer
\* yet is in the worker's hands.
WakeInv ==
  /\ wpc = "park" => input = <<>>
  /\ wpc = "asleep" /\ input # <<>> => mpc \in {"count", "notify"}
  /\ (mpc \in {"count", "notify", "await"} /\ kind[mjob] = "sync" /\ promise = NoJob) =>
       mjob > Len(ran) \/ (wpc = "deliver" /\ wjob = mjob)

\* While a job waits to be run, the worker has a step to take or enqueue is about to wake
\* it; while a synchronous native waits, its job has not run, or is being handed back.
NothingStranded ==
  /\ (\E j \in Jobs : j \notin Ran) =>
       \/ wpc \in {"test", "run", "deliver", "uncount"}
       \/ wpc = "asleep" /\ mpc \in {"count", "notify"}
  /\ mpc = "await" /\ promise = NoJob => mjob \notin Ran \/ (wpc = "deliver" /\ wjob = mjob)

Stage ==
  CASE wpc = "run" -> -3
    [] wpc = "test" -> -2
    [] wpc \in {"asleep", "uncount"} -> -1
    [] OTHER -> 0

\* How many steps of the worker precede the execution of job j, at most.
Distance(j) == 4 * (j - Len(ran)) + Stage

\* No step of anybody takes a job further from its execution, and every step of the
\* worker brings it nearer.
JobsApproach ==
  [][\A j \in Jobs : j \notin Ran =>
       /\ Distance(j) > 0
       /\ \/ j \in Ran'
          \/ Distance(j)' <= Distance(j) /\ (Worker => Distance(j)' < Distance(j))]_vars

Left ==
  CASE wpc = "run" -> 4
    [] wpc = "deliver" -> 3
    [] wpc = "uncount" -> 2
    [] wpc = "test" -> 1
    [] OTHER -> 0

\* How many steps a worker that was told to stop takes at most.
Work == 4 * Len(input) + Left

\* Once stop() has signalled a worker that is awake, every step is the thread's, shortens
\* what it has left to do and does not put it to sleep, until it is joined.
ClosingEnds ==
  [][mpc = "join" /\ wpc \notin {"park", "asleep"} =>
       \/ wpc = "exited" /\ mpc' = "clear"
       \/ /\ wpc # "exited"
          /\ mpc' = "join" /\ wpc' \notin {"park", "asleep"}
          /\ Worker /\ Work' < Work]_vars

\* The first state satisfies the invariant.
LEMMA WakeInit == Init => WakeInv
BY DEF Init, WakeInv, NoJob

\* A job is queued: enqueue has the mutex, so no thread is about to block, and it notifies.
LEMMA WakeSubmit == ASSUME IInv, WakeInv, NEW k \in Kinds, Submit(k) PROVE WakeInv'
<1>1. /\ wpc' = wpc /\ wpc # "park" /\ mpc' = "count" /\ ran' = ran
      /\ mjob' = Len(kind) + 1
  BY DEF Submit, InputMutexFree, workerVars, histVars
<1>2. mjob' > Len(ran')
  <2>1. Len(ran) \in Nat /\ Len(kind) \in Nat /\ Len(input) \in Nat /\ Len(ran) <= Len(kind)
    BY DEF IInv, TypeOK, QueueInv, Popped
  <2> QED BY <1>1, <2>1
<1> QED BY <1>1, <1>2 DEF WakeInv

\* A job that runs and has a promise goes to the step that fulfils it.
LEMMA WakeRun == ASSUME IInv, WakeInv, Run PROVE WakeInv'
<1>1. /\ wpc = "run" /\ wpc' = (IF kind[wjob] = "close" THEN "uncount" ELSE "deliver")
      /\ ran' = Append(ran, wjob)
      /\ UNCHANGED <<kind, input, promise, wjob, mpc, mjob>>
  BY DEF Run, mainVars
<1>2. /\ Len(ran) \in Nat /\ Len(ran') = Len(ran) + 1 /\ wjob = Len(ran) + 1
  BY <1>1 DEF IInv, TypeOK, WorkerInv
<1>3. ASSUME mpc \in {"count", "notify", "await"}, kind[mjob] = "sync", promise = NoJob
      PROVE  mjob > Len(ran') \/ (wpc' = "deliver" /\ wjob = mjob)
  <2>1. mjob \in Jobs /\ mjob \in Nat
    BY <1>3 DEF IInv, TypeOK, MainInv, Jobs
  <2>2. mjob > Len(ran)
    BY <1>1, <1>3 DEF WakeInv
  <2>3. CASE mjob = wjob
    BY <1>1, <1>3, <2>3
  <2>4. CASE mjob # wjob
    BY <1>2, <2>1, <2>2, <2>4
  <2> QED BY <2>3, <2>4
<1> QED BY <1>1, <1>3 DEF WakeInv

\* A fulfilled promise is no longer missing.
LEMMA WakeDeliver == ASSUME IInv, WakeInv, Deliver PROVE WakeInv'
<1>1. /\ wpc = "deliver" /\ wpc' = "uncount"
      /\ IF kind[wjob] = "sync" THEN promise' = wjob ELSE promise' = promise
      /\ UNCHANGED <<kind, wjob, mpc, mjob, ran>>
  BY DEF Deliver, mainVars, histVars
<1>2. wjob # NoJob
  BY <1>1 DEF IInv, TypeOK, WorkerInv, NoJob
<1> QED BY <1>1, <1>2 DEF WakeInv

\* Steps that queue, run and answer nothing.
LEMMA WakeOther ==
  ASSUME IInv, WakeInv,
         \/ Enqueue \/ AwaitReply \/ Tick \/ BeginDirectCall \/ EndDirectCall \/ Stop \/ Stopping
         \/ Park \/ Block \/ TakeJob \/ Exit \/ Uncount \/ SpuriousWake \/ Finished \/ UNCHANGED vars
  PROVE  WakeInv'
<1> USE DEF workerVars, mainVars, histVars
<1>1. CASE Enqueue
  BY <1>1 DEF Enqueue, CountJob, Notify, Woken, WakeInv
<1>2. CASE AwaitReply \/ Tick \/ BeginDirectCall \/ EndDirectCall \/ Stop
  BY <1>2 DEF AwaitReply, Tick, BeginDirectCall, EndDirectCall, Stop, WakeInv
<1>3. CASE Stopping
  BY <1>3 DEF Stopping, StopNotify, Join, Clear, Woken, WakeInv
<1>4. CASE Park \/ Block \/ TakeJob \/ Exit \/ Uncount \/ SpuriousWake
  BY <1>4 DEF Park, Block, TakeJob, Exit, Uncount, SpuriousWake, ShouldWake, WakeInv
<1>5. CASE Finished \/ UNCHANGED vars
  BY <1>5 DEF Finished, vars, WakeInv
<1> QED BY <1>1, <1>2, <1>3, <1>4, <1>5

\* No wakeup for a job is lost, in any reachable state.
THEOREM WakeInvariance == SafeSpec => []WakeInv
<1>1. IInv /\ WakeInv /\ [Next]_vars => WakeInv'
  BY WakeSubmit, WakeRun, WakeDeliver, WakeOther DEF Next, Worker
<1> QED BY <1>1, WakeInit, Invariance, PTL DEF SafeSpec

\* The safety core of EveryJobExecuted: in no reachable state is a job or a caller
\* stranded, whatever falls between the predicate of loop() and its block.
THEOREM NothingStrandedCorrect == SafeSpec => []NothingStranded
<1>1. IInv /\ WakeInv => NothingStranded
  <2> SUFFICES ASSUME IInv, WakeInv PROVE NothingStranded
    OBVIOUS
  <2>1. /\ Len(ran) \in Nat /\ Len(kind) \in Nat /\ Len(input) \in Nat
        /\ Jobs = 1..Len(kind) /\ Ran = 1..Len(ran) /\ wpc \in WorkerPlaces
    BY RanIsPrefix DEF IInv, TypeOK, Jobs
  <2>2. ASSUME NEW j \in Jobs, j \notin Ran
        PROVE  \/ wpc \in {"test", "run", "deliver", "uncount"}
               \/ wpc = "asleep" /\ mpc \in {"count", "notify"}
    <3>1. wpc = "run" \/ Len(input) > 0
      BY <2>1, <2>2 DEF IInv, QueueInv, Popped
    <3>2. wpc = "run" \/ input # <<>>
      BY <3>1
    <3> QED BY <2>1, <3>2 DEF WakeInv, IInv, WorkerInv, WorkerPlaces
  <2>3. ASSUME mpc = "await", promise = NoJob
        PROVE  mjob \notin Ran \/ (wpc = "deliver" /\ wjob = mjob)
    BY <2>1, <2>3 DEF IInv, MainInv, WakeInv
  <2> QED BY <2>2, <2>3 DEF NothingStranded
<1> QED BY <1>1, Invariance, WakeInvariance, PTL

\* What a worker's step does to the place of the worker and to the jobs executed.
LEMMA WorkerMoves ==
  ASSUME IInv, Worker
  PROVE  /\ kind' = kind
         /\ \/ wpc = "test" /\ wpc' = "park" /\ ran' = ran /\ input' = input /\ input = <<>> /\ running
            \/ wpc = "park" /\ wpc' = "asleep" /\ ran' = ran /\ input' = input
            \/ wpc = "test" /\ wpc' = "run" /\ ran' = ran /\ input # <<>> /\ input' = Tail(input)
            \/ wpc = "test" /\ wpc' = "exited" /\ ran' = ran /\ input' = input /\ input = <<>>
            \/ /\ wpc = "run" /\ wpc' \in {"deliver", "uncount"} /\ input' = input
               /\ ran' = Append(ran, wjob)
            \/ wpc = "deliver" /\ wpc' = "uncount" /\ ran' = ran /\ input' = input
            \/ wpc = "uncount" /\ wpc' = "test" /\ ran' = ran /\ input' = input
<1> USE DEF mainVars, histVars
<1>1. CASE Park BY <1>1 DEF Park, ShouldWake
<1>2. CASE Block BY <1>2 DEF Block
<1>3. CASE TakeJob BY <1>3 DEF TakeJob
<1>4. CASE Exit BY <1>4 DEF Exit
<1>5. CASE Run BY <1>5 DEF Run
<1>6. CASE Deliver BY <1>6 DEF Deliver
<1>7. CASE Uncount BY <1>7 DEF Uncount
<1> QED BY <1>1, <1>2, <1>3, <1>4, <1>5, <1>6, <1>7 DEF Worker

\* Other steps execute nothing; at most they wake a worker that sleeps.
LEMMA OthersWake ==
  ASSUME IInv, [Next]_vars, ~Worker
  PROVE  ran' = ran /\ (wpc' = wpc \/ (wpc = "asleep" /\ wpc' = "test"))
<1> USE DEF workerVars, mainVars, histVars
<1>1. CASE \E k \in Kinds : Submit(k)
  BY <1>1 DEF Submit
<1>2. CASE Enqueue \/ AwaitReply \/ Tick \/ BeginDirectCall \/ EndDirectCall
  BY <1>2 DEF Enqueue, CountJob, Notify, Woken, AwaitReply, Tick, BeginDirectCall, EndDirectCall
<1>3. CASE Stop \/ Stopping \/ SpuriousWake
  BY <1>3 DEF Stop, Stopping, StopNotify, Join, Clear, Woken, SpuriousWake
<1>4. CASE Finished \/ UNCHANGED vars
  BY <1>4 DEF Finished, vars
<1> QED BY <1>1, <1>2, <1>3, <1>4 DEF Next

\* A job waits for a bounded number of worker steps, and no step makes it wait longer:
\* new jobs, the ticks, direct calls and stop() do not, for any number of jobs.
THEOREM JobsApproachCorrect == SafeSpec => JobsApproach
<1>1. ASSUME IInv, WakeInv, [Next]_vars, NEW j \in Jobs, j \notin Ran
      PROVE  /\ Distance(j) > 0
             /\ \/ j \in Ran'
                \/ Distance(j)' <= Distance(j) /\ (Worker => Distance(j)' < Distance(j))
  <2>1. /\ Len(ran) \in Nat /\ Len(kind) \in Nat /\ Len(input) \in Nat
        /\ Ran = 1..Len(ran) /\ wpc \in WorkerPlaces /\ j \in Nat /\ j > Len(ran)
        /\ j <= Len(kind)
    BY <1>1, RanIsPrefix DEF IInv, TypeOK, Jobs
  <2>2. Stage \in -3..0 /\ Distance(j) > 0
    BY <2>1 DEF Stage, Distance, WorkerPlaces
  <2>3. ASSUME ran' = ran, Stage' \in Int, Stage' < Stage
        PROVE  Distance(j)' < Distance(j) /\ Distance(j)' <= Distance(j)
    BY <2>1, <2>2, <2>3 DEF Distance
  <2>4. wpc = "run" \/ input # <<>>
    BY <1>1, <2>1 DEF IInv, QueueInv, Popped
  <2>5. CASE Worker
    <3>1. CASE wpc = "run"
      <4>1. /\ ran' = Append(ran, wjob) /\ wjob = Len(ran) + 1 /\ wjob \in Jobs
            /\ wpc' \in {"deliver", "uncount"}
        <5>1. ran' = Append(ran, wjob) /\ wpc' \in {"deliver", "uncount"}
          BY <1>1, <2>5, <3>1, WorkerMoves
        <5>2. wjob = Len(ran) + 1 /\ wjob \in Jobs
          BY <1>1, <2>1, <3>1 DEF IInv, WorkerInv, TypeOK, NoJob
        <5> QED BY <5>1, <5>2
      <4>2. Len(ran') = Len(ran) + 1 /\ Ran' = Ran \union {wjob}
        <5>1. ran \in Seq(Jobs)
          BY <1>1 DEF IInv, TypeOK
        <5>2. Len(Append(ran, wjob)) = Len(ran) + 1 /\ Range(Append(ran, wjob)) = Range(ran) \union {wjob}
          BY <4>1, <5>1, AppendFacts, AppendRange
        <5> QED BY <4>1, <5>2 DEF Ran
      <4>3. CASE j = wjob
        BY <2>2, <4>2, <4>3
      <4>4. CASE j # wjob
        <5>1. Stage = -3 /\ Stage' \in {0, -1}
          BY <3>1, <4>1 DEF Stage
        <5>2. Distance(j)' < Distance(j)
          BY <2>1, <4>2, <5>1 DEF Distance
        <5>3. Distance(j)' \in Int /\ Distance(j) \in Int
          BY <2>1, <4>2, <5>1 DEF Distance
        <5> QED BY <2>2, <5>2, <5>3
      <4> QED BY <4>3, <4>4
    <3>2. CASE wpc # "run"
      <4>1. /\ ran' = ran
            /\ \/ wpc = "test" /\ wpc' = "run"
               \/ wpc = "deliver" /\ wpc' = "uncount"
               \/ wpc = "uncount" /\ wpc' = "test"
        BY <1>1, <2>4, <2>5, <3>2, WorkerMoves DEF WakeInv
      <4>2. Stage' \in Int /\ Stage' < Stage
        BY <4>1 DEF Stage
      <4> QED BY <2>2, <2>3, <4>1, <4>2
    <3> QED BY <3>1, <3>2
  <2>6. CASE ~Worker
    <3>1. ran' = ran /\ (wpc' = wpc \/ (wpc = "asleep" /\ wpc' = "test"))
      BY <1>1, <2>6, OthersWake
    <3>2. Stage' = Stage \/ (Stage' \in Int /\ Stage' < Stage)
      BY <3>1 DEF Stage
    <3>3. Distance(j)' <= Distance(j)
      <4>1. CASE Stage' = Stage
        BY <2>1, <2>2, <3>1, <4>1 DEF Distance
      <4>2. CASE Stage' \in Int /\ Stage' < Stage
        BY <2>3, <3>1, <4>2
      <4> QED BY <3>2, <4>1, <4>2
    <3> QED BY <2>2, <2>6, <3>3
  <2> QED BY <2>5, <2>6
<1>2. IInv /\ WakeInv /\ [Next]_vars =>
        \A j \in Jobs : j \notin Ran =>
          /\ Distance(j) > 0
          /\ \/ j \in Ran'
             \/ Distance(j)' <= Distance(j) /\ (Worker => Distance(j)' < Distance(j))
  BY <1>1
<1> QED BY <1>2, Invariance, WakeInvariance, PTL DEF SafeSpec, JobsApproach

\* The safety core of StopReturnsWhenWorkerAwake: once stop() has signalled a worker that
\* is awake, nothing but the worker moves, it takes at most Work steps, which the drain of
\* loop() bounds, and it never sleeps again before it is joined.
THEOREM ClosingEndsCorrect == SafeSpec => ClosingEnds
<1>1. ASSUME IInv, [Next]_vars, ~UNCHANGED vars, mpc = "join", wpc \notin {"park", "asleep"}
      PROVE  \/ wpc = "exited" /\ mpc' = "clear"
             \/ /\ wpc # "exited"
                /\ mpc' = "join" /\ wpc' \notin {"park", "asleep"}
                /\ Worker /\ Work' < Work
  <2>1. Join \/ Worker
    BY <1>1 DEF Next, Submit, Enqueue, CountJob, Notify, AwaitReply, Tick, BeginDirectCall, EndDirectCall,
                Stop, Stopping, StopNotify, Clear, SpuriousWake, Finished
  <2>2. CASE Join
    BY <2>2 DEF Join
  <2>3. CASE Worker
    <3>1. ~running /\ Len(input) \in Nat
      BY <1>1 DEF IInv, TypeOK, MainInv
    <3>2. mpc' = "join"
      BY <1>1, <2>3 DEF Worker, Park, Block, TakeJob, Exit, Run, Deliver, Uncount, mainVars
    <3>3. \/ /\ wpc = "test" /\ wpc' = "run"
             /\ Len(input') = Len(input) - 1 /\ Len(input') \in Nat
          \/ /\ Len(input') = Len(input)
             /\ \/ wpc = "test" /\ wpc' = "exited"
                \/ wpc = "run" /\ wpc' \in {"deliver", "uncount"}
                \/ wpc = "deliver" /\ wpc' = "uncount"
                \/ wpc = "uncount" /\ wpc' = "test"
      <4>1. input # <<>> => Len(Tail(input)) = Len(input) - 1 /\ Len(Tail(input)) \in Nat
        BY <1>1 DEF IInv, TypeOK
      <4> QED BY <1>1, <2>3, <3>1, <4>1, WorkerMoves
    <3>4. Work' < Work /\ wpc # "exited" /\ wpc' \notin {"park", "asleep"}
      BY <3>1, <3>3 DEF Work, Left
    <3> QED BY <2>3, <3>2, <3>4
  <2> QED BY <2>1, <2>2, <2>3
<1>2. IInv /\ [Next]_vars =>
        [mpc = "join" /\ wpc \notin {"park", "asleep"} =>
           \/ wpc = "exited" /\ mpc' = "clear"
           \/ /\ wpc # "exited"
              /\ mpc' = "join" /\ wpc' \notin {"park", "asleep"}
              /\ Worker /\ Work' < Work]_vars
  BY <1>1
<1> QED BY <1>2, Invariance, PTL DEF SafeSpec, ClosingEnds
=============================================================================
