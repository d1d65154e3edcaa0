------------------------------ MODULE HashPool ------------------------------
(***************************************************************************)
(* The hashing thread pool of class QueryEngine (QueryQueue.cpp): scripts  *)
(* queue Argon2id jobs, a pool of worker threads computes them, the tick   *)
(* collects the results and calls the scripts back.                        *)
(*                                                                         *)
(* A job is its submission number; what it computes is left out.           *)
(***************************************************************************)
EXTENDS Naturals, Sequences, FiniteSets, Functions

CONSTANTS
  Workers,  \* hashWorkers_
  MaxJobs   \* bound on the number of jobs submitted

\* startHashing starts at least one thread.
ASSUME HashPoolAssumption == IsFiniteSet(Workers) /\ Workers # {} /\ MaxJobs \in Nat

VARIABLES
  hashRunning, \* hashRunning_
  hashInput,   \* hashInput_
  hashOutput,  \* hashOutput_
  place,       \* place[w] : where thread w is in hashLoop()
  inHand,      \* inHand[w] : the job thread w computes, or NoJob
  mpc,         \* where the main thread is
  submitted,   \* how many jobs were submitted
  delivered    \* history: the jobs dispatched on the tick, in order

vars == <<hashRunning, hashInput, hashOutput, place, inHand, mpc, submitted, delivered>>

NoJob == 0
Jobs == 1..submitted

\* test: about to evaluate the wait predicate.  park: it was false, the thread holds
\* hashInputMutex_.  asleep: blocked in the condition variable.  hash: computing.
Places == {"unborn", "test", "park", "asleep", "hash", "exited"}

\* off: before onLoad.  script: between natives and ticks.  notify: in enqueueHash.
\* signal, join: in stopHashing.  gone: the engine is destroyed.
MainPlaces == {"off", "script", "notify", "signal", "join", "gone"}

Init ==
  /\ hashRunning = FALSE
  /\ hashInput = <<>>
  /\ hashOutput = <<>>
  /\ place = [w \in Workers |-> "unborn"]
  /\ inHand = [w \in Workers |-> NoJob]
  /\ mpc = "off"
  /\ submitted = 0
  /\ delivered = <<>>

\* The mutex is held from the failed predicate to the block inside wait.
InputMutexFree == \A w \in Workers : place[w] # "park"

-----------------------------------------------------------------------------
(* Main thread                                                             *)

\* startHashing, called by onLoad.
StartHashing ==
  /\ mpc = "off"
  /\ hashRunning' = TRUE
  /\ place' = [w \in Workers |-> "test"]
  /\ mpc' = "script"
  /\ UNCHANGED <<hashInput, hashOutput, inHand, submitted, delivered>>

\* enqueueHash: the push under hashInputMutex_.
EnqueueHash ==
  /\ mpc = "script"
  /\ submitted < MaxJobs
  /\ InputMutexFree
  /\ submitted' = submitted + 1
  /\ hashInput' = Append(hashInput, submitted + 1)
  /\ mpc' = "notify"
  /\ UNCHANGED <<hashRunning, hashOutput, place, inHand, delivered>>

\* Variant: enqueueHash forgets the notification.
NotifyNobody ==
  /\ mpc = "notify"
  /\ mpc' = "script"
  /\ UNCHANGED <<hashRunning, hashInput, hashOutput, place, inHand, submitted, delivered>>

\* enqueueHash: notify_one wakes one blocked thread, if there is one.
NotifyOne ==
  /\ mpc = "notify"
  /\ mpc' = "script"
  /\ IF \E w \in Workers : place[w] = "asleep"
       THEN \E w \in Workers : place[w] = "asleep" /\ place' = [place EXCEPT ![w] = "test"]
       ELSE place' = place
  /\ UNCHANGED <<hashRunning, hashInput, hashOutput, inHand, submitted, delivered>>

\* drainHashes and dispatchHash of every job drained.
Tick ==
  /\ mpc = "script"
  /\ hashOutput # <<>>
  /\ delivered' = delivered \o hashOutput
  /\ hashOutput' = <<>>
  /\ UNCHANGED <<hashRunning, hashInput, place, inHand, mpc, submitted>>

\* stopHashing: hashRunning_.exchange(false), without hashInputMutex_.
StopHashing ==
  /\ mpc = "script"
  /\ hashRunning' = FALSE
  /\ mpc' = "signal"
  /\ UNCHANGED <<hashInput, hashOutput, place, inHand, submitted, delivered>>

\* stopHashing: notify_all.
NotifyAll ==
  /\ mpc = "signal"
  /\ place' = [w \in Workers |-> IF place[w] = "asleep" THEN "test" ELSE place[w]]
  /\ mpc' = "join"
  /\ UNCHANGED <<hashRunning, hashInput, hashOutput, inHand, submitted, delivered>>

\* stopHashing: every thread is joined; then the engine is destroyed.
JoinAll ==
  /\ mpc = "join"
  /\ \A w \in Workers : place[w] = "exited"
  /\ mpc' = "gone"
  /\ UNCHANGED <<hashRunning, hashInput, hashOutput, place, inHand, submitted, delivered>>

-----------------------------------------------------------------------------
(* A pool thread: hashLoop                                                 *)

\* Variant: the wait predicate looks at the queue only.
ShouldWakeForJobs == hashInput # <<>>

\* The predicate of hashInputCv_.wait.
ShouldWake == ~hashRunning \/ hashInput # <<>>

Park(w) ==
  /\ place[w] = "test" /\ InputMutexFree
  /\ ~ShouldWake
  /\ place' = [place EXCEPT ![w] = "park"]
  /\ UNCHANGED <<hashRunning, hashInput, hashOutput, inHand, mpc, submitted, delivered>>

Block(w) ==
  /\ place[w] = "park"
  /\ place' = [place EXCEPT ![w] = "asleep"]
  /\ UNCHANGED <<hashRunning, hashInput, hashOutput, inHand, mpc, submitted, delivered>>

SpuriousWake(w) ==
  /\ place[w] = "asleep"
  /\ place' = [place EXCEPT ![w] = "test"]
  /\ UNCHANGED <<hashRunning, hashInput, hashOutput, inHand, mpc, submitted, delivered>>

\* Variant: the newest job is taken first.
TakeNewest(w) ==
  /\ place[w] = "test" /\ InputMutexFree
  /\ hashInput # <<>>
  /\ inHand' = [inHand EXCEPT ![w] = hashInput[Len(hashInput)]]
  /\ hashInput' = SubSeq(hashInput, 1, Len(hashInput) - 1)
  /\ place' = [place EXCEPT ![w] = "hash"]
  /\ UNCHANGED <<hashRunning, hashOutput, mpc, submitted, delivered>>

\* Variant: two threads can be given the same job.
TakeUnlocked(w) ==
  /\ place[w] = "test" /\ InputMutexFree
  /\ hashInput # <<>>
  /\ inHand' = [inHand EXCEPT ![w] = Head(hashInput)]
  /\ hashInput' = IF \E v \in Workers : inHand[v] # NoJob THEN Tail(hashInput) ELSE hashInput
  /\ place' = [place EXCEPT ![w] = "hash"]
  /\ UNCHANGED <<hashRunning, hashOutput, mpc, submitted, delivered>>

TakeJob(w) ==
  /\ place[w] = "test" /\ InputMutexFree
  /\ hashInput # <<>>
  /\ inHand' = [inHand EXCEPT ![w] = Head(hashInput)]
  /\ hashInput' = Tail(hashInput)
  /\ place' = [place EXCEPT ![w] = "hash"]
  /\ UNCHANGED <<hashRunning, hashOutput, mpc, submitted, delivered>>

Exit(w) ==
  /\ place[w] = "test" /\ InputMutexFree
  /\ ~hashRunning /\ hashInput = <<>>
  /\ place' = [place EXCEPT ![w] = "exited"]
  /\ UNCHANGED <<hashRunning, hashInput, hashOutput, inHand, mpc, submitted, delivered>>

\* Variant: the thread keeps its job after handing it back.
HashKeepsJob(w) ==
  /\ place[w] = "hash"
  /\ hashOutput' = Append(hashOutput, inHand[w])
  /\ place' = [place EXCEPT ![w] = "test"]
  /\ UNCHANGED <<hashRunning, hashInput, inHand, mpc, submitted, delivered>>

\* hashArgon2id or verify, then the push to the output queue.
Hash(w) ==
  /\ place[w] = "hash"
  /\ hashOutput' = Append(hashOutput, inHand[w])
  /\ inHand' = [inHand EXCEPT ![w] = NoJob]
  /\ place' = [place EXCEPT ![w] = "test"]
  /\ UNCHANGED <<hashRunning, hashInput, mpc, submitted, delivered>>

-----------------------------------------------------------------------------
Stopping == NotifyAll \/ JoinAll
Worker(w) == Park(w) \/ Block(w) \/ TakeJob(w) \/ Exit(w) \/ Hash(w)

\* The component was freed: nothing is left to do.
Finished == mpc = "gone" /\ UNCHANGED vars

Next ==
  \/ StartHashing
  \/ EnqueueHash \/ NotifyOne
  \/ Tick
  \/ StopHashing \/ Stopping
  \/ \E w \in Workers : Worker(w) \/ SpuriousWake(w)
  \/ Finished

\* Each thread is scheduled and gets hashInputMutex_ when it stays free; natives in
\* progress go on; the server keeps ticking.  Scripts need not submit anything.
Fairness ==
  /\ \A w \in Workers : WF_vars(Worker(w))
  /\ WF_vars(NotifyOne \/ Stopping)
  /\ WF_vars(Tick)

SafeSpec == Init /\ [][Next]_vars
Spec == SafeSpec /\ Fairness

-----------------------------------------------------------------------------
(* What is promised                                                        *)

\* Every variable has its type, and a thread holds a job exactly while it computes.
TypeOK ==
  /\ hashRunning \in BOOLEAN
  /\ submitted \in 0..MaxJobs
  /\ hashInput \in Seq(Jobs)
  /\ hashOutput \in Seq(Jobs)
  /\ delivered \in Seq(Jobs)
  /\ mpc \in MainPlaces
  /\ place \in [Workers -> Places]
  /\ inHand \in [Workers -> {NoJob} \union Jobs]
  /\ \A w \in Workers : inHand[w] # NoJob <=> place[w] = "hash"

Busy == {w \in Workers : place[w] = "hash"}
InHand == {inHand[w] : w \in Workers} \ {NoJob}
Done == Range(hashOutput) \union Range(delivered)

\* Every job submitted is in exactly one place, once: queued, in the hands of one
\* thread, in the output queue or dispatched.  No pool thread loses or repeats a hash.
EachJobOnce ==
  /\ Jobs = Range(hashInput) \union InHand \union Done
  /\ Len(hashInput) + Cardinality(Busy) + Len(hashOutput) + Len(delivered) = submitted

\* Results come out of order, but a job is overtaken only by what the other threads
\* hold: when a result is out, fewer than |Workers| earlier jobs are unfinished.
BoundedOvertaking ==
  \A j \in Done : Cardinality({i \in 1..(j - 1) : i \notin Done}) < Cardinality(Workers)

\* stopHashing leaves no job queued or half computed, although it drops no thread.
StoppedMeansDrained ==
  mpc = "gone" => hashInput = <<>> /\ InHand = {} /\ Jobs = Done

\* Every hash asked for is computed, also while the pool is being stopped.
EveryHashComputed == \A j \in 1..MaxJobs : j \in Jobs ~> j \in Done

\* stopHashing returns if no thread is about to block when it signals.
StopReturnsWhenAwake ==
  (mpc = "join" /\ \A w \in Workers : place[w] \notin {"park", "asleep"}) ~> mpc = "gone"
=============================================================================
