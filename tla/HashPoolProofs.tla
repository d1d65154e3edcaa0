--------------------------- MODULE HashPoolProofs ---------------------------
(***************************************************************************)
(* Safety of HashPool for any number of threads and jobs.                  *)
(***************************************************************************)
EXTENDS HashPool, SequenceTheorems, FiniteSetTheorems, TLAPS

\* After hashRunning_ was cleared nothing is submitted, and a thread that left saw an
\* empty queue.
StopInv ==
  /\ mpc \in {"off", "signal", "join", "gone"} <=> ~hashRunning
  /\ mpc = "off" => \A w \in Workers : place[w] = "unborn"
  /\ \A w \in Workers : place[w] = "exited" =>
       hashInput = <<>> /\ mpc \in {"signal", "join", "gone"}
  /\ mpc = "gone" => \A w \in Workers : place[w] = "exited"

IInv == TypeOK /\ EachJobOnce /\ StopInv

-----------------------------------------------------------------------------
(* Sequences and sets                                                      *)

\* Appending adds one element, at the end.
LEMMA AppendFacts ==
  ASSUME NEW S, NEW s \in Seq(S), NEW e \in S
  PROVE  /\ Append(s, e) \in Seq(S)
         /\ Len(Append(s, e)) = Len(s) + 1
         /\ Range(Append(s, e)) = Range(s) \union {e}
<1>1. /\ DOMAIN Append(s, e) = DOMAIN s \union {Len(s) + 1}
      /\ \A i \in DOMAIN s : Append(s, e)[i] = s[i]
      /\ Append(s, e)[Len(s) + 1] = e
  OBVIOUS
<1>2. Range(Append(s, e)) = Range(s) \union {e}
  BY <1>1, Zenon DEF Range
<1> QED BY <1>2

\* A nonempty sequence holds its head and what its tail holds.
LEMMA TailFacts ==
  ASSUME NEW S, NEW s \in Seq(S), s # <<>>
  PROVE  /\ Head(s) \in S
         /\ Tail(s) \in Seq(S)
         /\ Len(Tail(s)) = Len(s) - 1
         /\ Range(s) = {Head(s)} \union Range(Tail(s))
<1>1. /\ Head(s) = s[1] /\ 1 \in DOMAIN s
      /\ DOMAIN s = 1..Len(s) /\ Len(s) \in Nat
      /\ Tail(s) \in Seq(S) /\ Len(Tail(s)) = Len(s) - 1
      /\ \A i \in DOMAIN Tail(s) : i + 1 \in DOMAIN s /\ Tail(s)[i] = s[i + 1]
      /\ Head(s) \in S
  BY HeadTailProperties
<1>2. \A i \in DOMAIN s : i = 1 \/ (i - 1 \in DOMAIN Tail(s) /\ Tail(s)[i - 1] = s[i])
  <2>1. ASSUME NEW i \in DOMAIN s, i # 1
        PROVE  i - 1 \in DOMAIN Tail(s) /\ Tail(s)[i - 1] = s[i]
    <3>1. DOMAIN Tail(s) = 1..(Len(s) - 1)
      BY <1>1
    <3>2. i \in Nat /\ i >= 2 /\ i <= Len(s)
      BY <1>1, <2>1
    <3>3. i - 1 \in DOMAIN Tail(s) /\ i - 1 + 1 = i
      BY <1>1, <3>1, <3>2
    <3>4. Tail(s)[i - 1] = s[i - 1 + 1]
      BY <1>1, <3>3, Zenon
    <3> QED BY <3>3, <3>4, Zenon
  <2> QED BY <2>1
<1>3. Range(s) \subseteq {Head(s)} \union Range(Tail(s))
  <2>1. ASSUME NEW i \in DOMAIN s PROVE s[i] \in {Head(s)} \union Range(Tail(s))
    <3>1. CASE i = 1 BY <3>1, <1>1
    <3>2. CASE i # 1
      <4>1. i - 1 \in DOMAIN Tail(s) /\ Tail(s)[i - 1] = s[i]
        BY <1>2, <3>2
      <4> QED BY <4>1, Zenon DEF Range
    <3> QED BY <3>1, <3>2
  <2> QED BY <2>1, Zenon DEF Range
<1>4. {Head(s)} \union Range(Tail(s)) \subseteq Range(s)
  <2>1. Head(s) \in Range(s)
    BY <1>1, Zenon DEF Range
  <2>2. Range(Tail(s)) \subseteq Range(s)
    <3>1. \A i \in DOMAIN Tail(s) : Tail(s)[i] \in Range(s)
      BY <1>1, Zenon DEF Range
    <3> QED BY <3>1, Zenon DEF Range
  <2> QED BY <2>1, <2>2
<1> QED BY <1>1, <1>3, <1>4

\* The set of busy threads is finite, so it can be counted.
LEMMA BusyFinite == IsFiniteSet(Busy) /\ Cardinality(Busy) \in Nat
<1>1. IsFiniteSet(Workers) /\ Busy \subseteq Workers
  BY HashPoolAssumption DEF Busy
<1> QED BY <1>1, FS_Subset, FS_CardinalityType

-----------------------------------------------------------------------------
(* The invariant                                                           *)

\* A component that was not loaded satisfies the invariant.
THEOREM Initially == Init => IInv
<1> SUFFICES ASSUME Init PROVE IInv
  OBVIOUS
<1>1. TypeOK
  <2>1. hashRunning \in BOOLEAN
    BY Zenon DEF Init
  <2>2. submitted \in 0..MaxJobs /\ <<>> \in Seq(Jobs)
    BY HashPoolAssumption DEF Init, Jobs
  <2> QED BY <2>1, <2>2 DEF Init, TypeOK, MainPlaces, Places, NoJob
<1>2. Jobs = Range(hashInput) \union InHand \union Done
  <2>1. Jobs = {} /\ InHand = {}
    <3>1. submitted = 0 /\ \A w \in Workers : inHand[w] = NoJob
      BY DEF Init
    <3>2. InHand = {}
      BY <3>1, Zenon DEF InHand
    <3> QED BY <3>1, <3>2 DEF Jobs
  <2>2. Range(hashInput) = {} /\ Done = {}
    BY DEF Init, Range, Done
  <2> QED BY <2>1, <2>2
<1>3. Busy = {}
  BY DEF Init, Busy
<1>4. EachJobOnce
  BY <1>2, <1>3, FS_EmptySet DEF Init, EachJobOnce
<1>5. StopInv
  BY DEF Init, StopInv
<1> QED BY <1>1, <1>4, <1>5 DEF IInv

\* enqueueHash puts one new job in the queue.
LEMMA EnqueueStep == ASSUME IInv, EnqueueHash PROVE IInv'
<1> USE DEF EnqueueHash, Jobs, NoJob
<1>1. /\ submitted \in Nat /\ submitted + 1 <= MaxJobs
      /\ Jobs' = Jobs \union {submitted + 1} /\ Jobs \subseteq Jobs'
  BY HashPoolAssumption DEF IInv, TypeOK
<1>2. hashInput \in Seq(Jobs') /\ hashOutput \in Seq(Jobs') /\ delivered \in Seq(Jobs')
  <2>1. hashInput \in Seq(Jobs) /\ hashOutput \in Seq(Jobs) /\ delivered \in Seq(Jobs)
    BY DEF IInv, TypeOK
  <2> HIDE DEF EnqueueHash, Jobs
  <2> QED BY <1>1, <2>1, SeqMonotonic
<1>3. /\ hashInput' \in Seq(Jobs') /\ Len(hashInput') = Len(hashInput) + 1
      /\ Range(hashInput') = Range(hashInput) \union {submitted + 1}
  <2>1. hashInput' = Append(hashInput, submitted + 1) /\ submitted + 1 \in Jobs'
    BY <1>1
  <2> HIDE DEF EnqueueHash, Jobs
  <2> QED BY <2>1, <1>2, AppendFacts
<1>4. TypeOK'
  <2>1. submitted' \in 0..MaxJobs /\ mpc' \in MainPlaces
    BY <1>1, HashPoolAssumption DEF MainPlaces
  <2>2. inHand' \in [Workers -> {NoJob} \union Jobs']
    BY <1>1 DEF IInv, TypeOK
  <2> HIDE DEF Jobs
  <2> QED BY <1>2, <1>3, <2>1, <2>2 DEF IInv, TypeOK
<1>5. InHand' = InHand /\ Done' = Done /\ Busy' = Busy
  BY DEF InHand, Done, Busy
<1>6. EachJobOnce'
  <2>1. Jobs' = Range(hashInput') \union InHand' \union Done'
    BY <1>1, <1>3, <1>5 DEF IInv, EachJobOnce
  <2>2. Len(hashInput') + Cardinality(Busy') + Len(hashOutput') + Len(delivered') = submitted'
    <3>1. Len(hashInput) + Cardinality(Busy) + Len(hashOutput) + Len(delivered) = submitted
      BY DEF IInv, EachJobOnce
    <3>2. Len(hashInput) \in Nat /\ Len(hashOutput) \in Nat /\ Len(delivered) \in Nat
      BY DEF IInv, TypeOK
    <3>3. Len(hashOutput') = Len(hashOutput) /\ Len(delivered') = Len(delivered)
      OBVIOUS
    <3> QED BY <3>1, <3>2, <3>3, <1>3, <1>5, BusyFinite
  <2> QED BY <2>1, <2>2 DEF EachJobOnce
<1>7. StopInv'
  BY DEF IInv, StopInv
<1> QED BY <1>4, <1>6, <1>7 DEF IInv

\* The tick moves the output queue to what was dispatched.
LEMMA TickStep == ASSUME IInv, Tick PROVE IInv'
<1> USE DEF Tick, NoJob
<1>1. /\ delivered' \in Seq(Jobs)
      /\ Len(delivered') = Len(delivered) + Len(hashOutput)
      /\ Range(delivered') = Range(delivered) \union Range(hashOutput)
      /\ hashOutput' = <<>> /\ Len(hashOutput') = 0 /\ Range(hashOutput') = {}
  <2>1. delivered \in Seq(Jobs) /\ hashOutput \in Seq(Jobs)
    BY DEF IInv, TypeOK
  <2>2. Range(hashOutput') = {}
    BY DEF Range
  <2> QED BY <2>1, <2>2, ConcatProperties, RangeConcatenation
<1>2. TypeOK' /\ StopInv'
  BY <1>1 DEF IInv, TypeOK, StopInv, Jobs
<1>3. InHand' = InHand /\ Done' = Done /\ Busy' = Busy /\ Jobs' = Jobs
  BY <1>1 DEF InHand, Done, Busy, Jobs
<1>4. EachJobOnce'
  <2>1. Len(hashInput') + Cardinality(Busy') + Len(hashOutput') + Len(delivered') = submitted'
    BY <1>1, <1>3, BusyFinite DEF IInv, TypeOK, EachJobOnce
  <2> QED BY <1>3, <2>1 DEF IInv, EachJobOnce
<1> QED BY <1>2, <1>4 DEF IInv

\* A job popped from the queue is in the hands of the thread that popped it.
LEMMA TakeJobStep == ASSUME IInv, NEW w \in Workers, TakeJob(w) PROVE IInv'
<1>0. /\ place[w] = "test" /\ hashInput # <<>>
      /\ inHand' = [inHand EXCEPT ![w] = Head(hashInput)]
      /\ hashInput' = Tail(hashInput)
      /\ place' = [place EXCEPT ![w] = "hash"]
      /\ UNCHANGED <<hashRunning, hashOutput, mpc, submitted, delivered>>
  BY DEF TakeJob
<1>1. /\ Head(hashInput) \in Jobs /\ hashInput' \in Seq(Jobs)
      /\ Len(hashInput') = Len(hashInput) - 1
      /\ Range(hashInput) = {Head(hashInput)} \union Range(hashInput')
  BY <1>0, TailFacts DEF IInv, TypeOK
<1>2. TypeOK'
  BY <1>0, <1>1 DEF IInv, TypeOK, Jobs, NoJob, Places
<1>3. Busy' = Busy \union {w} /\ w \notin Busy
  BY <1>0 DEF IInv, TypeOK, Busy
<1>4. inHand[w] = NoJob
  BY <1>0 DEF IInv, TypeOK
<1>5. InHand' = InHand \union {Head(hashInput)}
  <2>1. Head(hashInput) # NoJob
    BY <1>1 DEF IInv, TypeOK, Jobs, NoJob
  <2>2. /\ inHand'[w] = Head(hashInput)
        /\ \A v \in Workers : v # w => inHand'[v] = inHand[v]
    BY <1>0 DEF IInv, TypeOK
  <2> QED BY <1>4, <2>1, <2>2, Zenon DEF InHand
<1>6. Cardinality(Busy') = Cardinality(Busy) + 1
  BY <1>3, BusyFinite, FS_AddElement
<1>7. EachJobOnce'
  <2>1. Done' = Done /\ Jobs' = Jobs
    BY <1>0 DEF Done, Jobs
  <2>2. Len(hashInput') + Cardinality(Busy') + Len(hashOutput') + Len(delivered') = submitted'
    BY <1>0, <1>1, <1>6, BusyFinite DEF IInv, TypeOK, EachJobOnce
  <2> QED BY <1>1, <1>5, <2>1, <2>2 DEF IInv, EachJobOnce
<1>8. StopInv'
  BY <1>0 DEF IInv, TypeOK, StopInv
<1> QED BY <1>2, <1>7, <1>8 DEF IInv

\* A computed job goes from its thread to the output queue.
LEMMA HashStep == ASSUME IInv, NEW w \in Workers, Hash(w) PROVE IInv'
<1>0. /\ place[w] = "hash"
      /\ hashOutput' = Append(hashOutput, inHand[w])
      /\ inHand' = [inHand EXCEPT ![w] = NoJob]
      /\ place' = [place EXCEPT ![w] = "test"]
      /\ UNCHANGED <<hashRunning, hashInput, mpc, submitted, delivered>>
  BY DEF Hash
<1>1. /\ inHand[w] \in Jobs
      /\ hashOutput' \in Seq(Jobs) /\ Len(hashOutput') = Len(hashOutput) + 1
      /\ Range(hashOutput') = Range(hashOutput) \union {inHand[w]}
  <2>1. inHand[w] \in Jobs /\ hashOutput \in Seq(Jobs)
    BY <1>0 DEF IInv, TypeOK
  <2> QED BY <1>0, <2>1, AppendFacts
<1>2. TypeOK'
  BY <1>0, <1>1 DEF IInv, TypeOK, Jobs, NoJob, Places
<1>3. Busy' = Busy \ {w} /\ w \in Busy
  BY <1>0 DEF IInv, TypeOK, Busy
<1>4. InHand = InHand' \union {inHand[w]}
  <2>1. inHand[w] # NoJob
    BY <1>0 DEF IInv, TypeOK
  <2>2. /\ inHand'[w] = NoJob
        /\ \A v \in Workers : v # w => inHand'[v] = inHand[v]
    BY <1>0 DEF IInv, TypeOK
  <2> QED BY <2>1, <2>2, Zenon DEF InHand
<1>5. Cardinality(Busy') = Cardinality(Busy) - 1
  BY <1>3, BusyFinite, FS_RemoveElement
<1>6. EachJobOnce'
  <2>1. Done' = Done \union {inHand[w]} /\ Jobs' = Jobs
    BY <1>0, <1>1 DEF Done, Jobs
  <2>2. Len(hashInput') + Cardinality(Busy') + Len(hashOutput') + Len(delivered') = submitted'
    <3>1. Len(hashInput) + Cardinality(Busy) + Len(hashOutput) + Len(delivered) = submitted
      BY DEF IInv, EachJobOnce
    <3>2. Len(hashInput) \in Nat /\ Len(hashOutput) \in Nat /\ Len(delivered) \in Nat
      BY DEF IInv, TypeOK
    <3>3. Len(hashInput') = Len(hashInput) /\ Len(delivered') = Len(delivered) /\ submitted' = submitted
      BY <1>0
    <3>4. /\ Len(hashOutput') = Len(hashOutput) + 1
          /\ Cardinality(Busy') = Cardinality(Busy) - 1 /\ Cardinality(Busy) \in Nat
      BY <1>1, <1>5, BusyFinite
    <3> QED BY <3>1, <3>2, <3>3, <3>4
  <2> QED BY <1>0, <1>4, <2>1, <2>2 DEF IInv, EachJobOnce
<1>7. StopInv'
  BY <1>0 DEF IInv, TypeOK, StopInv
<1> QED BY <1>2, <1>6, <1>7 DEF IInv

\* Steps that only move threads: no job changes place.
LEMMA MoveStep ==
  ASSUME IInv,
         UNCHANGED <<hashInput, hashOutput, inHand, submitted, delivered>>,
         place' \in [Workers -> Places],
         \A w \in Workers : place[w] = "hash" <=> place'[w] = "hash",
         hashRunning' \in BOOLEAN, mpc' \in MainPlaces
  PROVE  TypeOK' /\ EachJobOnce'
<1>1. TypeOK'
  BY DEF IInv, TypeOK, Jobs
<1>2. Busy' = Busy /\ Jobs' = Jobs /\ Done' = Done /\ InHand' = InHand
  BY DEF Busy, Jobs, Done, InHand
<1>3. EachJobOnce'
  BY <1>2 DEF IInv, EachJobOnce
<1> QED BY <1>1, <1>3

\* Every step of the main thread and of the pool keeps the invariant.
THEOREM Inductive == IInv /\ [Next]_vars => IInv'
<1> SUFFICES ASSUME IInv, [Next]_vars PROVE IInv'
  OBVIOUS
<1>1. CASE StartHashing
  <2>1. TypeOK' /\ EachJobOnce'
    BY <1>1, MoveStep DEF StartHashing, IInv, TypeOK, StopInv, Places, MainPlaces
  <2>2. StopInv'
    BY <1>1 DEF StartHashing, IInv, StopInv
  <2> QED BY <2>1, <2>2 DEF IInv
<1>2. CASE EnqueueHash
  BY <1>2, EnqueueStep
<1>3. CASE NotifyOne
  <2>1. TypeOK' /\ EachJobOnce'
    BY <1>3, MoveStep DEF NotifyOne, IInv, TypeOK, Places, MainPlaces
  <2>2. StopInv'
    BY <1>3 DEF NotifyOne, IInv, TypeOK, StopInv
  <2> QED BY <2>1, <2>2 DEF IInv
<1>4. CASE Tick
  BY <1>4, TickStep
<1>5. CASE StopHashing
  <2>1. hashRunning' \in BOOLEAN
    BY <1>5, Zenon DEF StopHashing
  <2>2. TypeOK' /\ EachJobOnce'
    BY <1>5, <2>1, MoveStep DEF StopHashing, IInv, TypeOK, MainPlaces
  <2>3. StopInv'
    BY <1>5 DEF StopHashing, IInv, StopInv
  <2> QED BY <2>2, <2>3 DEF IInv
<1>6. CASE NotifyAll
  <2>1. TypeOK' /\ EachJobOnce'
    BY <1>6, MoveStep DEF NotifyAll, IInv, TypeOK, Places, MainPlaces
  <2>2. StopInv'
    BY <1>6 DEF NotifyAll, IInv, TypeOK, StopInv
  <2> QED BY <2>1, <2>2 DEF IInv
<1>7. CASE JoinAll
  <2>1. TypeOK' /\ EachJobOnce'
    BY <1>7, MoveStep DEF JoinAll, IInv, TypeOK, MainPlaces
  <2>2. StopInv'
    BY <1>7 DEF JoinAll, IInv, StopInv
  <2> QED BY <2>1, <2>2 DEF IInv
<1>8. ASSUME NEW w \in Workers, TakeJob(w) PROVE IInv'
  BY <1>8, TakeJobStep
<1>9. ASSUME NEW w \in Workers, Hash(w) PROVE IInv'
  BY <1>9, HashStep
<1>10. ASSUME NEW w \in Workers, Park(w) \/ Block(w) \/ SpuriousWake(w) \/ Exit(w) PROVE IInv'
  <2>1. TypeOK' /\ EachJobOnce'
    BY <1>10, MoveStep DEF Park, Block, SpuriousWake, Exit, IInv, TypeOK, Places
  <2>2. StopInv'
    BY <1>10 DEF Park, Block, SpuriousWake, Exit, IInv, TypeOK, StopInv, MainPlaces
  <2> QED BY <2>1, <2>2 DEF IInv
<1>11. CASE Finished \/ UNCHANGED vars
  <2>1. TypeOK' /\ EachJobOnce'
    BY <1>11, MoveStep DEF Finished, vars, IInv, TypeOK
  <2>2. StopInv'
    BY <1>11 DEF Finished, vars, IInv, StopInv
  <2> QED BY <2>1, <2>2 DEF IInv
<1> QED BY <1>1, <1>2, <1>3, <1>4, <1>5, <1>6, <1>7, <1>8, <1>9, <1>10, <1>11
        DEF Next, Stopping, Worker

\* The invariant holds in every reachable state.
THEOREM Invariance == SafeSpec => []IInv
BY Initially, Inductive, PTL DEF SafeSpec

\* Every variable keeps its type, and a thread holds a job exactly while it computes.
THEOREM TypeCorrect == SafeSpec => []TypeOK
<1>1. IInv => TypeOK BY DEF IInv
<1> QED BY <1>1, Invariance, PTL

\* No hash is lost or computed twice by the pool (hashLoop, enqueueHash, drainHashes).
THEOREM EachJobOnceCorrect == SafeSpec => []EachJobOnce
<1>1. IInv => EachJobOnce BY DEF IInv
<1> QED BY <1>1, Invariance, PTL

\* stopHashing returns with every submitted hash computed.
THEOREM DrainCorrect == SafeSpec => []StoppedMeansDrained
<1>1. IInv => StoppedMeansDrained
  <2> SUFFICES ASSUME IInv, mpc = "gone" PROVE hashInput = <<>> /\ InHand = {} /\ Jobs = Done
    BY DEF StoppedMeansDrained
  <2>1. \A w \in Workers : place[w] = "exited"
    BY DEF IInv, StopInv
  <2>2. hashInput = <<>>
    BY <2>1, HashPoolAssumption DEF IInv, StopInv
  <2>3. \A w \in Workers : inHand[w] = NoJob
    BY <2>1 DEF IInv, TypeOK
  <2>4. InHand = {}
    BY <2>3, Zenon DEF InHand
  <2>5. Range(hashInput) = {}
    BY <2>2 DEF Range
  <2> QED BY <2>2, <2>4, <2>5 DEF IInv, EachJobOnce
<1> QED BY <1>1, Invariance, PTL

-----------------------------------------------------------------------------
(* How far a job can be overtaken                                          *)

\* How many jobs left the queue.
Taken == submitted - Len(hashInput)

\* The queue holds the jobs after those that left it, in order; of the threads there is
\* always one that is idle or at a later job than a given finished one.
OrderInv ==
  /\ \A i \in DOMAIN hashInput : hashInput[i] = Taken + i
  /\ InHand \union Done \subseteq 1..Taken
  /\ \A j \in Done : \E w \in Workers : inHand[w] = NoJob \/ inHand[w] > j

\* enqueueHash appends the next number.
LEMMA EnqueueOrder == ASSUME IInv, OrderInv, EnqueueHash PROVE OrderInv'
<1>1. /\ submitted \in Nat /\ hashInput \in Seq(Jobs)
      /\ submitted' = submitted + 1 /\ hashInput' = Append(hashInput, submitted + 1)
      /\ UNCHANGED <<hashOutput, inHand, delivered>>
  BY HashPoolAssumption DEF EnqueueHash, IInv, TypeOK
<1>2. /\ Len(hashInput) \in Nat /\ Len(hashInput') = Len(hashInput) + 1
      /\ DOMAIN hashInput = 1..Len(hashInput) /\ DOMAIN hashInput' = 1..(Len(hashInput) + 1)
      /\ \A i \in DOMAIN hashInput : hashInput'[i] = hashInput[i]
      /\ hashInput'[Len(hashInput) + 1] = submitted + 1
  BY <1>1
<1>3. Taken' = Taken
  BY <1>1, <1>2 DEF Taken
<1>4. \A i \in DOMAIN hashInput' : hashInput'[i] = Taken + i
  <2>1. ASSUME NEW i \in DOMAIN hashInput' PROVE hashInput'[i] = Taken + i
    <3>1. CASE i \in DOMAIN hashInput
      BY <1>2, <3>1 DEF OrderInv
    <3>2. CASE i = Len(hashInput) + 1
      BY <1>1, <1>2, <3>2 DEF Taken
    <3> QED BY <1>2, <3>1, <3>2
  <2> QED BY <2>1
<1>5. InHand' = InHand /\ Done' = Done
  BY <1>1 DEF InHand, Done
<1> QED BY <1>1, <1>3, <1>4, <1>5 DEF OrderInv

\* The oldest job is taken: it is later than everything that left before.
LEMMA TakeJobOrder == ASSUME IInv, OrderInv, NEW w \in Workers, TakeJob(w) PROVE OrderInv'
<1> DEFINE j == Head(hashInput)
<1>0. /\ hashInput # <<>> /\ hashInput \in Seq(Jobs) /\ submitted \in Nat
      /\ inHand' = [inHand EXCEPT ![w] = j] /\ hashInput' = Tail(hashInput)
      /\ UNCHANGED <<hashOutput, submitted, delivered>>
      /\ inHand \in [Workers -> {NoJob} \union Jobs]
  BY HashPoolAssumption DEF TakeJob, IInv, TypeOK
<1>1. /\ Len(hashInput) \in Nat /\ Len(hashInput) > 0 /\ Len(hashInput') = Len(hashInput) - 1
      /\ DOMAIN hashInput = 1..Len(hashInput) /\ j = hashInput[1]
      /\ DOMAIN hashInput' = 1..(Len(hashInput) - 1)
      /\ \A i \in DOMAIN hashInput' : hashInput'[i] = hashInput[i + 1]
      /\ Len(hashInput) <= submitted
  <2>1. /\ Len(hashInput) \in Nat /\ Len(hashInput) > 0 /\ DOMAIN hashInput = 1..Len(hashInput)
        /\ j = hashInput[1]
    BY <1>0
  <2>2. /\ hashInput' \in Seq(Jobs) /\ Len(hashInput') = Len(hashInput) - 1
        /\ \A i \in 1..Len(hashInput') : hashInput'[i] = hashInput[i + 1]
    BY <1>0, HeadTailProperties
  <2>3. DOMAIN hashInput' = 1..Len(hashInput')
    BY <2>2, LenProperties
  <2>4. Len(hashInput) <= submitted
    <3>1. /\ Len(hashInput) + Cardinality(Busy) + Len(hashOutput) + Len(delivered) = submitted
          /\ Len(hashOutput) \in Nat /\ Len(delivered) \in Nat
      BY DEF IInv, EachJobOnce, TypeOK
    <3> QED BY <1>0, <2>1, <3>1, BusyFinite
  <2> QED BY <2>1, <2>2, <2>3, <2>4
<1>2. j = Taken + 1 /\ Taken' = Taken + 1 /\ Taken \in Nat
  <2>1. 1 \in DOMAIN hashInput
    BY <1>1
  <2> QED BY <1>0, <1>1, <2>1 DEF OrderInv, Taken
<1> HIDE DEF j
<1>3. \A i \in DOMAIN hashInput' : hashInput'[i] = Taken' + i
  <2>1. \A i \in DOMAIN hashInput' : i + 1 \in DOMAIN hashInput /\ i \in Nat
    BY <1>1
  <2> QED BY <1>1, <1>2, <2>1 DEF OrderInv
<1>4. InHand' \subseteq InHand \union {j} /\ Done' = Done
  BY <1>0 DEF InHand, Done
<1>5. InHand' \union Done' \subseteq 1..Taken'
  BY <1>2, <1>4 DEF OrderInv
<1>6. \A k \in Done' : \E v \in Workers : inHand'[v] = NoJob \/ inHand'[v] > k
  <2>1. ASSUME NEW k \in Done PROVE inHand'[w] > k
    BY <1>0, <1>2, <2>1 DEF OrderInv
  <2> QED BY <1>4, <2>1
<1> QED BY <1>3, <1>5, <1>6 DEF OrderInv

\* The thread that finished a job is idle.
LEMMA HashOrder == ASSUME IInv, OrderInv, NEW w \in Workers, Hash(w) PROVE OrderInv'
<1>0. /\ place[w] = "hash" /\ hashOutput' = Append(hashOutput, inHand[w])
      /\ inHand' = [inHand EXCEPT ![w] = NoJob]
      /\ UNCHANGED <<hashInput, submitted, delivered>>
      /\ inHand \in [Workers -> {NoJob} \union Jobs] /\ inHand[w] # NoJob
      /\ hashOutput \in Seq(Jobs)
  BY DEF Hash, IInv, TypeOK
<1>1. Range(hashOutput') = Range(hashOutput) \union {inHand[w]}
  <2>1. inHand[w] \in Jobs
    BY <1>0
  <2> QED BY <1>0, <2>1, AppendFacts
<1>2. InHand' \subseteq InHand /\ inHand[w] \in InHand /\ Done' = Done \union {inHand[w]} /\ Taken' = Taken
  BY <1>0, <1>1 DEF InHand, Done, Taken
<1>3. inHand'[w] = NoJob
  BY <1>0
<1> QED BY <1>0, <1>2, <1>3 DEF OrderInv

LEMMA OrderInductive == IInv /\ OrderInv /\ [Next]_vars => OrderInv'
<1> SUFFICES ASSUME IInv, OrderInv, [Next]_vars PROVE OrderInv'
  OBVIOUS
<1>1. CASE EnqueueHash
  BY <1>1, EnqueueOrder
<1>2. ASSUME NEW w \in Workers, TakeJob(w) PROVE OrderInv'
  BY <1>2, TakeJobOrder
<1>3. ASSUME NEW w \in Workers, Hash(w) PROVE OrderInv'
  BY <1>3, HashOrder
<1>4. CASE Tick
  <2>1. delivered \in Seq(Jobs) /\ hashOutput \in Seq(Jobs)
    BY DEF IInv, TypeOK
  <2>2. Range(delivered') = Range(delivered) \union Range(hashOutput) /\ Range(hashOutput') = {}
    <3>1. hashOutput' = <<>> /\ delivered' = delivered \o hashOutput
      BY <1>4 DEF Tick
    <3>2. Range(<<>>) = {}
      BY DEF Range
    <3> QED BY <2>1, <3>1, <3>2, RangeConcatenation
  <2>3. Done' = Done
    BY <2>2 DEF Done
  <2>4. UNCHANGED <<hashInput, inHand, submitted>>
    BY <1>4 DEF Tick
  <2> QED BY <2>3, <2>4 DEF OrderInv, Taken, InHand
<1>5. CASE UNCHANGED <<hashInput, hashOutput, inHand, submitted, delivered>>
  BY <1>5 DEF OrderInv, Taken, InHand, Done
<1> QED BY <1>1, <1>2, <1>3, <1>4, <1>5
        DEF Next, StartHashing, NotifyOne, StopHashing, Stopping, NotifyAll, JoinAll, Worker,
            Park, Block, SpuriousWake, Exit, Finished, vars

\* A hash of the pool is overtaken only by what the other threads hold: for any number of
\* threads, when a result of hashLoop is out, fewer earlier jobs are unfinished than
\* there are threads.
THEOREM OvertakingCorrect == SafeSpec => []BoundedOvertaking
<1>1. Init => OrderInv
  <2> SUFFICES ASSUME Init PROVE OrderInv
    OBVIOUS
  <2>1. DOMAIN hashInput = {} /\ Done = {} /\ InHand = {}
    <3>1. \A w \in Workers : inHand[w] = NoJob
      BY DEF Init
    <3>2. InHand = {}
      BY <3>1, Zenon DEF InHand
    <3> QED BY <3>2 DEF Init, Done, Range
  <2> QED BY <2>1 DEF OrderInv
<1>2. IInv /\ OrderInv => BoundedOvertaking
  <2> SUFFICES ASSUME IInv, OrderInv, NEW j \in Done
               PROVE  Cardinality({i \in 1..(j - 1) : i \notin Done}) < Cardinality(Workers)
    BY DEF BoundedOvertaking
  <2> DEFINE U == {i \in 1..(j - 1) : i \notin Done}
  <2>1. PICK w \in Workers : inHand[w] = NoJob \/ inHand[w] > j
    BY DEF OrderInv
  <2> DEFINE Others == Workers \ {w}
             Held == {inHand[v] : v \in Others}
             hold == [v \in Others |-> inHand[v]]
  <2>2. IsFiniteSet(Others) /\ Cardinality(Others) = Cardinality(Workers) - 1
        /\ Cardinality(Workers) \in Nat
    BY HashPoolAssumption, FS_RemoveElement, FS_CardinalityType
  <2>3. hold \in Surjection(Others, Held)
    BY DEF Surjection
  <2>4. IsFiniteSet(Held) /\ Cardinality(Held) <= Cardinality(Others)
    <3> HIDE DEF hold, Held, Others
    <3> QED BY <2>2, <2>3, FS_Surjection
  <2>5. U \subseteq Held
    <3> SUFFICES ASSUME NEW i \in 1..(j - 1), i \notin Done PROVE i \in Held
      OBVIOUS
    <3>1. j \in 1..Taken /\ submitted \in Nat /\ Len(hashInput) \in Nat /\ Taken = submitted - Len(hashInput)
      BY HashPoolAssumption DEF OrderInv, IInv, TypeOK, Taken
    <3>2. i \in 1..Taken /\ i \in Jobs /\ i < j
      BY <3>1 DEF Jobs
    <3>3. i \notin Range(hashInput)
      <4>1. \A k \in DOMAIN hashInput : k > 0 /\ k \in Nat /\ hashInput[k] = Taken + k
        BY DEF OrderInv, IInv, TypeOK
      <4> QED BY <3>1, <3>2, <4>1 DEF Range
    <3>4. i \in InHand
      BY <3>2, <3>3 DEF IInv, EachJobOnce
    <3>5. PICK v \in Workers : inHand[v] = i
      BY <3>4 DEF InHand
    <3>6. v # w
      BY <2>1, <3>1, <3>2, <3>4, <3>5 DEF InHand
    <3> QED BY <3>5, <3>6
  <2>6. Cardinality(U) <= Cardinality(Held) /\ Cardinality(U) \in Nat /\ Cardinality(Held) \in Nat
    <3> HIDE DEF U, Held
    <3>1. U \in SUBSET Held
      BY <2>5
    <3>2. IsFiniteSet(U) /\ Cardinality(U) <= Cardinality(Held)
      BY <2>4, <3>1, FS_Subset
    <3> QED BY <2>4, <3>2, FS_CardinalityType
  <2> HIDE DEF U, Held, Others
  <2>7. Cardinality(Others) \in Nat
    BY <2>2, FS_CardinalityType
  <2>8. Cardinality(U) < Cardinality(Workers)
    BY <2>2, <2>4, <2>6, <2>7
  <2> QED BY <2>8 DEF U
<1> QED BY <1>1, <1>2, OrderInductive, Invariance, PTL DEF SafeSpec

-----------------------------------------------------------------------------
(* What the liveness of the pool rests on                                  *)

\* A thread about to block saw an empty queue, and no thread is missing once the pool
\* has started; over a queued job a thread is awake, or enqueueHash is about to wake one.
WakeInv ==
  /\ \A w \in Workers : place[w] = "park" => hashInput = <<>>
  /\ \A w \in Workers : place[w] = "unborn" => mpc = "off"
  /\ mpc = "off" => hashInput = <<>>
  /\ hashInput # <<>> => mpc = "notify" \/ \E w \in Workers : place[w] \in {"test", "hash"}

\* A hash that was asked for and is not computed is in the hands of a thread, or in the
\* queue, with a thread awake that will get to it or enqueueHash about to wake one.
NothingStranded ==
  \A j \in Jobs \ Done :
    \/ \E w \in Workers : place[w] = "hash" /\ inHand[w] = j
    \/ /\ j \in Range(hashInput)
       /\ mpc = "notify" \/ \E w \in Workers : place[w] \in {"test", "hash"}

\* The threads that have not returned from hashLoop.
Staying == {w \in Workers : place[w] # "exited"}

\* How many steps the pool takes at most once it was told to stop.
Work == 2 * Len(hashInput) + Cardinality(Busy) + Cardinality(Staying)

\* Once stopHashing has signalled a pool that is awake, every step is a thread's, shortens
\* what is left to do and puts no thread to sleep, until all are joined.
ClosingEnds ==
  [][mpc = "join" /\ (\A w \in Workers : place[w] \notin {"park", "asleep"}) =>
       \/ mpc' = "gone"
       \/ /\ mpc' = "join" /\ \A w \in Workers : place'[w] \notin {"park", "asleep"}
          /\ \E w \in Workers : Worker(w)
          /\ Work' < Work]_vars

\* An empty queue strands nobody.
LEMMA WakeInit == Init => WakeInv
BY DEF Init, WakeInv

\* notify_one wakes a thread if one sleeps; if none does, they are all awake.
LEMMA WakeNotify == ASSUME IInv, WakeInv, NotifyOne PROVE WakeInv'
<1>1. /\ mpc = "notify" /\ mpc' = "script" /\ hashInput' = hashInput
      /\ IF \E w \in Workers : place[w] = "asleep"
           THEN \E w \in Workers : place[w] = "asleep" /\ place' = [place EXCEPT ![w] = "test"]
           ELSE place' = place
  BY DEF NotifyOne
<1>2. place \in [Workers -> Places] /\ Workers # {}
  BY HashPoolAssumption DEF IInv, TypeOK
<1>3. CASE \E w \in Workers : place[w] = "asleep"
  <2>1. PICK w \in Workers : place[w] = "asleep" /\ place' = [place EXCEPT ![w] = "test"]
    BY <1>1, <1>3
  <2>2. place'[w] = "test" /\ \A v \in Workers : v # w => place'[v] = place[v]
    BY <1>2, <2>1
  <2> QED BY <1>1, <2>2 DEF WakeInv
<1>4. CASE \A w \in Workers : place[w] # "asleep"
  <2>1. place' = place
    BY <1>1, <1>4
  <2>2. hashInput # <<>> => \A w \in Workers : place[w] \in {"test", "hash"}
    <3>1. \A w \in Workers : place[w] # "unborn" /\ place[w] \in Places
      BY <1>1, <1>2 DEF WakeInv
    <3>2. \A w \in Workers : place[w] # "exited"
      BY <1>1 DEF IInv, StopInv
    <3> QED BY <1>4, <3>1, <3>2 DEF WakeInv, Places
  <2> QED BY <1>1, <1>2, <2>1, <2>2 DEF WakeInv
<1> QED BY <1>3, <1>4

\* Every step keeps it.
LEMMA WakeInductive == IInv /\ WakeInv /\ [Next]_vars => WakeInv'
<1> SUFFICES ASSUME IInv, WakeInv, [Next]_vars PROVE WakeInv'
  OBVIOUS
<1>0. place \in [Workers -> Places] /\ Workers # {}
  BY HashPoolAssumption DEF IInv, TypeOK
<1>1. CASE StartHashing
  BY <1>0, <1>1 DEF StartHashing, WakeInv
<1>2. CASE EnqueueHash
  BY <1>2 DEF EnqueueHash, InputMutexFree, WakeInv
<1>3. CASE NotifyOne
  BY <1>3, WakeNotify
<1>4. CASE Tick \/ StopHashing \/ JoinAll
  BY <1>4 DEF Tick, StopHashing, JoinAll, WakeInv
<1>5. CASE NotifyAll
  BY <1>0, <1>5 DEF NotifyAll, WakeInv
<1>6. ASSUME NEW w \in Workers, Park(w) \/ Block(w) \/ Exit(w) PROVE WakeInv'
  BY <1>0, <1>6 DEF Park, Block, Exit, ShouldWake, WakeInv
<1>7. ASSUME NEW w \in Workers, TakeJob(w) PROVE WakeInv'
  <2>1. /\ place' = [place EXCEPT ![w] = "hash"] /\ mpc' = mpc
        /\ hashInput # <<>> /\ \A v \in Workers : place[v] # "park"
    BY <1>7 DEF TakeJob, InputMutexFree
  <2>2. place'[w] = "hash" /\ \A v \in Workers : v # w => place'[v] = place[v]
    BY <1>0, <2>1
  <2> QED BY <2>1, <2>2 DEF WakeInv
<1>8. ASSUME NEW w \in Workers, Hash(w) \/ SpuriousWake(w) PROVE WakeInv'
  <2>1. place' = [place EXCEPT ![w] = "test"] /\ mpc' = mpc /\ hashInput' = hashInput
        /\ place[w] # "unborn"
    BY <1>8 DEF Hash, SpuriousWake
  <2>2. place'[w] = "test" /\ \A v \in Workers : v # w => place'[v] = place[v]
    BY <1>0, <2>1
  <2> QED BY <2>1, <2>2 DEF WakeInv
<1>9. CASE Finished \/ UNCHANGED vars
  BY <1>9 DEF Finished, vars, WakeInv
<1> QED BY <1>1, <1>2, <1>3, <1>4, <1>5, <1>6, <1>7, <1>8, <1>9 DEF Next, Stopping, Worker

\* No notification for a hash is lost, in any reachable state.
THEOREM WakeInvariance == SafeSpec => []WakeInv
BY WakeInit, WakeInductive, Invariance, PTL DEF SafeSpec

\* The safety core of EveryHashComputed: no job is stranded, for any number of threads
\* and jobs, although notify_one wakes only one thread.
THEOREM NothingStrandedCorrect == SafeSpec => []NothingStranded
<1>1. IInv /\ WakeInv => NothingStranded
  <2> SUFFICES ASSUME IInv, WakeInv, NEW j \in Jobs \ Done
               PROVE  \/ \E w \in Workers : place[w] = "hash" /\ inHand[w] = j
                      \/ /\ j \in Range(hashInput)
                         /\ mpc = "notify" \/ \E w \in Workers : place[w] \in {"test", "hash"}
    BY DEF NothingStranded
  <2>1. CASE j \in InHand
    <3>1. PICK w \in Workers : inHand[w] = j /\ inHand[w] # NoJob
      BY <2>1 DEF InHand
    <3> QED BY <3>1 DEF IInv, TypeOK
  <2>2. CASE j \in Range(hashInput)
    <3>1. hashInput # <<>>
      BY <2>2 DEF Range
    <3> QED BY <2>2, <3>1 DEF WakeInv
  <2> QED BY <2>1, <2>2 DEF IInv, EachJobOnce
<1> QED BY <1>1, Invariance, WakeInvariance, PTL

\* The threads that stay can be counted.
LEMMA StayingFinite == IsFiniteSet(Staying) /\ Cardinality(Staying) \in Nat
<1>1. IsFiniteSet(Workers) /\ Staying \subseteq Workers
  BY HashPoolAssumption DEF Staying
<1> QED BY <1>1, FS_Subset, FS_CardinalityType

\* The safety core of StopReturnsWhenAwake: nobody but the threads moves, they take at
\* most Work steps, and none sleeps again before stopHashing has joined them all.
THEOREM ClosingEndsCorrect == SafeSpec => ClosingEnds
<1>1. ASSUME IInv, [Next]_vars, ~UNCHANGED vars,
             mpc = "join", \A w \in Workers : place[w] \notin {"park", "asleep"}
      PROVE  \/ mpc' = "gone"
             \/ /\ mpc' = "join" /\ \A w \in Workers : place'[w] \notin {"park", "asleep"}
                /\ \E w \in Workers : Worker(w)
                /\ Work' < Work
  <2>0. /\ place \in [Workers -> Places] /\ ~hashRunning
        /\ Len(hashInput) \in Nat /\ hashInput \in Seq(Jobs)
    BY <1>1 DEF IInv, TypeOK, StopInv
  <2>1. JoinAll \/ \E w \in Workers : TakeJob(w) \/ Exit(w) \/ Hash(w)
    BY <1>1, <2>0 DEF Next, StartHashing, EnqueueHash, NotifyOne, Tick, StopHashing, Stopping,
                      NotifyAll, Worker, Park, Block, SpuriousWake, Finished, ShouldWake
  <2>2. CASE JoinAll
    BY <2>2 DEF JoinAll
  <2>3. ASSUME NEW w \in Workers, TakeJob(w)
        PROVE  mpc' = mpc /\ place' = [place EXCEPT ![w] = "hash"] /\ Work' < Work
    <3>1. /\ place[w] = "test" /\ mpc' = mpc /\ place' = [place EXCEPT ![w] = "hash"]
          /\ hashInput # <<>> /\ hashInput' = Tail(hashInput)
      BY <2>3 DEF TakeJob
    <3>2. Len(hashInput') = Len(hashInput) - 1
      BY <2>0, <3>1, TailFacts
    <3>3. Busy' = Busy \union {w} /\ w \notin Busy /\ Staying' = Staying
      BY <2>0, <3>1 DEF Busy, Staying
    <3>4. Cardinality(Busy') = Cardinality(Busy) + 1
      BY <3>3, BusyFinite, FS_AddElement
    <3>5. Work' < Work
      BY <2>0, <3>2, <3>3, <3>4, BusyFinite, StayingFinite DEF Work
    <3> QED BY <3>1, <3>5
  <2>4. ASSUME NEW w \in Workers, Hash(w)
        PROVE  mpc' = mpc /\ place' = [place EXCEPT ![w] = "test"] /\ Work' < Work
    <3>1. /\ place[w] = "hash" /\ mpc' = mpc /\ place' = [place EXCEPT ![w] = "test"]
          /\ hashInput' = hashInput
      BY <2>4 DEF Hash
    <3>2. Busy' = Busy \ {w} /\ w \in Busy /\ Staying' = Staying
      BY <2>0, <3>1 DEF Busy, Staying
    <3>3. Cardinality(Busy') = Cardinality(Busy) - 1
      BY <3>2, BusyFinite, FS_RemoveElement
    <3>4. Work' < Work
      BY <2>0, <3>1, <3>2, <3>3, BusyFinite, StayingFinite DEF Work
    <3> QED BY <3>1, <3>4
  <2>5. ASSUME NEW w \in Workers, Exit(w)
        PROVE  mpc' = mpc /\ place' = [place EXCEPT ![w] = "exited"] /\ Work' < Work
    <3>1. /\ place[w] = "test" /\ mpc' = mpc /\ place' = [place EXCEPT ![w] = "exited"]
          /\ hashInput' = hashInput
      BY <2>5 DEF Exit
    <3>2. Staying' = Staying \ {w} /\ w \in Staying /\ Busy' = Busy
      BY <2>0, <3>1 DEF Busy, Staying
    <3>3. Cardinality(Staying') = Cardinality(Staying) - 1
      BY <3>2, StayingFinite, FS_RemoveElement
    <3>4. Work' < Work
      BY <2>0, <3>1, <3>2, <3>3, BusyFinite, StayingFinite DEF Work
    <3> QED BY <3>1, <3>4
  <2>6. ASSUME NEW w \in Workers, TakeJob(w) \/ Exit(w) \/ Hash(w)
        PROVE  /\ mpc' = "join" /\ \A v \in Workers : place'[v] \notin {"park", "asleep"}
               /\ Worker(w) /\ Work' < Work
    <3>1. mpc' = "join" /\ Work' < Work
      BY <1>1, <2>3, <2>4, <2>5, <2>6
    <3>2. PICK p \in {"hash", "test", "exited"} : place' = [place EXCEPT ![w] = p]
      BY <2>3, <2>4, <2>5, <2>6
    <3>3. \A v \in Workers : place'[v] \notin {"park", "asleep"}
      BY <1>1, <2>0, <3>2
    <3>4. Worker(w)
      BY <2>6 DEF Worker
    <3> QED BY <3>1, <3>3, <3>4
  <2> QED BY <2>1, <2>2, <2>6
<1>2. IInv /\ [Next]_vars =>
        [mpc = "join" /\ (\A w \in Workers : place[w] \notin {"park", "asleep"}) =>
           \/ mpc' = "gone"
           \/ /\ mpc' = "join" /\ \A w \in Workers : place'[w] \notin {"park", "asleep"}
              /\ \E w \in Workers : Worker(w)
              /\ Work' < Work]_vars
  BY <1>1
<1> QED BY <1>2, Invariance, PTL DEF SafeSpec, ClosingEnds
=============================================================================
