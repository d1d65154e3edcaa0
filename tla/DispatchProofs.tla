--------------------------- MODULE DispatchProofs ---------------------------
(***************************************************************************)
(* Theorems about Dispatch: however callbacks, hooks and natives nest, the *)
(* result of the callback that runs is active unless a script has chosen   *)
(* another, a synchronous query returns with its own and retains that one, *)
(* and a handle keeps the result it was given out for.                     *)
(*                                                                         *)
(* The argument is about the stack.  What stands on a frame depends on     *)
(* that frame alone: a callback stands on an asynchronous dispatch, that   *)
(* on the tick, and the tick is at the bottom.  A step pushes a frame,     *)
(* pops one or changes the top, so each of these needs a lemma.            *)
(***************************************************************************)
EXTENDS Dispatch, SequenceTheorems, FiniteSetTheorems, WellFoundedInduction, TLAPS

\* Results and queries of the first n queries.
Results(n) == [of : 0..n, sets : 0..MaxSets]
Names == Range(Scripts) \union {NoName}
QueryJobs(n) ==
  [id : 0..n, callback : Callbacks \union {NoName}, slot : Slots \union {Nobody}, session : Nat,
   script : Names, ok : BOOLEAN, sets : 0..MaxSets]

Roles == {"event", "hash", "hook", "error", "callback"}
ScriptFrames(n) ==
  [kind : {"script"}, role : Roles, script : Names, job : QueryJobs(n), session : Nat,
   touched : BOOLEAN]
DispatchFrames(n) ==
  [kind : {"dispatch"}, pc : {"start", "answer", "cleanup", "done"}, job : QueryJobs(n),
   sync : BOOLEAN, keep : BOOLEAN, audited : BOOLEAN, told : BOOLEAN]
TickFrames(n) == [kind : {"tick"}, done : Seq(QueryJobs(n)), hashed : BOOLEAN]
Frames(n) == ScriptFrames(n) \union DispatchFrames(n) \union TickFrames(n)

\* May frame f stand on frame g?  What a frame stands on is of the same kind for good.
IsDispatch(g, sync) == g.kind = "dispatch" /\ g.sync = sync
StandsOn(f, g) ==
  /\ f.kind # "tick"
  /\ f.kind = "dispatch" => g.kind = IF f.sync THEN "script" ELSE "tick"
  /\ f.kind = "script" /\ f.role = "callback" => IsDispatch(g, FALSE)

\* What may be at the bottom.
Bottom(f) == f.kind # "dispatch" /\ (f.kind = "script" => f.role # "callback")

\* What a frame says of itself: a synchronous query has no callback and calls none.
IsCalling(f) == f.kind = "dispatch" /\ f.pc = "cleanup"
Honest(f) == f.kind = "dispatch" /\ f.sync => f.job.callback = NoName /\ ~IsCalling(f)

ShapeOf(s) ==
  \A i \in DOMAIN s : Honest(s[i]) /\ IF i = 1 THEN Bottom(s[i]) ELSE StandsOn(s[i], s[i - 1])

\* The synchronous queries that will retain their result.
Keeps(f) == f.kind = "dispatch" /\ f.keep /\ f.job.ok
Keeping(s) == {i \in DOMAIN s : Keeps(s[i])}

StackInv == stack \in Seq(Frames(jobs)) /\ ShapeOf(stack)

ActiveInv ==
  /\ active \in Results(jobs) /\ set \in 0..(MaxSets - 1)
  /\ active.sets > 0 => set < active.sets

\* Handles are numbered from 1 on, and there is one left for each query that will retain.
HandleInv ==
  /\ nextCache \in Nat \ {0} /\ Len(named) = nextCache - 1
  /\ named \in Seq(Results(jobs))
  /\ DOMAIN saved \subseteq 1..(nextCache - 1)
  /\ \A h \in DOMAIN saved : saved[h] = named[h]
  /\ nextCache + Cardinality(Keeping(stack)) <= MaxHandles + 1

WorldInv ==
  /\ jobs \in Nat /\ completed \in Seq(QueryJobs(jobs))
  /\ sessions \in Nat /\ players \in [Slots -> 0..sessions]
  /\ mainLoaded \in BOOLEAN

IInv == StackInv /\ ActiveInv /\ HandleInv /\ WorldInv

-----------------------------------------------------------------------------
(* Queries and frames *)

LEMMA Constants ==
  /\ MaxSets \in Nat /\ MaxSets > 0 /\ MaxJobs \in Nat /\ MaxHandles \in Nat
  /\ Nobody \notin Slots
  /\ NoName \notin Callbacks /\ NoName \notin Hooks /\ NoName \notin Range(Scripts)
BY DispatchAssumption

\* More queries, more frames.
LEMMA FramesGrow ==
  ASSUME NEW n \in Nat
  PROVE  /\ Results(n) \subseteq Results(n + 1)
         /\ QueryJobs(n) \subseteq QueryJobs(n + 1)
         /\ Frames(n) \subseteq Frames(n + 1)
         /\ Seq(Results(n)) \subseteq Seq(Results(n + 1))
         /\ Seq(QueryJobs(n)) \subseteq Seq(QueryJobs(n + 1))
         /\ Seq(Frames(n)) \subseteq Seq(Frames(n + 1))
<1>1. 0..n \subseteq 0..(n + 1)
  OBVIOUS
<1>2. Results(n) \subseteq Results(n + 1)
  BY <1>1 DEF Results
<1>3. QueryJobs(n) \subseteq QueryJobs(n + 1)
  BY <1>1 DEF QueryJobs
<1>4. Seq(Results(n)) \subseteq Seq(Results(n + 1)) /\ Seq(QueryJobs(n)) \subseteq Seq(QueryJobs(n + 1))
  BY <1>2, <1>3, SeqMonotonic
<1>5. Frames(n) \subseteq Frames(n + 1)
  <2>1. ScriptFrames(n) \subseteq ScriptFrames(n + 1)
    BY <1>2, <1>3 DEF ScriptFrames
  <2>2. DispatchFrames(n) \subseteq DispatchFrames(n + 1)
    BY <1>3 DEF DispatchFrames
  <2>3. TickFrames(n) \subseteq TickFrames(n + 1)
    BY <1>4 DEF TickFrames
  <2> QED BY <2>1, <2>2, <2>3 DEF Frames
<1>6. Seq(Frames(n)) \subseteq Seq(Frames(n + 1))
  BY <1>5, SeqMonotonic
<1> QED BY <1>2, <1>3, <1>4, <1>5, <1>6

LEMMA KindOfFrame ==
  ASSUME NEW n \in Nat, NEW f \in Frames(n)
  PROVE  /\ f.kind = "script" <=> f \in ScriptFrames(n)
         /\ f.kind = "dispatch" <=> f \in DispatchFrames(n)
         /\ f.kind = "tick" <=> f \in TickFrames(n)
         /\ f.kind \in {"script", "dispatch", "tick"}
BY DEF Frames, ScriptFrames, DispatchFrames, TickFrames

\* What is loaded are scripts.
LEMMA LoadedScripts ==
  /\ Loaded \in Seq(Range(Scripts))
  /\ \A i \in DOMAIN Loaded : Loaded[i] \in Range(Scripts)
  /\ DOMAIN Loaded = 1..Len(Loaded) /\ Len(Loaded) \in Nat
  /\ Range(Loaded) \subseteq Range(Scripts)
<1>1. Loaded \in Seq(Range(Scripts))
  <2>1. Scripts \in Seq(Range(Scripts)) /\ Scripts # <<>>
    BY DispatchAssumption
  <2>2. Tail(Scripts) \in Seq(Range(Scripts))
    BY <2>1, HeadTailProperties
  <2> QED BY <2>1, <2>2 DEF Loaded
<1>2. \A i \in DOMAIN Loaded : Loaded[i] \in Range(Scripts)
  BY <1>1, ElementOfSeq, LenProperties
<1> QED BY <1>1, <1>2, LenProperties DEF Range

\* findScriptWithPublic finds the first script that has the public, and NoName if none has.
LEMMA FindScriptFinds ==
  ASSUME NEW public
  PROVE  /\ FindScript(public) \in Names
         /\ FindScript(public) # NoName =>
              \E i \in DOMAIN Loaded :
                /\ FindScript(public) = Loaded[i] /\ public \in Defines[Loaded[i]]
                /\ \A j \in DOMAIN Loaded : public \in Defines[Loaded[j]] => i <= j
         /\ FindScript(public) = NoName => \A i \in DOMAIN Loaded : public \notin Defines[Loaded[i]]
<1> DEFINE Having == {i \in DOMAIN Loaded : public \in Defines[Loaded[i]]}
           first == CHOOSE i \in Having : \A j \in Having : i <= j
<1>1. FindScript(public) = IF Having = {} THEN NoName ELSE Loaded[first]
  BY DEF FindScript
<1>2. CASE Having = {}
  BY <1>1, <1>2 DEF Names
<1>3. CASE Having # {}
  <2>1. Having \subseteq Nat
    BY LoadedScripts
  <2>2. \E i \in Having : \A j \in Having : i <= j
    <3>1. \E i \in Having : \A j \in Having : <<j, i>> \notin OpToRel(<, Nat)
      BY <1>3, <2>1, NatLessThanWellFounded, WFMin
    <3>2. PICK i \in Having : \A j \in Having : <<j, i>> \notin OpToRel(<, Nat)
      BY <3>1
    <3>3. \A j \in Having : ~(j < i)
      BY <2>1, <3>2 DEF OpToRel
    <3> QED BY <2>1, <3>3
  <2>3. first \in Having /\ \A j \in Having : first <= j
    BY <2>2
  <2>4. Loaded[first] \in Range(Scripts) /\ Loaded[first] # NoName
    BY <2>3, LoadedScripts, Constants
  <2> QED BY <1>1, <1>3, <2>3, <2>4 DEF Names
<1> QED BY <1>2, <1>3

\* So a query without a callback finds none.
LEMMA NoScriptHasNoName == FindScript(NoName) = NoName
<1>1. \A i \in DOMAIN Loaded : NoName \notin Defines[Loaded[i]]
  BY LoadedScripts, DispatchAssumption
<1> QED BY <1>1, FindScriptFinds

-----------------------------------------------------------------------------
(* The stack *)

LEMMA KeepingIsFinite ==
  ASSUME NEW n \in Nat, NEW s \in Seq(Frames(n))
  PROVE  IsFiniteSet(Keeping(s)) /\ Cardinality(Keeping(s)) \in Nat
<1>1. DOMAIN s = 1..Len(s) /\ Len(s) \in Nat
  BY LenProperties
<1>2. IsFiniteSet(1..Len(s))
  BY <1>1, FS_Interval
<1>3. Keeping(s) \subseteq 1..Len(s)
  BY <1>1 DEF Keeping
<1> QED BY <1>2, <1>3, FS_Subset, FS_CardinalityType

LEMMA PushKeeps ==
  ASSUME NEW n \in Nat, NEW s \in Seq(Frames(n)), ShapeOf(s), NEW f \in Frames(n), Honest(f),
         s = <<>> => Bottom(f), s # <<>> => StandsOn(f, s[Len(s)])
  PROVE  /\ Append(s, f) \in Seq(Frames(n)) /\ ShapeOf(Append(s, f))
         /\ Cardinality(Keeping(Append(s, f)))
              = IF Keeps(f) THEN Cardinality(Keeping(s)) + 1 ELSE Cardinality(Keeping(s))
<1> DEFINE t == Append(s, f)
<1>1. /\ t \in Seq(Frames(n)) /\ Len(t) = Len(s) + 1 /\ Len(s) \in Nat
      /\ \A i \in 1..Len(s) : t[i] = s[i]
      /\ t[Len(s) + 1] = f
  BY AppendProperties, LenProperties
<1>2. DOMAIN t = 1..Len(s) + 1 /\ DOMAIN s = 1..Len(s) /\ (s = <<>> <=> Len(s) = 0)
  BY <1>1, LenProperties
<1> HIDE DEF t
<1>3. ShapeOf(t)
  <2> SUFFICES ASSUME NEW i \in DOMAIN t
               PROVE  Honest(t[i]) /\ IF i = 1 THEN Bottom(t[i]) ELSE StandsOn(t[i], t[i - 1])
    BY DEF ShapeOf
  <2>1. CASE i \in DOMAIN s
    <3>1. t[i] = s[i] /\ (i # 1 => t[i - 1] = s[i - 1])
      BY <1>1, <1>2, <2>1
    <3> QED BY <2>1, <3>1 DEF ShapeOf
  <2>2. CASE i = Len(s) + 1
    <3>1. t[i] = f /\ (i = 1 <=> s = <<>>) /\ (i # 1 => t[i - 1] = s[Len(s)])
      BY <1>1, <1>2, <2>2
    <3> QED BY <3>1
  <2> QED BY <1>2, <2>1, <2>2
<1>4. Keeping(t) = IF Keeps(f) THEN Keeping(s) \union {Len(s) + 1} ELSE Keeping(s)
  BY <1>1, <1>2 DEF Keeping
<1>5. Len(s) + 1 \notin Keeping(s)
  BY <1>1, <1>2 DEF Keeping
<1>6. Cardinality(Keeping(t)) = IF Keeps(f) THEN Cardinality(Keeping(s)) + 1 ELSE Cardinality(Keeping(s))
  BY <1>4, <1>5, KeepingIsFinite, FS_AddElement
<1> QED BY <1>1, <1>3, <1>6 DEF t

LEMMA PopKeeps ==
  ASSUME NEW n \in Nat, NEW s \in Seq(Frames(n)), ShapeOf(s), s # <<>>
  PROVE  LET t == SubSeq(s, 1, Len(s) - 1) IN
         /\ t \in Seq(Frames(n)) /\ ShapeOf(t) /\ Len(t) = Len(s) - 1
         /\ t # <<>> => t[Len(t)] = s[Len(s) - 1]
         /\ Cardinality(Keeping(t))
              = IF Keeps(s[Len(s)]) THEN Cardinality(Keeping(s)) - 1 ELSE Cardinality(Keeping(s))
<1> DEFINE t == SubSeq(s, 1, Len(s) - 1)
<1>1. Len(s) \in Nat /\ Len(s) > 0 /\ DOMAIN s = 1..Len(s)
  BY LenProperties
<1>2. \A i \in 1..Len(s) - 1 : s[i] \in Frames(n)
  BY <1>1, ElementOfSeq
<1>3. /\ t \in Seq(Frames(n)) /\ Len(t) = Len(s) - 1
      /\ \A i \in 1..Len(s) - 1 : t[i] = s[i]
  <2>1. 1 \in Int /\ Len(s) - 1 \in Int
    BY <1>1
  <2>2. /\ t \in Seq(Frames(n)) /\ Len(t) = IF 1 <= Len(s) - 1 THEN (Len(s) - 1) - 1 + 1 ELSE 0
        /\ \A i \in 1..(Len(s) - 1) - 1 + 1 : t[i] = s[1 + i - 1]
    BY <1>2, <2>1, SubSeqProperties
  <2>3. Len(t) = Len(s) - 1
    BY <1>1, <2>2
  <2>4. \A i \in 1..Len(s) - 1 : i \in 1..(Len(s) - 1) - 1 + 1 /\ 1 + i - 1 = i
    BY <1>1
  <2> QED BY <2>2, <2>3, <2>4
<1>4. DOMAIN t = 1..Len(s) - 1
  BY <1>3, LenProperties
<1> HIDE DEF t
<1>5. ShapeOf(t)
  <2> SUFFICES ASSUME NEW i \in DOMAIN t
               PROVE  Honest(t[i]) /\ IF i = 1 THEN Bottom(t[i]) ELSE StandsOn(t[i], t[i - 1])
    BY DEF ShapeOf
  <2>1. i \in DOMAIN s /\ t[i] = s[i] /\ (i # 1 => t[i - 1] = s[i - 1])
    BY <1>1, <1>3, <1>4
  <2> QED BY <2>1 DEF ShapeOf
<1>6. Keeping(t) = Keeping(s) \ {Len(s)}
  BY <1>1, <1>3, <1>4 DEF Keeping
<1>7. Len(s) \in Keeping(s) <=> Keeps(s[Len(s)])
  BY <1>1 DEF Keeping
<1>8. Cardinality(Keeping(t)) = IF Keeps(s[Len(s)]) THEN Cardinality(Keeping(s)) - 1
                                                    ELSE Cardinality(Keeping(s))
  BY <1>6, <1>7, KeepingIsFinite, FS_RemoveElement
<1>9. t # <<>> => t[Len(t)] = s[Len(s) - 1]
  <2>1. t # <<>> => Len(t) > 0
    BY <1>3
  <2> QED BY <1>1, <1>3, <2>1
<1> QED BY <1>3, <1>5, <1>8, <1>9 DEF t

\* A frame in the place of another says the same of itself, and bears the same.
Alike(f, g) ==
  /\ f.kind = g.kind
  /\ f.kind = "dispatch" =>
       f.sync = g.sync /\ f.job = g.job /\ f.keep = g.keep /\ (f.sync => ~IsCalling(f))
  /\ f.kind = "script" => f.role = g.role /\ f.job = g.job

LEMMA ReplaceKeeps ==
  ASSUME NEW n \in Nat, NEW s \in Seq(Frames(n)), ShapeOf(s), s # <<>>, NEW f \in Frames(n),
         Alike(f, s[Len(s)])
  PROVE  LET t == [s EXCEPT ![Len(s)] = f] IN
         /\ t \in Seq(Frames(n)) /\ ShapeOf(t) /\ Len(t) = Len(s) /\ t # <<>> /\ t[Len(t)] = f
         /\ Keeping(t) = Keeping(s)
<1> DEFINE t == [s EXCEPT ![Len(s)] = f]
<1>1. Len(s) \in Nat /\ Len(s) > 0 /\ DOMAIN s = 1..Len(s)
  BY LenProperties
<1>2. /\ t \in Seq(Frames(n)) /\ Len(t) = Len(s)
      /\ \A i \in 1..Len(s) : t[i] = IF i = Len(s) THEN f ELSE s[i]
  BY <1>1, ExceptSeq
<1>3. DOMAIN t = 1..Len(s) /\ t # <<>>
  BY <1>1, <1>2, LenProperties
<1> HIDE DEF t
<1>4. ShapeOf(t)
  <2> SUFFICES ASSUME NEW i \in DOMAIN t
               PROVE  Honest(t[i]) /\ IF i = 1 THEN Bottom(t[i]) ELSE StandsOn(t[i], t[i - 1])
    BY DEF ShapeOf
  <2>1. i \in DOMAIN s /\ (i # 1 => t[i - 1] = s[i - 1])
    <3>1. i \in 1..Len(s) /\ (i # 1 => i - 1 \in 1..Len(s) /\ i - 1 # Len(s))
      BY <1>1, <1>3
    <3> QED BY <1>1, <1>2, <3>1
  <2>2. Honest(s[i]) /\ IF i = 1 THEN Bottom(s[i]) ELSE StandsOn(s[i], s[i - 1])
    BY <2>1 DEF ShapeOf
  <2>3. CASE i = Len(s)
    <3>1. t[i] = f /\ Alike(t[i], s[i])
      <4>1. t[i] = f /\ s[i] = s[Len(s)]
        BY <1>1, <1>2, <2>1, <2>3
      <4> QED BY <4>1 DEF Alike
    <3>2. Honest(t[i])
      BY <2>2, <3>1 DEF Honest, Alike
    <3>3. IF i = 1 THEN Bottom(t[i]) ELSE StandsOn(t[i], s[i - 1])
      BY <2>2, <3>1 DEF Bottom, StandsOn, Alike
    <3> QED BY <2>1, <3>2, <3>3
  <2>4. CASE i # Len(s)
    <3>1. t[i] = s[i]
      BY <1>2, <1>3, <2>4
    <3> QED BY <2>1, <2>2, <3>1
  <2> QED BY <2>3, <2>4
<1>5. Keeping(t) = Keeping(s)
  <2>1. Keeps(f) <=> Keeps(s[Len(s)])
    BY DEF Alike, Keeps
  <2> QED BY <1>1, <1>2, <1>3, <2>1 DEF Keeping
<1> QED BY <1>1, <1>2, <1>3, <1>4, <1>5 DEF t

-----------------------------------------------------------------------------
(* The frames that are pushed, and what the top may become *)

LEMMA ScriptFrame ==
  ASSUME NEW n \in Nat, NEW role \in Roles, NEW s \in Names, NEW job \in QueryJobs(n),
         NEW session \in Nat
  PROVE  LET f == Script(role, s, job, session) IN
         /\ f \in Frames(n) /\ f.kind = "script" /\ ~Keeps(f)
         /\ f.role = role /\ f.job = job
<1>1. Script(role, s, job, session) \in ScriptFrames(n)
  BY DEF Script, ScriptFrames
<1> QED BY <1>1 DEF Script, Frames, Keeps

LEMMA DispatchFrame ==
  ASSUME NEW n \in Nat, NEW job \in QueryJobs(n), NEW sync \in BOOLEAN, NEW keep \in BOOLEAN
  PROVE  LET f == Dispatching(job, sync, keep) IN
         /\ f \in Frames(n) /\ f.kind = "dispatch" /\ f.sync = sync /\ f.job = job
         /\ ~IsCalling(f)
         /\ Keeps(f) <=> keep /\ job.ok
<1>1. Dispatching(job, sync, keep) \in DispatchFrames(n)
  BY DEF Dispatching, DispatchFrames
<1> QED BY <1>1 DEF Dispatching, Frames, Keeps, IsCalling

LEMMA NothingYet ==
  ASSUME NEW n \in Nat
  PROVE  NoJob \in QueryJobs(n) /\ NoResult \in Results(n)
BY Constants DEF NoJob, NoResult, QueryJobs, Results, Names

LEMMA TopFacts ==
  ASSUME IInv, stack # <<>>
  PROVE  /\ Top \in Frames(jobs) /\ Honest(Top) /\ Len(stack) \in Nat /\ Len(stack) > 0
         /\ Top.kind = "script" => Top \in ScriptFrames(jobs)
         /\ Top.kind = "dispatch" => Top \in DispatchFrames(jobs)
         /\ Top.kind = "tick" => Top \in TickFrames(jobs)
         /\ IF Len(stack) = 1 THEN Bottom(Top) ELSE StandsOn(Top, stack[Len(stack) - 1])
<1>1. stack \in Seq(Frames(jobs)) /\ jobs \in Nat
  BY DEF IInv, StackInv, WorldInv
<1>2. Len(stack) \in Nat /\ Len(stack) > 0 /\ Len(stack) \in DOMAIN stack
  BY <1>1, LenProperties
<1>3. Top \in Frames(jobs)
  BY <1>1, <1>2, ElementOfSeq DEF Top
<1>4. Honest(Top) /\ IF Len(stack) = 1 THEN Bottom(Top) ELSE StandsOn(Top, stack[Len(stack) - 1])
  BY <1>2 DEF IInv, StackInv, ShapeOf, Top
<1> QED BY <1>1, <1>2, <1>3, <1>4, KindOfFrame

\* dispatchJob goes on: the frame says of itself what it said before.
LEMMA Goes ==
  ASSUME IInv, TopIs("dispatch"), NEW pc \in {"start", "answer", "cleanup", "done"},
         Top.sync => pc # "cleanup"
  PROVE  /\ Goto(pc) \in Frames(jobs) /\ Alike(Goto(pc), Top)
         /\ [Goto(pc) EXCEPT !.audited = TRUE] \in Frames(jobs)
         /\ Alike([Goto(pc) EXCEPT !.audited = TRUE], Top)
         /\ [Goto(pc) EXCEPT !.told = TRUE] \in Frames(jobs)
         /\ Alike([Goto(pc) EXCEPT !.told = TRUE], Top)
<1>1. Top \in DispatchFrames(jobs)
  BY TopFacts DEF TopIs, Empty
<1>2. /\ Goto(pc) \in DispatchFrames(jobs) /\ Alike(Goto(pc), Top)
      /\ [Goto(pc) EXCEPT !.audited = TRUE] \in DispatchFrames(jobs)
      /\ Alike([Goto(pc) EXCEPT !.audited = TRUE], Top)
      /\ [Goto(pc) EXCEPT !.told = TRUE] \in DispatchFrames(jobs)
      /\ Alike([Goto(pc) EXCEPT !.told = TRUE], Top)
  BY <1>1 DEF Goto, DispatchFrames, Alike, IsCalling
<1> QED BY <1>2 DEF Frames

\* The three ways the stack changes, in a state that satisfies the invariant.
LEMMA Pushed ==
  ASSUME IInv, NEW f \in Frames(jobs), Honest(f),
         stack = <<>> => Bottom(f), stack # <<>> => StandsOn(f, Top)
  PROVE  /\ Append(stack, f) \in Seq(Frames(jobs)) /\ ShapeOf(Append(stack, f))
         /\ Cardinality(Keeping(Append(stack, f)))
              = IF Keeps(f) THEN Cardinality(Keeping(stack)) + 1 ELSE Cardinality(Keeping(stack))
BY PushKeeps DEF IInv, StackInv, WorldInv, Top

LEMMA Popped ==
  ASSUME IInv, stack # <<>>
  PROVE  /\ Pop \in Seq(Frames(jobs)) /\ ShapeOf(Pop) /\ Len(Pop) = Len(stack) - 1
         /\ Pop # <<>> => Pop[Len(Pop)] = stack[Len(stack) - 1]
         /\ Cardinality(Keeping(Pop))
              = IF Keeps(Top) THEN Cardinality(Keeping(stack)) - 1 ELSE Cardinality(Keeping(stack))
BY PopKeeps DEF IInv, StackInv, WorldInv, Top, Pop

LEMMA ReplacedTop ==
  ASSUME IInv, stack # <<>>, NEW f \in Frames(jobs), Alike(f, Top)
  PROVE  /\ Replaced(f) \in Seq(Frames(jobs)) /\ ShapeOf(Replaced(f))
         /\ Len(Replaced(f)) = Len(stack)
         /\ Cardinality(Keeping(Replaced(f))) = Cardinality(Keeping(stack))
BY ReplaceKeeps DEF IInv, StackInv, WorldInv, Top, Replaced

LEMMA ReplacedAndPushed ==
  ASSUME IInv, stack # <<>>, NEW f \in Frames(jobs), Alike(f, Top), NEW g \in Frames(jobs),
         Honest(g), StandsOn(g, Top), ~Keeps(g)
  PROVE  /\ Append(Replaced(f), g) \in Seq(Frames(jobs)) /\ ShapeOf(Append(Replaced(f), g))
         /\ Len(Append(Replaced(f), g)) = Len(stack) + 1
         /\ Cardinality(Keeping(Append(Replaced(f), g))) = Cardinality(Keeping(stack))
<1> DEFINE t == Replaced(f)
<1>1. /\ t \in Seq(Frames(jobs)) /\ ShapeOf(t) /\ Len(t) = Len(stack) /\ t # <<>> /\ t[Len(t)] = f
      /\ Keeping(t) = Keeping(stack) /\ jobs \in Nat
  BY ReplaceKeeps DEF IInv, StackInv, WorldInv, Top, Replaced
<1> HIDE DEF t
<1>2. StandsOn(g, t[Len(t)])
  BY <1>1 DEF StandsOn, Alike, IsDispatch
<1>3. /\ Append(t, g) \in Seq(Frames(jobs)) /\ ShapeOf(Append(t, g))
      /\ Cardinality(Keeping(Append(t, g))) = Cardinality(Keeping(t))
  BY <1>1, <1>2, PushKeeps
<1>4. Len(Append(t, g)) = Len(stack) + 1
  BY <1>1, AppendProperties
<1> QED BY <1>1, <1>3, <1>4 DEF t

-----------------------------------------------------------------------------
(* The steps *)

\* Steps of the stack alone.
LEMMA StackStep ==
  ASSUME IInv, UNCHANGED <<cacheVars, worldVars, jobs>>, completed' \in Seq(QueryJobs(jobs)),
         stack' \in Seq(Frames(jobs)), ShapeOf(stack'),
         Cardinality(Keeping(stack')) <= Cardinality(Keeping(stack))
  PROVE  IInv'
<1>1. jobs \in Nat /\ stack \in Seq(Frames(jobs)) /\ jobs' = jobs
  BY DEF IInv, StackInv, WorldInv
<1>2. Cardinality(Keeping(stack)) \in Nat /\ Cardinality(Keeping(stack')) \in Nat
  BY <1>1, KeepingIsFinite
<1>3. StackInv'
  BY <1>1 DEF StackInv
<1>4. ActiveInv'
  BY DEF IInv, ActiveInv, cacheVars
<1>5. HandleInv'
  <2>1. UNCHANGED <<saved, nextCache, named, jobs>>
    BY DEF cacheVars, handleVars
  <2>2. nextCache + Cardinality(Keeping(stack')) <= MaxHandles + 1
    BY <1>2, Constants DEF IInv, HandleInv
  <2> QED BY <2>1, <2>2 DEF IInv, HandleInv
<1>6. WorldInv'
  BY DEF IInv, WorldInv, worldVars
<1> QED BY <1>3, <1>4, <1>5, <1>6 DEF IInv

LEMMA EventStep == ASSUME IInv, NEW s \in Range(Loaded), Event(s) PROVE IInv'
<1> DEFINE f == Script("event", s, NoJob, 0)
<1>1. /\ stack = <<>> /\ stack' = <<f>> /\ jobs \in Nat
      /\ UNCHANGED <<completed, cacheVars, worldVars, jobs>>
  BY DEF Event, Empty, IInv, WorldInv
<1>2. f \in Frames(jobs) /\ f.kind = "script" /\ ~Keeps(f) /\ f.role = "event"
  <2>1. s \in Names /\ "event" \in Roles /\ 0 \in Nat
    BY LoadedScripts DEF Names, Roles
  <2> QED BY <1>1, <2>1, NothingYet, ScriptFrame
<1> HIDE DEF f
<1>3. Honest(f) /\ Bottom(f)
  BY <1>2 DEF Honest, Bottom
<1>4. <<f>> = Append(stack, f)
  BY <1>1
<1>5. completed' \in Seq(QueryJobs(jobs))
  BY <1>1 DEF IInv, WorldInv
<1>6. Cardinality(Keeping(stack)) \in Nat
  BY <1>1, KeepingIsFinite DEF IInv, StackInv
<1> QED BY <1>1, <1>2, <1>3, <1>4, <1>5, <1>6, Pushed, StackStep

LEMMA PlayersStep == ASSUME IInv, NEW p \in Slots, Join(p) \/ Leave(p) PROVE IInv'
<1>1. UNCHANGED <<stack, completed, cacheVars, mainLoaded, jobs>>
  BY DEF Join, Leave
<1>2. sessions' \in Nat /\ players' \in [Slots -> 0..sessions']
  BY DEF Join, Leave, IInv, WorldInv
<1> QED BY <1>1, <1>2 DEF IInv, StackInv, ActiveInv, HandleInv, WorldInv, cacheVars, handleVars

\* The gamemode is gone, or is back.
LEMMA ResetStep == ASSUME IInv, Reset PROVE IInv'
<1>1. /\ stack = <<>> /\ active' = NoResult /\ set' = 0
      /\ saved' = <<>> /\ nextCache' = 1 /\ named' = <<>> /\ mainLoaded' = FALSE
      /\ UNCHANGED <<stack, completed, players, sessions, jobs>>
  BY DEF Reset, Empty
<1>2. StackInv' /\ WorldInv'
  BY <1>1 DEF IInv, StackInv, WorldInv
<1>3. ActiveInv'
  <2>1. jobs \in Nat
    BY DEF IInv, WorldInv
  <2> QED BY <1>1, <2>1, NothingYet, Constants DEF ActiveInv, NoResult
<1>4. HandleInv'
  <2>1. named' \in Seq(Results(jobs')) /\ Len(named') = 0 /\ DOMAIN saved' = {}
    BY <1>1, EmptySeq
  <2>2. Cardinality(Keeping(stack')) = 0
    <3>1. Keeping(stack') = {}
      BY <1>1 DEF Keeping
    <3> QED BY <3>1, FS_EmptySet
  <2> QED BY <1>1, <2>1, <2>2, Constants DEF HandleInv
<1> QED BY <1>2, <1>3, <1>4 DEF IInv

LEMMA LoadMainStep == ASSUME IInv, LoadMain PROVE IInv'
BY DEF LoadMain, IInv, StackInv, ActiveInv, HandleInv, WorldInv, cacheVars, handleVars

LEMMA TickStep == ASSUME IInv, NEW n \in Nat, Tick(n) PROVE IInv'
<1> DEFINE f == Ticking(SubSeq(completed, 1, n))
<1>1. /\ stack = <<>> /\ stack' = <<f>> /\ jobs \in Nat /\ n \in 0..Len(completed)
      /\ completed' = SubSeq(completed, n + 1, Len(completed))
      /\ UNCHANGED <<cacheVars, worldVars, jobs>>
  BY DEF Tick, Empty, IInv, WorldInv
<1>2. completed \in Seq(QueryJobs(jobs)) /\ Len(completed) \in Nat
  BY DEF IInv, WorldInv
<1>3. /\ SubSeq(completed, 1, n) \in Seq(QueryJobs(jobs))
      /\ SubSeq(completed, n + 1, Len(completed)) \in Seq(QueryJobs(jobs))
  <2>1. \A i \in 1..Len(completed) : completed[i] \in QueryJobs(jobs)
    BY <1>2, ElementOfSeq
  <2>2. \A i \in 1..n : completed[i] \in QueryJobs(jobs)
    BY <1>1, <1>2, <2>1
  <2>3. \A i \in (n + 1)..Len(completed) : completed[i] \in QueryJobs(jobs)
    BY <1>1, <1>2, <2>1
  <2> QED BY <1>1, <1>2, <2>2, <2>3, SubSeqProperties
<1>4. f \in Frames(jobs) /\ f.kind = "tick"
  BY <1>3 DEF Ticking, TickFrames, Frames
<1> HIDE DEF f
<1>5. Honest(f) /\ Bottom(f) /\ ~Keeps(f)
  BY <1>4 DEF Honest, Bottom, Keeps
<1>6. <<f>> = Append(stack, f)
  BY <1>1
<1>7. Cardinality(Keeping(stack)) \in Nat
  BY <1>1, KeepingIsFinite DEF IInv, StackInv
<1> QED BY <1>1, <1>3, <1>4, <1>5, <1>6, <1>7, Pushed, StackStep

LEMMA Basics ==
  ASSUME IInv
  PROVE  /\ jobs \in Nat /\ stack \in Seq(Frames(jobs)) /\ completed \in Seq(QueryJobs(jobs))
         /\ Cardinality(Keeping(stack)) \in Nat
         /\ active \in Results(jobs)
<1>1. jobs \in Nat /\ stack \in Seq(Frames(jobs)) /\ completed \in Seq(QueryJobs(jobs))
  BY DEF IInv, StackInv, WorldInv
<1> QED BY <1>1, KeepingIsFinite DEF IInv, ActiveInv

LEMMA PopStep ==
  ASSUME IInv, stack # <<>>, stack' = Pop, UNCHANGED <<completed, cacheVars, worldVars, jobs>>
  PROVE  IInv'
<1>1. Cardinality(Keeping(Pop)) <= Cardinality(Keeping(stack))
  BY Basics, Popped
<1> QED BY <1>1, Basics, Popped, StackStep

LEMMA ReplaceStep ==
  ASSUME IInv, stack # <<>>, NEW f \in Frames(jobs), Alike(f, Top), stack' = Replaced(f),
         UNCHANGED <<completed, cacheVars, worldVars, jobs>>
  PROVE  IInv'
BY Basics, ReplacedTop, StackStep

LEMMA CallStep ==
  ASSUME IInv, stack # <<>>, NEW f \in Frames(jobs), Alike(f, Top), NEW g \in Frames(jobs),
         Honest(g), StandsOn(g, Top), ~Keeps(g), stack' = Append(Replaced(f), g),
         UNCHANGED <<completed, cacheVars, worldVars, jobs>>
  PROVE  IInv'
BY Basics, ReplacedAndPushed, StackStep

LEMMA DispatchNextStep == ASSUME IInv, DispatchNext PROVE IInv'
<1> DEFINE f == [Top EXCEPT !.done = Tail(Top.done)]
           g == Dispatching(Head(Top.done), FALSE, FALSE)
<1>1. /\ stack # <<>> /\ Top.kind = "tick" /\ Top.done # <<>>
      /\ stack' = Append(Replaced(f), g) /\ UNCHANGED <<completed, cacheVars, worldVars, jobs>>
  BY DEF DispatchNext, TopIs, Empty
<1>2. Top \in TickFrames(jobs)
  BY <1>1, TopFacts
<1>3. Tail(Top.done) \in Seq(QueryJobs(jobs)) /\ Head(Top.done) \in QueryJobs(jobs)
  BY <1>1, <1>2, HeadTailProperties DEF TickFrames
<1>4. f \in Frames(jobs) /\ Alike(f, Top)
  <2>1. f \in TickFrames(jobs)
    BY <1>2, <1>3 DEF TickFrames
  <2> QED BY <1>1, <2>1 DEF Frames, TickFrames, Alike
<1>5. g \in Frames(jobs) /\ g.kind = "dispatch" /\ g.sync = FALSE /\ ~Keeps(g)
  BY <1>3, Basics, DispatchFrame, Zenon
<1> HIDE DEF f, g
<1>6. Honest(g) /\ StandsOn(g, Top)
  BY <1>1, <1>5 DEF Honest, StandsOn, IsCalling
<1> QED BY <1>1, <1>4, <1>5, <1>6, CallStep

LEMMA DispatchHashStep == ASSUME IInv, NEW s \in Range(Loaded), DispatchHash(s) PROVE IInv'
<1> DEFINE f == [Top EXCEPT !.hashed = TRUE]
           g == Script("hash", s, NoJob, 0)
<1>1. /\ stack # <<>> /\ Top.kind = "tick"
      /\ stack' = Append(Replaced(f), g) /\ UNCHANGED <<completed, cacheVars, worldVars, jobs>>
  BY DEF DispatchHash, TopIs, Empty
<1>2. Top \in TickFrames(jobs)
  BY <1>1, TopFacts
<1>3. f \in Frames(jobs) /\ Alike(f, Top)
  <2>1. f \in TickFrames(jobs)
    BY <1>2 DEF TickFrames
  <2> QED BY <1>1, <2>1 DEF Frames, TickFrames, Alike
<1>4. g \in Frames(jobs) /\ g.kind = "script" /\ g.role = "hash" /\ ~Keeps(g)
  <2>1. s \in Names /\ "hash" \in Roles /\ 0 \in Nat
    BY LoadedScripts DEF Names, Roles
  <2> QED BY <2>1, Basics, NothingYet, ScriptFrame
<1> HIDE DEF f, g
<1>5. Honest(g) /\ StandsOn(g, Top)
  BY <1>4 DEF Honest, StandsOn
<1> QED BY <1>1, <1>3, <1>4, <1>5, CallStep

LEMMA ServerStep == ASSUME IInv, Server PROVE IInv'
<1>1. CASE \E s \in Range(Loaded) : Event(s) \/ DispatchHash(s)
  BY <1>1, EventStep, DispatchHashStep
<1>2. CASE \E p \in Slots : Join(p) \/ Leave(p)
  BY <1>2, PlayersStep
<1>3. CASE \E n \in 1..MaxJobs : Tick(n)
  <2>1. 1..MaxJobs \subseteq Nat
    BY Constants
  <2> QED BY <1>3, <2>1, TickStep
<1>4. CASE DispatchNext
  BY <1>4, DispatchNextStep
<1>5. CASE EndTick
  <2>1. stack # <<>> /\ stack' = Pop /\ UNCHANGED <<completed, cacheVars, worldVars, jobs>>
    BY <1>5 DEF EndTick, TopIs, Empty
  <2> QED BY <2>1, PopStep
<1> QED BY <1>1, <1>2, <1>3, <1>4, <1>5, ResetStep, LoadMainStep DEF Server

\* The hooks are called with nothing changed.
LEMMA HookStep ==
  ASSUME IInv, TopIs("dispatch"), NEW f \in Frames(jobs), Alike(f, Top),
         NEW role \in {"hook", "error"}, NEW s \in Names,
         stack' = Append(Replaced(f), Script(role, s, Top.job, 0)),
         UNCHANGED <<completed, cacheVars, worldVars, jobs>>
  PROVE  IInv'
<1> DEFINE g == Script(role, s, Top.job, 0)
<1>1. stack # <<>> /\ Top.job \in QueryJobs(jobs)
  BY TopFacts DEF TopIs, Empty, DispatchFrames
<1>2. g \in Frames(jobs) /\ g.kind = "script" /\ g.role = role /\ ~Keeps(g)
  <2>1. role \in Roles /\ 0 \in Nat
    BY DEF Roles
  <2> QED BY <1>1, <2>1, Basics, ScriptFrame
<1>3. stack' = Append(Replaced(f), g)
  OBVIOUS
<1> HIDE DEF g
<1>4. Honest(g) /\ StandsOn(g, Top)
  BY <1>2 DEF Honest, StandsOn
<1> QED BY <1>1, <1>2, <1>3, <1>4, CallStep

\* A query that has a callback was submitted by mysql_execute.
LEMMA CalledIsAsynchronous ==
  ASSUME IInv, TopIs("dispatch"), FindScript(Top.job.callback) # NoName
  PROVE  IsDispatch(Top, FALSE)
<1>1. Top \in DispatchFrames(jobs) /\ Honest(Top) /\ Top.kind = "dispatch"
  BY TopFacts DEF TopIs, Empty
<1>2. Top.sync # TRUE
  BY <1>1, NoScriptHasNoName DEF Honest
<1> QED BY <1>1, <1>2 DEF IsDispatch, DispatchFrames

LEMMA CallbackStep == ASSUME IInv, Callback PROVE IInv'
<1> DEFINE job == Top.job
           f == Goto("cleanup")
           session == IF job.slot = Nobody THEN 0 ELSE players[job.slot]
           g == Script("callback", FindScript(job.callback), job, session)
<1>1. /\ TopIs("dispatch") /\ active' = Result(job) /\ set' = 0
      /\ FindScript(job.callback) # NoName
      /\ stack' = Append(Replaced(f), g)
      /\ UNCHANGED <<completed, handleVars, worldVars, jobs>>
  BY DEF Callback, Answering, At, TopIs
<1>2. stack # <<>> /\ Top \in DispatchFrames(jobs)
  BY <1>1, TopFacts DEF TopIs, Empty
<1>3. /\ job \in QueryJobs(jobs) /\ Result(job) \in Results(jobs)
      /\ session \in Nat
  <2>1. job \in QueryJobs(jobs)
    BY <1>2 DEF DispatchFrames
  <2>2. Result(job) \in Results(jobs)
    BY <2>1 DEF QueryJobs, Results, Result
  <2>3. session \in Nat
    <3>1. job.slot \in Slots \union {Nobody} /\ players \in [Slots -> 0..sessions] /\ sessions \in Nat
      BY <2>1 DEF QueryJobs, IInv, WorldInv
    <3> QED BY <3>1
  <2> QED BY <2>1, <2>2, <2>3
<1>4. f \in Frames(jobs) /\ Alike(f, Top)
  <2>1. ~Top.sync
    BY <1>1, CalledIsAsynchronous DEF IsDispatch
  <2> QED BY <1>1, <2>1, Goes
<1>5. /\ g \in Frames(jobs) /\ g.kind = "script" /\ ~Keeps(g) /\ g.role = "callback"
      /\ g.job = job
  <2>1. "callback" \in Roles /\ FindScript(job.callback) \in Names
    BY FindScriptFinds DEF Roles
  <2> QED BY <1>3, <2>1, Basics, ScriptFrame
<1>6. IsDispatch(Top, FALSE)
  BY <1>1, CalledIsAsynchronous
<1> HIDE DEF f, g, session
<1>7. Honest(g) /\ StandsOn(g, Top)
  BY <1>5, <1>6 DEF Honest, StandsOn
<1>8. /\ stack' \in Seq(Frames(jobs)) /\ ShapeOf(stack')
      /\ Cardinality(Keeping(stack')) = Cardinality(Keeping(stack))
  BY <1>1, <1>2, <1>4, <1>5, <1>7, ReplacedAndPushed
<1>9. StackInv'
  BY <1>1, <1>8 DEF StackInv
<1>10. ActiveInv'
  BY <1>1, <1>3, Constants DEF ActiveInv, Results
<1>11. HandleInv' /\ WorldInv'
  BY <1>1, <1>8 DEF IInv, HandleInv, WorldInv, worldVars, handleVars
<1> QED BY <1>9, <1>10, <1>11 DEF IInv

LEMMA CleanupStep == ASSUME IInv, Cleanup PROVE IInv'
<1>1. /\ TopIs("dispatch") /\ active' = NoResult /\ set' = 0 /\ stack # <<>>
      /\ stack' = Replaced(Goto("done"))
      /\ UNCHANGED <<completed, handleVars, worldVars, jobs>>
  BY DEF Cleanup, At, TopIs, Empty
<1>2. /\ stack' \in Seq(Frames(jobs)) /\ ShapeOf(stack')
      /\ Cardinality(Keeping(stack')) = Cardinality(Keeping(stack))
  BY <1>1, Goes, ReplacedTop
<1>3. StackInv'
  BY <1>1, <1>2 DEF StackInv
<1>4. ActiveInv'
  BY <1>1, Constants, Basics, NothingYet DEF ActiveInv, NoResult
<1>5. HandleInv' /\ WorldInv'
  BY <1>1, <1>2 DEF IInv, HandleInv, WorldInv, worldVars, handleVars
<1> QED BY <1>3, <1>4, <1>5 DEF IInv

LEMMA DispatchJobStep == ASSUME IInv, DispatchJob PROVE IInv'
<1>1. CASE Ignore \/ SkipCallback
  <2>1. /\ TopIs("dispatch") /\ stack # <<>> /\ stack' = Replaced(Goto("done"))
        /\ UNCHANGED <<completed, cacheVars, worldVars, jobs>>
    BY <1>1 DEF Ignore, SkipCallback, Answering, At, TopIs, Empty
  <2> QED BY <2>1, Goes, ReplaceStep
<1>2. CASE Audit
  <2>1. /\ TopIs("dispatch")
        /\ stack' = Append(Replaced([Goto("answer") EXCEPT !.audited = TRUE]),
                           Script("hook", FindScript("OnQueryExecute"), Top.job, 0))
        /\ UNCHANGED <<completed, cacheVars, worldVars, jobs>>
    BY <1>2 DEF Audit, At
  <2>2. FindScript("OnQueryExecute") \in Names
    BY FindScriptFinds
  <2> QED BY <2>1, <2>2, Goes, HookStep
<1>3. CASE ReportError
  <2>1. /\ TopIs("dispatch")
        /\ stack' = Append(Replaced([Goto("done") EXCEPT !.told = TRUE]),
                           Script("error", FindScript("OnQueryError"), Top.job, 0))
        /\ UNCHANGED <<completed, cacheVars, worldVars, jobs>>
    BY <1>3 DEF ReportError, Answering, At
  <2>2. FindScript("OnQueryError") \in Names
    BY FindScriptFinds
  <2> QED BY <2>1, <2>2, Goes, HookStep
<1>4. CASE Callback
  BY <1>4, CallbackStep
<1>5. CASE Cleanup
  BY <1>5, CleanupStep
<1>6. CASE EndDispatch
  <2>1. stack # <<>> /\ stack' = Pop /\ UNCHANGED <<completed, cacheVars, worldVars, jobs>>
    BY <1>6 DEF EndDispatch, At, TopIs, Empty
  <2> QED BY <2>1, PopStep
<1> QED BY <1>1, <1>2, <1>3, <1>4, <1>5, <1>6 DEF DispatchJob

-----------------------------------------------------------------------------
(* Queries *)

LEMMA NewJobIsAQuery ==
  ASSUME IInv, InScript, NEW callback \in Callbacks \union {NoName},
         NEW slot \in Slots \union {Nobody}, NEW ok \in BOOLEAN, NEW sets \in 0..MaxSets
  PROVE  LET job == NewJob(callback, slot, ok, sets) IN
         job \in QueryJobs(jobs + 1) /\ job.callback = callback /\ job.ok = ok
<1>1. Top \in ScriptFrames(jobs) /\ jobs \in Nat
  BY TopFacts, Basics DEF InScript, TopIs, Empty
<1>2. Top.script \in Names
  BY <1>1 DEF ScriptFrames
<1>3. (IF slot = Nobody THEN 0 ELSE players[slot]) \in Nat
  BY DEF IInv, WorldInv
<1>4. (IF ok THEN sets ELSE 0) \in 0..MaxSets /\ jobs + 1 \in 0..(jobs + 1)
  BY <1>1, Constants
<1> QED BY <1>2, <1>3, <1>4 DEF NewJob, QueryJobs

\* Steps that submit a query.
LEMMA SubmitStep ==
  ASSUME IInv, jobs' = jobs + 1, UNCHANGED <<cacheVars, worldVars>>,
         completed' \in Seq(QueryJobs(jobs + 1)),
         stack' \in Seq(Frames(jobs + 1)), ShapeOf(stack'),
         nextCache + Cardinality(Keeping(stack')) <= MaxHandles + 1
  PROVE  IInv'
<1>1. jobs \in Nat /\ jobs' \in Nat
  BY Basics
<1>2. StackInv'
  BY DEF StackInv
<1>3. UNCHANGED <<active, set, saved, nextCache, named, mainLoaded, players, sessions>>
  BY DEF cacheVars, handleVars, worldVars
<1>4. ActiveInv'
  BY <1>1, <1>3, FramesGrow DEF IInv, ActiveInv
<1>5. HandleInv'
  <2>1. named \in Seq(Results(jobs + 1))
    BY <1>1, FramesGrow DEF IInv, HandleInv
  <2> QED BY <1>3, <2>1 DEF IInv, HandleInv
<1>6. WorldInv'
  BY <1>1, <1>3 DEF IInv, WorldInv
<1> QED BY <1>2, <1>4, <1>5, <1>6 DEF IInv

LEMMA ExecuteStep ==
  ASSUME IInv, NEW callback \in Callbacks \union {NoName}, NEW slot \in Slots \union {Nobody},
         NEW ok \in BOOLEAN, Execute(callback, slot, ok)
  PROVE  IInv'
<1> DEFINE job == NewJob(callback, slot, ok, 1)
<1>1. /\ InScript /\ completed' = Append(completed, job) /\ jobs' = jobs + 1
      /\ UNCHANGED <<stack, cacheVars, worldVars>>
  BY DEF Execute
<1>2. job \in QueryJobs(jobs + 1)
  <2>1. 1 \in 0..MaxSets
    BY Constants
  <2> QED BY <1>1, <2>1, NewJobIsAQuery
<1> HIDE DEF job
<1>3. completed \in Seq(QueryJobs(jobs + 1)) /\ stack \in Seq(Frames(jobs + 1))
  BY Basics, FramesGrow
<1>4. completed' \in Seq(QueryJobs(jobs + 1))
  BY <1>1, <1>2, <1>3, AppendProperties
<1>5. ShapeOf(stack) /\ nextCache + Cardinality(Keeping(stack)) <= MaxHandles + 1
  BY DEF IInv, StackInv, HandleInv
<1>6. stack' = stack
  BY <1>1
<1> QED BY <1>1, <1>3, <1>4, <1>5, <1>6, SubmitStep

LEMMA ExecuteRejectedStep ==
  ASSUME IInv, NEW callback \in Callbacks \union {NoName}, NEW slot \in Slots \union {Nobody},
         ExecuteRejected(callback, slot)
  PROVE  IInv'
<1> DEFINE job == NewJob(callback, slot, FALSE, 0)
           f == Script("error", Top.script, job, 0)
<1>1. /\ InScript /\ stack' = Append(stack, f) /\ jobs' = jobs + 1
      /\ UNCHANGED <<completed, cacheVars, worldVars>>
  BY DEF ExecuteRejected
<1>2. /\ completed \in Seq(QueryJobs(jobs + 1)) /\ stack \in Seq(Frames(jobs + 1))
      /\ active \in Results(jobs + 1) /\ jobs + 1 \in Nat
  BY Basics, FramesGrow
<1>3. job \in QueryJobs(jobs + 1)
  <2>1. 0 \in 0..MaxSets
    BY Constants
  <2> QED BY <1>1, <2>1, NewJobIsAQuery
<1> HIDE DEF job
<1>4. f \in Frames(jobs + 1) /\ f.kind = "script" /\ f.role = "error" /\ ~Keeps(f)
  <2>1. Top.script \in Names
    BY <1>1, TopFacts DEF InScript, TopIs, Empty, ScriptFrames
  <2>2. "error" \in Roles /\ 0 \in Nat
    BY DEF Roles
  <2> QED BY <1>2, <1>3, <2>1, <2>2, ScriptFrame
<1> HIDE DEF f
<1>5. Honest(f) /\ StandsOn(f, Top) /\ stack # <<>>
  BY <1>1, <1>4 DEF Honest, StandsOn, InScript, TopIs, Empty
<1>6. ShapeOf(stack) /\ nextCache + Cardinality(Keeping(stack)) <= MaxHandles + 1
  BY DEF IInv, StackInv, HandleInv
<1>7. /\ stack' \in Seq(Frames(jobs + 1)) /\ ShapeOf(stack')
      /\ Cardinality(Keeping(stack')) = Cardinality(Keeping(stack))
  BY <1>1, <1>2, <1>4, <1>5, <1>6, PushKeeps DEF Top
<1>8. completed' = completed
  BY <1>1
<1> QED BY <1>1, <1>2, <1>6, <1>7, <1>8, SubmitStep

LEMMA HandlesLeftSays ==
  HandlesLeft <=> nextCache + Cardinality(Keeping(stack)) <= MaxHandles
BY DEF HandlesLeft, Keeping, Keeps

LEMMA ExecuteSyncStep ==
  ASSUME IInv, NEW keep \in BOOLEAN, NEW ok \in BOOLEAN, NEW sets \in 1..MaxSets,
         ExecuteSync(keep, ok, sets)
  PROVE  IInv'
<1> DEFINE job == NewJob(NoName, Nobody, ok, sets)
           f == Dispatching(job, TRUE, keep)
<1>1. /\ InScript /\ (keep /\ ok => HandlesLeft)
      /\ stack' = Append(stack, f) /\ jobs' = jobs + 1
      /\ UNCHANGED <<completed, cacheVars, worldVars>>
  BY DEF ExecuteSync
<1>2. /\ completed \in Seq(QueryJobs(jobs + 1)) /\ stack \in Seq(Frames(jobs + 1))
      /\ jobs + 1 \in Nat
  BY Basics, FramesGrow
<1>3. job \in QueryJobs(jobs + 1) /\ job.callback = NoName /\ job.ok = ok
  <2>1. sets \in 0..MaxSets
    BY Constants
  <2>2. NoName \in Callbacks \union {NoName} /\ Nobody \in Slots \union {Nobody} /\ InScript
    BY <1>1
  <2> HIDE DEF f
  <2> QED BY ONLY IInv, ok \in BOOLEAN, <2>1, <2>2, NewJobIsAQuery
<1> HIDE DEF job
<1>4. /\ f \in Frames(jobs + 1) /\ f.kind = "dispatch" /\ f.sync = TRUE /\ f.job = job
      /\ ~IsCalling(f)
      /\ Keeps(f) <=> keep /\ ok
  <2>1. f \in Frames(jobs + 1)
    <3>1. f \in DispatchFrames(jobs + 1)
      BY <1>3 DEF Dispatching, DispatchFrames
    <3> QED BY <3>1 DEF Frames
  <2>2. f.kind = "dispatch" /\ f.sync = TRUE /\ f.job = job /\ f.keep = keep /\ ~IsCalling(f)
    BY DEF Dispatching, IsCalling
  <2>3. Keeps(f) <=> keep /\ ok
    BY <1>3, <2>2, Zenon DEF Keeps
  <2> QED BY <2>1, <2>2, <2>3, Zenon
<1> HIDE DEF f
<1>5. Honest(f) /\ StandsOn(f, Top) /\ stack # <<>>
  BY <1>1, <1>3, <1>4 DEF Honest, StandsOn, InScript, TopIs, Empty
<1>6. ShapeOf(stack) /\ nextCache + Cardinality(Keeping(stack)) <= MaxHandles + 1
  BY DEF IInv, StackInv, HandleInv
<1>7. /\ stack' \in Seq(Frames(jobs + 1)) /\ ShapeOf(stack')
      /\ Cardinality(Keeping(stack'))
           = IF Keeps(f) THEN Cardinality(Keeping(stack)) + 1 ELSE Cardinality(Keeping(stack))
  BY <1>1, <1>2, <1>4, <1>5, <1>6, PushKeeps DEF Top
<1>8. nextCache + Cardinality(Keeping(stack')) <= MaxHandles + 1
  <2>1. nextCache \in Nat /\ Cardinality(Keeping(stack)) \in Nat
    BY Basics DEF IInv, HandleInv
  <2>2. CASE Keeps(f)
    BY <1>1, <1>4, <1>7, <2>1, <2>2, HandlesLeftSays, Constants
  <2>3. CASE ~Keeps(f)
    BY <1>6, <1>7, <2>3
  <2> QED BY <2>2, <2>3
<1>9. completed' = completed
  BY <1>1
<1> QED BY <1>1, <1>2, <1>7, <1>8, <1>9, SubmitStep

\* The script that goes on has another result active.
LEMMA TouchKeeps ==
  ASSUME NEW n \in Nat, NEW s \in Seq(Frames(n)), ShapeOf(s), s # <<>>,
         s[Len(s)].kind = "script"
  PROVE  /\ Touched(s) \in Seq(Frames(n)) /\ ShapeOf(Touched(s)) /\ Len(Touched(s)) = Len(s)
         /\ Keeping(Touched(s)) = Keeping(s)
<1> DEFINE f == [s[Len(s)] EXCEPT !.touched = TRUE]
<1>1. Touched(s) = [s EXCEPT ![Len(s)] = f]
  BY DEF Touched
<1>2. s[Len(s)] \in ScriptFrames(n)
  <2>1. Len(s) \in 1..Len(s)
    BY LenProperties
  <2>2. s[Len(s)] \in Frames(n)
    BY <2>1, ElementOfSeq
  <2> QED BY <2>2, KindOfFrame
<1>3. f \in Frames(n) /\ Alike(f, s[Len(s)])
  <2>1. f \in ScriptFrames(n) /\ Alike(f, s[Len(s)])
    BY <1>2 DEF ScriptFrames, Alike
  <2> QED BY <2>1 DEF Frames
<1> HIDE DEF f
<1>4. LET t == [s EXCEPT ![Len(s)] = f] IN
      /\ t \in Seq(Frames(n)) /\ ShapeOf(t) /\ Len(t) = Len(s) /\ Keeping(t) = Keeping(s)
  BY <1>3, ReplaceKeeps
<1> QED BY <1>1, <1>4, Zenon

\* saveActiveCache gives out the next handle for the result.
LEMMA SaveKeeps ==
  ASSUME IInv, NEW result \in Results(jobs), Save(result)
  PROVE  /\ nextCache' = nextCache + 1 /\ nextCache' \in Nat \ {0} /\ Len(named') = nextCache' - 1
         /\ named' \in Seq(Results(jobs))
         /\ DOMAIN saved' \subseteq 1..(nextCache' - 1)
         /\ \A h \in DOMAIN saved' : saved'[h] = named'[h]
         /\ nextCache \in DOMAIN saved' \ DOMAIN saved /\ saved'[nextCache] = result
<1>1. /\ nextCache \in Nat \ {0} /\ named \in Seq(Results(jobs)) /\ Len(named) = nextCache - 1
      /\ DOMAIN saved \subseteq 1..(nextCache - 1)
      /\ \A h \in DOMAIN saved : saved[h] = named[h]
  BY DEF IInv, HandleInv
<1>2. /\ saved' = [h \in DOMAIN saved \union {nextCache} |-> IF h = nextCache THEN result ELSE saved[h]]
      /\ nextCache' = nextCache + 1 /\ named' = Append(named, result)
  BY DEF Save, NewHandle
<1>3. /\ named' \in Seq(Results(jobs)) /\ Len(named') = Len(named) + 1
      /\ \A i \in 1..Len(named) : named'[i] = named[i]
      /\ named'[Len(named) + 1] = result
  BY <1>1, <1>2, AppendProperties
<1>4. nextCache \notin DOMAIN saved
  BY <1>1
<1>5. \A h \in DOMAIN saved' : saved'[h] = named'[h]
  <2> SUFFICES ASSUME NEW h \in DOMAIN saved' PROVE saved'[h] = named'[h]
    OBVIOUS
  <2>1. CASE h = nextCache
    BY <1>1, <1>2, <1>3, <2>1
  <2>2. CASE h # nextCache
    <3>1. h \in DOMAIN saved /\ saved'[h] = saved[h]
      BY <1>2, <2>2
    <3>2. h \in 1..Len(named)
      BY <1>1, <3>1
    <3> QED BY <1>1, <1>3, <3>1, <3>2
  <2> QED BY <2>1, <2>2
<1> QED BY <1>1, <1>2, <1>3, <1>4, <1>5

\* RunSyncQuery returns: to the script that called it.
LEMMA ReturnsToItsScript ==
  ASSUME IInv, At("done"), Top.sync
  PROVE  /\ stack # <<>> /\ Top \in DispatchFrames(jobs)
         /\ Pop # <<>> /\ Pop[Len(Pop)].kind = "script"
<1>1. stack # <<>> /\ Top \in DispatchFrames(jobs) /\ Top.kind = "dispatch" /\ Top.sync
  BY TopFacts DEF At, TopIs, Empty
<1>2. Len(stack) \in Nat /\ Len(stack) > 1 /\ StandsOn(Top, stack[Len(stack) - 1])
  <2>1. IF Len(stack) = 1 THEN Bottom(Top) ELSE StandsOn(Top, stack[Len(stack) - 1])
    BY <1>1, TopFacts
  <2>2. Len(stack) # 1
    BY <1>1, <2>1 DEF Bottom
  <2>3. StandsOn(Top, stack[Len(stack) - 1])
    BY <2>1, <2>2, Zenon
  <2>4. Len(stack) \in Nat /\ Len(stack) > 1
    BY <1>1, <2>2, TopFacts
  <2> QED BY <2>3, <2>4
<1>3. stack[Len(stack) - 1].kind = "script"
  BY <1>1, <1>2 DEF StandsOn
<1>4. Len(Pop) = Len(stack) - 1 /\ (Pop # <<>> => Pop[Len(Pop)] = stack[Len(stack) - 1])
  BY <1>1, Popped
<1>5. Pop # <<>>
  BY <1>2, <1>4
<1> QED BY <1>1, <1>3, <1>4, <1>5

LEMMA FinishSyncStep == ASSUME IInv, FinishSync PROVE IInv'
<1> DEFINE job == Top.job
<1>1. /\ At("done") /\ Top.sync /\ job.ok /\ active' = Result(job) /\ set' = 0
      /\ IF Top.keep THEN Save(active') ELSE UNCHANGED handleVars
      /\ stack' = Touched(Pop) /\ UNCHANGED <<completed, worldVars, jobs>>
  BY DEF FinishSync, Returned
<1>2. /\ stack # <<>> /\ Top \in DispatchFrames(jobs)
      /\ Pop # <<>> /\ Pop[Len(Pop)].kind = "script"
  BY <1>1, ReturnsToItsScript
<1>3. Result(job) \in Results(jobs)
  <2>1. job \in QueryJobs(jobs)
    BY <1>2 DEF DispatchFrames
  <2> QED BY <2>1 DEF QueryJobs, Results, Result
<1>4. /\ Pop \in Seq(Frames(jobs)) /\ ShapeOf(Pop) /\ jobs \in Nat
      /\ Cardinality(Keeping(Pop))
           = IF Keeps(Top) THEN Cardinality(Keeping(stack)) - 1 ELSE Cardinality(Keeping(stack))
  BY <1>2, Popped, Basics
<1>5. stack' \in Seq(Frames(jobs)) /\ ShapeOf(stack') /\ Keeping(stack') = Keeping(Pop)
  BY <1>1, <1>2, <1>4, TouchKeeps
<1>6. StackInv'
  BY <1>1, <1>5 DEF StackInv
<1>7. ActiveInv'
  BY <1>1, <1>3, Constants DEF ActiveInv
<1>8. HandleInv'
  <2>1. Keeps(Top) <=> Top.keep
    BY <1>1, <1>2 DEF Keeps, At, TopIs
  <2>2. nextCache \in Nat /\ Cardinality(Keeping(stack)) \in Nat
    BY Basics DEF IInv, HandleInv
  <2>3. nextCache + Cardinality(Keeping(stack)) <= MaxHandles + 1
    BY DEF IInv, HandleInv
  <2>4. CASE Top.keep
    <3>1. Save(Result(job))
      BY <1>1, <2>4
    <3>2. nextCache' + Cardinality(Keeping(stack')) <= MaxHandles + 1
      BY <1>3, <1>4, <1>5, <2>1, <2>2, <2>3, <2>4, <3>1, SaveKeeps
    <3> QED BY <1>1, <1>3, <3>1, <3>2, SaveKeeps DEF HandleInv
  <2>5. CASE ~Top.keep
    <3>1. UNCHANGED <<saved, nextCache, named, jobs>>
      BY <1>1, <2>5 DEF handleVars
    <3> QED BY <1>4, <1>5, <2>1, <2>3, <2>5, <3>1 DEF IInv, HandleInv
  <2> QED BY <2>4, <2>5
<1>9. WorldInv'
  BY <1>1 DEF IInv, WorldInv, worldVars
<1> QED BY <1>6, <1>7, <1>8, <1>9 DEF IInv

LEMMA QueriesStep == ASSUME IInv, Queries PROVE IInv'
<1>1. CASE \E callback \in Callbacks \union {NoName}, slot \in Slots \union {Nobody} :
             (\E ok \in BOOLEAN : Execute(callback, slot, ok)) \/ ExecuteRejected(callback, slot)
  BY <1>1, ExecuteStep, ExecuteRejectedStep
<1>2. CASE \E keep, ok \in BOOLEAN, sets \in 1..MaxSets : ExecuteSync(keep, ok, sets)
  BY <1>2, ExecuteSyncStep
<1>3. CASE FinishSync
  BY <1>3, FinishSyncStep
<1>4. CASE FinishSyncFailed
  <2>1. stack # <<>> /\ stack' = Pop /\ UNCHANGED <<completed, cacheVars, worldVars, jobs>>
    BY <1>4 DEF FinishSyncFailed, At, TopIs, Empty
  <2> QED BY <2>1, PopStep
<1> QED BY <1>1, <1>2, <1>3, <1>4 DEF Queries

-----------------------------------------------------------------------------
(* The cache natives *)

\* A script makes another result or set the active one.
LEMMA ActivateStep ==
  ASSUME IInv, InScript, stack' = Touched(stack),
         active' \in Results(jobs), set' \in 0..(MaxSets - 1),
         active'.sets > 0 => set' < active'.sets,
         UNCHANGED <<completed, handleVars, worldVars, jobs>>
  PROVE  IInv'
<1>1. stack # <<>> /\ stack[Len(stack)].kind = "script" /\ ShapeOf(stack)
  BY DEF InScript, TopIs, Empty, Top, IInv, StackInv
<1>2. stack' \in Seq(Frames(jobs)) /\ ShapeOf(stack') /\ Keeping(stack') = Keeping(stack)
  BY <1>1, Basics, TouchKeeps
<1>3. StackInv'
  BY <1>2 DEF StackInv
<1>4. ActiveInv'
  BY DEF ActiveInv
<1>5. HandleInv' /\ WorldInv'
  BY <1>2 DEF IInv, HandleInv, WorldInv, worldVars, handleVars
<1> QED BY <1>3, <1>4, <1>5 DEF IInv

LEMMA RetainStep == ASSUME IInv, Retain PROVE IInv'
<1>1. /\ HandlesLeft /\ Save(active)
      /\ UNCHANGED <<stack, completed, active, set, chosen, worldVars, jobs>>
  BY DEF Retain
<1>2. nextCache \in Nat /\ Cardinality(Keeping(stack)) \in Nat /\ active \in Results(jobs)
  BY Basics DEF IInv, HandleInv
<1>3. nextCache' + Cardinality(Keeping(stack')) <= MaxHandles + 1
  BY <1>1, <1>2, SaveKeeps, HandlesLeftSays, Constants
<1>4. HandleInv'
  BY <1>1, <1>2, <1>3, SaveKeeps DEF HandleInv
<1>5. StackInv' /\ ActiveInv' /\ WorldInv'
  BY <1>1 DEF IInv, StackInv, ActiveInv, WorldInv, worldVars
<1> QED BY <1>4, <1>5 DEF IInv

LEMMA ReleaseStep == ASSUME IInv, NEW h \in 1..MaxHandles, Release(h) PROVE IInv'
<1>1. /\ saved' = [g \in DOMAIN saved \ {h} |-> saved[g]]
      /\ UNCHANGED <<stack, completed, active, set, nextCache, named, chosen, worldVars, jobs>>
  BY DEF Release, Restrict
<1>2. HandleInv'
  BY <1>1 DEF IInv, HandleInv
<1>3. StackInv' /\ ActiveInv' /\ WorldInv'
  BY <1>1 DEF IInv, StackInv, ActiveInv, WorldInv, worldVars
<1> QED BY <1>2, <1>3 DEF IInv

LEMMA CacheStep == ASSUME IInv, Cache PROVE IInv'
<1>1. CASE Retain
  BY <1>1, RetainStep
<1>2. CASE Deactivate
  <2>1. /\ InScript /\ active' = NoResult /\ set' = 0 /\ stack' = Touched(stack)
        /\ UNCHANGED <<completed, handleVars, worldVars, jobs>>
    BY <1>2 DEF Deactivate
  <2>2. active' \in Results(jobs) /\ set' \in 0..(MaxSets - 1) /\ ~(active'.sets > 0)
    BY <2>1, Basics, NothingYet, Constants DEF NoResult
  <2> QED BY <2>1, <2>2, ActivateStep
<1>3. ASSUME NEW h \in 1..MaxHandles, Release(h) PROVE IInv'
  BY <1>3, ReleaseStep
<1>4. ASSUME NEW h \in 1..MaxHandles, Activate(h) PROVE IInv'
  <2>1. /\ InScript /\ h \in DOMAIN saved /\ active' = saved[h] /\ set' = 0
        /\ stack' = Touched(stack)
        /\ UNCHANGED <<completed, handleVars, worldVars, jobs>>
    BY <1>4 DEF Activate
  <2>2. active' \in Results(jobs)
    <3>1. h \in 1..Len(named) /\ named \in Seq(Results(jobs)) /\ saved[h] = named[h]
      BY <2>1 DEF IInv, HandleInv
    <3> QED BY <2>1, <3>1, ElementOfSeq
  <2>3. set' \in 0..(MaxSets - 1) /\ (active'.sets > 0 => set' < active'.sets)
    BY <2>1, <2>2, Constants DEF Results
  <2> QED BY <2>1, <2>2, <2>3, ActivateStep
<1>5. ASSUME NEW i \in 0..MaxSets, SelectSet(i) PROVE IInv'
  <2>1. /\ InScript /\ i < active.sets /\ active' = active /\ set' = i
        /\ stack' = Touched(stack)
        /\ UNCHANGED <<completed, handleVars, worldVars, jobs>>
    BY <1>5 DEF SelectSet
  <2>2. active \in Results(jobs)
    BY Basics
  <2>3. set' \in 0..(MaxSets - 1)
    BY <2>1, <2>2, Constants DEF Results
  <2> QED BY <2>1, <2>2, <2>3, ActivateStep
<1> QED BY <1>1, <1>2, <1>3, <1>4, <1>5 DEF Cache

-----------------------------------------------------------------------------
(* The invariant *)

LEMMA Step == ASSUME IInv, [Next]_vars PROVE IInv'
<1>1. CASE Server
  BY <1>1, ServerStep
<1>2. CASE DispatchJob
  BY <1>2, DispatchJobStep
<1>3. CASE Queries
  BY <1>3, QueriesStep
<1>4. CASE Cache
  BY <1>4, CacheStep
<1>5. CASE Return
  <2>1. stack # <<>> /\ stack' = Pop /\ UNCHANGED <<completed, cacheVars, worldVars, jobs>>
    BY <1>5 DEF Return, InScript, TopIs, Empty
  <2> QED BY <2>1, PopStep
<1>6. CASE UNCHANGED vars
  BY <1>6 DEF vars, cacheVars, handleVars, worldVars, IInv, StackInv, ActiveInv, HandleInv, WorldInv
<1> QED BY <1>1, <1>2, <1>3, <1>4, <1>5, <1>6 DEF Next

LEMMA Starts == Init => IInv
<1> SUFFICES ASSUME Init PROVE IInv
  OBVIOUS
<1>1. /\ stack = <<>> /\ completed = <<>> /\ active = NoResult /\ set = 0 /\ saved = <<>>
      /\ nextCache = 1 /\ named = <<>> /\ mainLoaded \in BOOLEAN
      /\ players = [p \in Slots |-> 0] /\ sessions = 0 /\ jobs = 0
  BY DEF Init
<1>2. /\ stack \in Seq(Frames(jobs)) /\ completed \in Seq(QueryJobs(jobs))
      /\ named \in Seq(Results(jobs)) /\ Len(named) = 0
  BY <1>1, EmptySeq
<1>3. StackInv
  BY <1>1, <1>2 DEF StackInv, ShapeOf
<1>4. ActiveInv
  BY <1>1, NothingYet, Constants DEF ActiveInv, NoResult
<1>5. Keeping(stack) = {}
  BY <1>1 DEF Keeping
<1>6. HandleInv
  <2>1. DOMAIN saved = {}
    BY <1>1
  <2>2. Cardinality(Keeping(stack)) = 0
    BY <1>5, FS_EmptySet
  <2> QED BY <1>1, <1>2, <2>1, <2>2, Constants DEF HandleInv
<1>7. WorldInv
  BY <1>1, <1>2 DEF WorldInv
<1> QED BY <1>3, <1>4, <1>6, <1>7 DEF IInv

LEMMA Invariant == Spec => []IInv
<1> QED BY Starts, Step, PTL DEF Spec

-----------------------------------------------------------------------------
(* How long the stack gets *)

LEMMA Lengths ==
  ASSUME IInv, NEW f
  PROVE  /\ Len(stack) \in Nat /\ Len(Append(stack, f)) = Len(stack) + 1
         /\ stack # <<>> => Len(Replaced(f)) = Len(stack)
         /\ stack # <<>> => \A g : Len(Append(Replaced(f), g)) = Len(stack) + 1
<1> DEFINE S == Frames(jobs) \union {f}
<1>1. stack \in Seq(S)
  <2>1. stack \in Seq(Frames(jobs)) /\ Frames(jobs) \subseteq S
    BY Basics
  <2> QED BY <2>1, SeqMonotonic
<1> HIDE DEF S
<1>2. f \in S
  BY DEF S
<1>3. Len(stack) \in Nat /\ Len(Append(stack, f)) = Len(stack) + 1
  BY <1>1, <1>2, LenProperties, AppendProperties
<1>4. ASSUME stack # <<>> PROVE Replaced(f) \in Seq(S) /\ Len(Replaced(f)) = Len(stack)
  <2>1. Len(stack) \in 1..Len(stack)
    BY <1>1, <1>4, LenProperties
  <2> QED BY <1>1, <1>2, <2>1, ExceptSeq DEF Replaced
<1>5. ASSUME stack # <<>>, NEW g PROVE Len(Append(Replaced(f), g)) = Len(stack) + 1
  <2>1. Replaced(f) \in Seq(S \union {g})
    <3>1. S \subseteq S \union {g}
      OBVIOUS
    <3> QED BY <1>4, <1>5, <3>1, SeqMonotonic
  <2>2. Len(Append(Replaced(f), g)) = Len(Replaced(f)) + 1
    BY <2>1, AppendProperties
  <2> QED BY <1>4, <1>5, <2>2
<1> QED BY <1>3, <1>4, <1>5

\* A frame leaves the stack when it is on top and ends; no other step shortens the stack.
Ends == stack # <<>> /\ stack' = Pop
IsSyncSuccess(f) == f.kind = "dispatch" /\ f.sync /\ f.job.ok

LEMMA OnlyEndsShorten ==
  ASSUME IInv, [Next]_vars, ~FinishSync, Len(stack') < Len(stack)
  PROVE  Ends /\ ~IsSyncSuccess(Top)
<1>0. Len(stack) \in Nat
  BY Basics, LenProperties
<1>1. CASE Server
  <2>1. ASSUME NEW s, Event(s) PROVE FALSE
    BY <1>0, <2>1, LenProperties DEF Event, Empty
  <2>2. ASSUME NEW s, DispatchHash(s) PROVE FALSE
    BY <1>0, <2>2, Lengths DEF DispatchHash, TopIs, Empty
  <2>3. ASSUME NEW p, Join(p) \/ Leave(p) PROVE FALSE
    BY <1>0, <2>3 DEF Join, Leave
  <2>4. ASSUME (\E n : Tick(n)) \/ Reset \/ LoadMain PROVE FALSE
    BY <1>0, <2>4 DEF Tick, Reset, LoadMain, Empty
  <2>5. CASE DispatchNext
    BY <1>0, <2>5, Lengths DEF DispatchNext, TopIs, Empty
  <2>6. CASE EndTick
    BY <2>6 DEF EndTick, TopIs, Empty, Ends, IsSyncSuccess
  <2> QED BY <1>1, <2>1, <2>2, <2>3, <2>4, <2>5, <2>6 DEF Server
<1>2. CASE DispatchJob
  <2>1. CASE Ignore \/ SkipCallback \/ Cleanup
    <3>1. stack # <<>> /\ stack' = Replaced(Goto("done"))
      BY <2>1 DEF Ignore, SkipCallback, Cleanup, Answering, At, TopIs, Empty
    <3> QED BY <1>0, <3>1, Lengths
  <2>2. CASE Audit \/ ReportError \/ Callback
    <3>1. stack # <<>> /\ \E f, g : stack' = Append(Replaced(f), g)
      BY <2>2 DEF Audit, ReportError, Callback, Answering, At, TopIs, Empty
    <3> QED BY <1>0, <3>1, Lengths
  <2>3. CASE EndDispatch
    BY <2>3 DEF EndDispatch, At, TopIs, Empty, Ends, IsSyncSuccess
  <2> QED BY <1>2, <2>1, <2>2, <2>3 DEF DispatchJob
<1>3. CASE Queries
  <2>1. ASSUME NEW callback, NEW slot, NEW ok, Execute(callback, slot, ok) PROVE FALSE
    BY <1>0, <2>1 DEF Execute
  <2>2. ASSUME NEW callback, NEW slot, ExecuteRejected(callback, slot) PROVE FALSE
    BY <1>0, <2>2, Lengths DEF ExecuteRejected
  <2>3. ASSUME NEW keep, NEW ok, NEW sets, ExecuteSync(keep, ok, sets) PROVE FALSE
    BY <1>0, <2>3, Lengths DEF ExecuteSync
  <2>4. CASE FinishSyncFailed
    BY <2>4 DEF FinishSyncFailed, At, TopIs, Empty, Ends, IsSyncSuccess
  <2> QED BY <1>3, <2>1, <2>2, <2>3, <2>4 DEF Queries
<1>4. CASE Cache
  <2>1. stack' = stack \/ (stack # <<>> /\ stack' = Touched(stack))
    BY <1>4 DEF Cache, Retain, Release, Activate, Deactivate, SelectSet, InScript, TopIs, Empty
  <2>2. Touched(stack) = Replaced([Top EXCEPT !.touched = TRUE])
    BY DEF Touched, Replaced, Top
  <2> QED BY <1>0, <2>1, <2>2, Lengths
<1>5. CASE Return
  BY <1>5 DEF Return, InScript, TopIs, Empty, Ends, IsSyncSuccess
<1>6. CASE UNCHANGED vars
  BY <1>0, <1>6 DEF vars
<1> QED BY <1>1, <1>2, <1>3, <1>4, <1>5, <1>6 DEF Next

LEMMA ShapeSays ==
  ASSUME IInv, NEW i \in DOMAIN stack
  PROVE  /\ i \in Nat \ {0}
         /\ stack[i].kind = "tick" => i = 1
         /\ stack[i].kind = "dispatch" =>
              i > 1 /\ stack[i - 1].kind = IF stack[i].sync THEN "script" ELSE "tick"
         /\ i \in Calls("callback") => i > 1 /\ stack[i - 1].kind = "dispatch" /\ ~stack[i - 1].sync
<1>1. DOMAIN stack = 1..Len(stack) /\ Len(stack) \in Nat
  BY Basics, LenProperties
<1>2. IF i = 1 THEN Bottom(stack[i]) ELSE StandsOn(stack[i], stack[i - 1])
  BY DEF IInv, StackInv, ShapeOf
<1>3. CASE i = 1
  <2>1. Bottom(stack[i])
    BY <1>2, <1>3, Zenon
  <2> QED BY <1>3, <2>1 DEF Bottom, Calls
<1>4. CASE i # 1
  <2>1. StandsOn(stack[i], stack[i - 1])
    BY <1>2, <1>4, Zenon
  <2> QED BY <1>1, <1>4, <2>1 DEF StandsOn, IsDispatch, Calls
<1> QED BY <1>3, <1>4

-----------------------------------------------------------------------------
(* Which result is active *)

\* The dispatch of a tick stands second, so that is where a callback is called.
Second(s) == 2 \in DOMAIN s /\ IsCalling(s[2])

CallingIn(s) == {i \in DOMAIN s : s[i].kind = "dispatch" /\ s[i].pc = "cleanup"}

\* An asynchronous dispatch stands on the tick, which is at the bottom.
LEMMA DispatchOfTheTick ==
  ASSUME NEW n \in Nat, NEW s \in Seq(Frames(n)), ShapeOf(s), NEW i \in DOMAIN s,
         IsDispatch(s[i], FALSE)
  PROVE  i = 2
<1>1. DOMAIN s = 1..Len(s) /\ Len(s) \in Nat
  BY LenProperties
<1>2. i # 1 /\ s[i - 1].kind = "tick"
  <2>1. IF i = 1 THEN Bottom(s[i]) ELSE StandsOn(s[i], s[i - 1])
    BY DEF ShapeOf
  <2>2. s[i].kind = "dispatch" /\ ~s[i].sync
    BY DEF IsDispatch
  <2>3. CASE i = 1
    BY <2>1, <2>2, <2>3 DEF Bottom
  <2>4. CASE i # 1
    <3>1. StandsOn(s[i], s[i - 1])
      BY <2>1, <2>4, Zenon
    <3> QED BY <2>2, <2>4, <3>1 DEF StandsOn, IsDispatch
  <2> QED BY <2>3, <2>4
<1>3. i - 1 \in DOMAIN s
  BY <1>1, <1>2
<1>4. IF i - 1 = 1 THEN Bottom(s[i - 1]) ELSE StandsOn(s[i - 1], s[(i - 1) - 1])
  BY <1>3 DEF ShapeOf
<1>5. CASE i - 1 = 1
  BY <1>1, <1>5
<1>6. CASE i - 1 # 1
  <2>1. StandsOn(s[i - 1], s[(i - 1) - 1])
    BY <1>4, <1>6, Zenon
  <2> QED BY <1>2, <2>1 DEF StandsOn, IsDispatch
<1> QED BY <1>5, <1>6

\* So one frame at most is calling, the second.
LEMMA SecondCalls ==
  ASSUME NEW n \in Nat, NEW s \in Seq(Frames(n)), ShapeOf(s)
  PROVE  CallingIn(s) = IF Second(s) THEN {2} ELSE {}
<1> SUFFICES ASSUME NEW i \in CallingIn(s) PROVE i = 2
  BY DEF CallingIn, Second, IsCalling
<1>1. i \in DOMAIN s /\ IsCalling(s[i])
  BY DEF CallingIn, IsCalling
<1>2. s[i] \in DispatchFrames(n)
  <2>1. s[i] \in Frames(n)
    BY <1>1, ElementOfSeq, LenProperties
  <2> QED BY <1>1, <2>1, KindOfFrame DEF IsCalling
<1>3. Honest(s[i])
  BY <1>1 DEF ShapeOf
<1>4. IsDispatch(s[i], FALSE)
  BY <1>1, <1>2, <1>3 DEF Honest, IsDispatch, IsCalling, DispatchFrames
<1> QED BY <1>1, <1>4, DispatchOfTheTick

\* The same of the stack as it is.
LEMMA CallingIsSecond == IInv => Calling = IF Second(stack) THEN {2} ELSE {}
<1> SUFFICES ASSUME IInv PROVE Calling = IF Second(stack) THEN {2} ELSE {}
  OBVIOUS
<1>1. CallingIn(stack) = IF Second(stack) THEN {2} ELSE {}
  BY Basics, SecondCalls DEF IInv, StackInv
<1> QED BY <1>1 DEF Calling, CallingIn

\* No step but the call of a callback and its end changes who is calling.
SameCall == (Second(stack') <=> Second(stack)) /\ (Second(stack) => stack'[2] = stack[2])

\* A push, a pop or a change of the top by frames that do not call changes nobody's calling.
LEMMA QuietStack ==
  ASSUME IInv, NEW f, NEW g, ~IsCalling(f), ~IsCalling(g), stack # <<>> => ~IsCalling(Top),
         \/ stack' = stack
         \/ stack' = Append(stack, g)
         \/ stack # <<>> /\ (stack' = Pop \/ stack' = Replaced(f) \/ stack' = Append(Replaced(f), g))
  PROVE  SameCall
<1> DEFINE S == Frames(jobs) \union {f, g}
<1>1. stack \in Seq(S)
  <2>1. stack \in Seq(Frames(jobs)) /\ Frames(jobs) \subseteq S
    BY Basics
  <2> QED BY <2>1, SeqMonotonic
<1>2. f \in S /\ g \in S
  OBVIOUS
<1> HIDE DEF S
<1>3. DOMAIN stack = 1..Len(stack) /\ Len(stack) \in Nat /\ (stack # <<>> => Len(stack) > 0)
  BY <1>1, LenProperties
<1>4. stack # <<>> => Top = stack[Len(stack)]
  BY DEF Top
<1>5. CASE stack' = stack
  BY <1>5 DEF SameCall
<1>6. CASE stack' = Append(stack, g)
  <2>1. /\ DOMAIN stack' = 1..Len(stack) + 1 /\ stack'[Len(stack) + 1] = g
        /\ \A i \in 1..Len(stack) : stack'[i] = stack[i]
    BY <1>1, <1>2, <1>6, AppendProperties, LenProperties
  <2> QED BY <1>3, <2>1 DEF SameCall, Second
<1>7. CASE stack # <<>> /\ stack' = Pop
  <2> DEFINE n == Len(stack) - 1
  <2>1. n \in Nat /\ Len(stack) = n + 1
    BY <1>3, <1>7
  <2>2. \A i \in 1..n : stack[i] \in S
    BY <1>1, <1>3, <2>1, ElementOfSeq
  <2>3. /\ stack' \in Seq(S)
        /\ Len(stack') = IF 1 <= n THEN n - 1 + 1 ELSE 0
        /\ \A i \in 1..n - 1 + 1 : stack'[i] = stack[1 + i - 1]
    <3>1. 1 \in Int /\ n \in Int
      BY <2>1
    <3>2. \A i \in 1..n : stack[i] \in S
      BY <2>2
    <3>3. stack' = SubSeq(stack, 1, n)
      BY <1>7 DEF Pop
    <3> QED BY <3>1, <3>2, <3>3, SubSeqProperties
  <2>4. DOMAIN stack' = 1..n
    <3>1. Len(stack') = n
      <4> HIDE DEF n
      <4>1. n - 1 + 1 = n /\ (~(1 <= n) => n = 0)
        BY <2>1
      <4> QED BY <2>3, <4>1
    <3> QED BY <2>3, <3>1, LenProperties
  <2>5. \A i \in 1..n : stack'[i] = stack[i]
    <3>1. \A i \in 1..n : i \in 1..n - 1 + 1 /\ 1 + i - 1 = i
      BY <2>1
    <3> QED BY <2>3, <3>1
  <2> HIDE DEF n
  <2>6. CASE n = 1
    <3>1. ~IsCalling(stack[2])
      BY <1>4, <1>7, <2>1, <2>6
    <3>2. 2 \notin DOMAIN stack'
      BY <2>4, <2>6
    <3> QED BY <3>1, <3>2 DEF SameCall, Second
  <2>7. CASE n = 0
    BY <1>3, <2>1, <2>4, <2>7 DEF SameCall, Second
  <2>8. CASE n > 1
    <3>1. 2 \in DOMAIN stack /\ 2 \in DOMAIN stack' /\ stack'[2] = stack[2]
      BY <1>3, <2>1, <2>4, <2>5, <2>8
    <3> QED BY <3>1 DEF SameCall, Second
  <2> QED BY <2>1, <2>6, <2>7, <2>8
<1>8. ASSUME stack # <<>>
      PROVE  /\ Replaced(f) \in Seq(S) /\ Len(Replaced(f)) = Len(stack)
             /\ DOMAIN Replaced(f) = 1..Len(stack)
             /\ \A i \in 1..Len(stack) : Replaced(f)[i] = IF i = Len(stack) THEN f ELSE stack[i]
  <2>1. Len(stack) \in 1..Len(stack)
    BY <1>3, <1>8
  <2>2. /\ Replaced(f) \in Seq(S) /\ Len(Replaced(f)) = Len(stack)
        /\ \A i \in 1..Len(stack) : Replaced(f)[i] = IF i = Len(stack) THEN f ELSE stack[i]
    BY <1>1, <1>2, <2>1, ExceptSeq DEF Replaced
  <2> QED BY <2>2, LenProperties
<1>9. CASE stack # <<>> /\ stack' = Replaced(f)
  BY <1>3, <1>4, <1>8, <1>9 DEF SameCall, Second
<1>10. CASE stack # <<>> /\ stack' = Append(Replaced(f), g)
  <2> DEFINE t == Replaced(f)
  <2>1. t \in Seq(S) /\ Len(t) = Len(stack)
    BY <1>8, <1>10
  <2>2. /\ DOMAIN stack' = 1..Len(stack) + 1 /\ stack'[Len(stack) + 1] = g
        /\ \A i \in 1..Len(stack) : stack'[i] = t[i]
    <3> HIDE DEF t
    <3>1. stack' = Append(t, g)
      BY <1>10 DEF t
    <3> QED BY <1>2, <2>1, <3>1, AppendProperties, LenProperties
  <2>3. \A i \in 1..Len(stack) : t[i] = IF i = Len(stack) THEN f ELSE stack[i]
    BY <1>8, <1>10
  <2> HIDE DEF t
  <2>4. CASE Len(stack) = 1
    <3>1. 2 \notin DOMAIN stack /\ stack'[2] = g
      BY <1>3, <2>2, <2>4
    <3> QED BY <3>1 DEF SameCall, Second
  <2>5. CASE Len(stack) = 2
    <3>1. stack'[2] = f /\ stack[2] = Top
      BY <1>4, <1>10, <2>2, <2>3, <2>5
    <3> QED BY <1>10, <3>1 DEF SameCall, Second
  <2>6. CASE Len(stack) > 2
    <3>1. 2 \in 1..Len(stack) /\ 2 # Len(stack) /\ 2 \in 1..Len(stack) + 1
      BY <1>3, <2>6
    <3>2. 2 \in DOMAIN stack /\ 2 \in DOMAIN stack'
      BY <1>3, <2>2, <3>1, Zenon
    <3>3. stack'[2] = t[2]
      BY <2>2, <3>1, Zenon
    <3>4. t[2] = stack[2]
      BY <2>3, <3>1, Zenon
    <3> QED BY <3>2, <3>3, <3>4 DEF SameCall, Second
  <2>7. Len(stack) = 1 \/ Len(stack) = 2 \/ Len(stack) > 2
    <3>1. Len(stack) \in Nat /\ Len(stack) > 0
      BY <1>3, <1>10
    <3>2. \A n \in Nat : n > 0 => n = 1 \/ n = 2 \/ n > 2
      OBVIOUS
    <3> QED BY <3>1, <3>2, Zenon
  <2> QED BY <2>4, <2>5, <2>6, <2>7
<1> QED BY <1>5, <1>6, <1>7, <1>9, <1>10

\* A step that leaves the active result alone and does not change who is calling.
Quiet == SameCall /\ UNCHANGED <<active, set, chosen>>

\* No script frame and no tick is calling.
LEMMA ScriptsDoNotCall ==
  /\ \A role, s, job, session : ~IsCalling(Script(role, s, job, session))
  /\ \A job, sync, keep : ~IsCalling(Dispatching(job, sync, keep))
  /\ \A done : ~IsCalling(Ticking(done))
BY DEF IsCalling, Script, Dispatching, Ticking

\* The server and the tick leave the active result alone, but for a restart.
LEMMA ServerQuiet == ASSUME IInv, Server, ~Reset PROVE Quiet
<1>1. CASE \E s : Event(s)
  <2>1. PICK s : stack = <<>> /\ stack' = <<Script("event", s, NoJob, 0)>> /\ UNCHANGED cacheVars
    BY <1>1 DEF Event, Empty
  <2> DEFINE g == Script("event", s, NoJob, 0)
  <2>2. ~IsCalling(g) /\ stack' = Append(stack, g)
    BY <2>1, ScriptsDoNotCall
  <2> HIDE DEF g
  <2> QED BY <2>1, <2>2, QuietStack DEF Quiet, cacheVars
<1>2. CASE \E n : Tick(n)
  <2>1. PICK n : stack = <<>> /\ stack' = <<Ticking(SubSeq(completed, 1, n))>> /\ UNCHANGED cacheVars
    BY <1>2 DEF Tick, Empty
  <2> DEFINE g == Ticking(SubSeq(completed, 1, n))
  <2>2. ~IsCalling(g) /\ stack' = Append(stack, g)
    BY <2>1, ScriptsDoNotCall
  <2> HIDE DEF g
  <2> QED BY <2>1, <2>2, QuietStack DEF Quiet, cacheVars
<1>3. CASE (\E s : DispatchHash(s)) \/ DispatchNext
  <2>1. PICK f, g : /\ stack # <<>> /\ Top.kind = "tick" /\ f.kind = Top.kind /\ ~IsCalling(g)
                    /\ stack' = Append(Replaced(f), g) /\ UNCHANGED cacheVars
    <3>1. ASSUME TopIs("tick") PROVE Top \in TickFrames(jobs) /\ stack # <<>> /\ Top.kind = "tick"
      BY <3>1, TopFacts DEF TopIs, Empty
    <3>2. ASSUME NEW s, DispatchHash(s)
          PROVE  /\ [Top EXCEPT !.hashed = TRUE].kind = "tick"
                 /\ stack' = Append(Replaced([Top EXCEPT !.hashed = TRUE]), Script("hash", s, NoJob, 0))
                 /\ TopIs("tick") /\ UNCHANGED cacheVars
      BY <3>1, <3>2 DEF DispatchHash, TickFrames
    <3>3. ASSUME DispatchNext
          PROVE  /\ [Top EXCEPT !.done = Tail(@)].kind = "tick"
                 /\ stack' = Append(Replaced([Top EXCEPT !.done = Tail(@)]),
                                    Dispatching(Head(Top.done), FALSE, FALSE))
                 /\ TopIs("tick") /\ UNCHANGED cacheVars
      BY <3>1, <3>3 DEF DispatchNext, TickFrames
    <3> QED BY <1>3, <3>1, <3>2, <3>3, ScriptsDoNotCall, Zenon
  <2>2. ~IsCalling(f) /\ ~IsCalling(Top)
    BY <2>1 DEF IsCalling
  <2> QED BY <2>1, <2>2, QuietStack DEF Quiet, cacheVars
<1>4. CASE EndTick
  <2>1. stack # <<>> /\ ~IsCalling(Top) /\ stack' = Pop /\ UNCHANGED cacheVars
    BY <1>4 DEF EndTick, TopIs, Empty, IsCalling
  <2> QED BY <2>1, QuietStack DEF Quiet, cacheVars
<1>5. CASE (\E p : Join(p) \/ Leave(p)) \/ LoadMain
  BY <1>5 DEF Join, Leave, LoadMain, Quiet, SameCall, cacheVars
<1> QED BY <1>1, <1>2, <1>3, <1>4, <1>5 DEF Server

\* So does dispatchJob outside the callback and its cleanup, hooks included.
LEMMA DispatchQuiet == ASSUME IInv, DispatchJob, ~Callback, ~Cleanup PROVE Quiet
<1>1. /\ stack # <<>> /\ TopIs("dispatch") /\ ~IsCalling(Top) /\ UNCHANGED cacheVars
  BY DEF DispatchJob, Ignore, Audit, SkipCallback, ReportError, EndDispatch, Answering, At, TopIs,
         Empty, IsCalling
<1>2. Top \in DispatchFrames(jobs)
  BY <1>1, TopFacts DEF TopIs
<1>3. /\ ~IsCalling(Goto("done")) /\ ~IsCalling([Goto("done") EXCEPT !.told = TRUE])
      /\ ~IsCalling([Goto("answer") EXCEPT !.audited = TRUE])
  BY <1>2 DEF IsCalling, Goto, DispatchFrames
<1>4. CASE Ignore \/ SkipCallback
  <2>1. stack' = Replaced(Goto("done"))
    BY <1>4 DEF Ignore, SkipCallback
  <2> QED BY <1>1, <1>3, <2>1, QuietStack DEF Quiet, cacheVars
<1>5. CASE Audit
  <2>1. PICK g : ~IsCalling(g) /\ stack' = Append(Replaced([Goto("answer") EXCEPT !.audited = TRUE]), g)
    BY <1>5, ScriptsDoNotCall DEF Audit
  <2> QED BY <1>1, <1>3, <2>1, QuietStack DEF Quiet, cacheVars
<1>6. CASE ReportError
  <2>1. PICK g : ~IsCalling(g) /\ stack' = Append(Replaced([Goto("done") EXCEPT !.told = TRUE]), g)
    BY <1>6, ScriptsDoNotCall DEF ReportError
  <2> QED BY <1>1, <1>3, <2>1, QuietStack DEF Quiet, cacheVars
<1>7. CASE EndDispatch
  BY <1>1, <1>3, <1>7, QuietStack DEF EndDispatch, Quiet, cacheVars
<1> QED BY <1>4, <1>5, <1>6, <1>7 DEF DispatchJob

\* Natives that choose nothing: they submit a query, fail, retain or release.
LEMMA NativesQuiet ==
  ASSUME IInv, Queries \/ Cache \/ Return, ~chosen' PROVE Quiet
<1>1. CASE Queries
  <2>1. ASSUME NEW callback, NEW slot, NEW ok, Execute(callback, slot, ok) PROVE Quiet
    BY <2>1 DEF Execute, Quiet, SameCall, cacheVars
  <2>2. ASSUME InScript PROVE ~IsCalling(Top)
    BY <2>2 DEF InScript, TopIs, IsCalling
  <2>3. ASSUME NEW callback, NEW slot, ExecuteRejected(callback, slot) PROVE Quiet
    <3>1. PICK g : ~IsCalling(g) /\ stack' = Append(stack, g)
      BY <2>3, ScriptsDoNotCall DEF ExecuteRejected
    <3> QED BY <2>2, <2>3, <3>1, QuietStack DEF ExecuteRejected, Quiet, cacheVars
  <2>4. ASSUME NEW keep, NEW ok, NEW sets, ExecuteSync(keep, ok, sets) PROVE Quiet
    <3>1. PICK g : ~IsCalling(g) /\ stack' = Append(stack, g)
      BY <2>4, ScriptsDoNotCall DEF ExecuteSync
    <3> QED BY <2>2, <2>4, <3>1, QuietStack DEF ExecuteSync, Quiet, cacheVars
  <2>5. CASE FinishSyncFailed
    <3>1. stack # <<>> /\ ~IsCalling(Top) /\ stack' = Pop /\ UNCHANGED cacheVars
      BY <2>5 DEF FinishSyncFailed, At, TopIs, Empty, IsCalling
    <3> QED BY <3>1, QuietStack DEF Quiet, cacheVars
  <2>6. ~FinishSync
    BY DEF FinishSync, Returned
  <2> QED BY <1>1, <2>1, <2>3, <2>4, <2>5, <2>6 DEF Queries
<1>2. CASE Cache
  BY <1>2 DEF Cache, Retain, Release, Activate, Deactivate, SelectSet, Quiet, SameCall
<1>3. CASE Return
  <2>1. stack # <<>> /\ ~IsCalling(Top) /\ stack' = Pop /\ UNCHANGED cacheVars
    BY <1>3 DEF Return, InScript, TopIs, Empty, IsCalling
  <2> QED BY <2>1, QuietStack DEF Quiet, cacheVars
<1> QED BY <1>1, <1>2, <1>3

\* The callback is called from the second frame, and ends there.
LEMMA CallbackCalls ==
  ASSUME IInv, Callback
  PROVE  Second(stack') /\ Result(stack'[2].job) = active'
<1> DEFINE f == Goto("cleanup")
<1>1. /\ TopIs("dispatch") /\ stack # <<>> /\ FindScript(Top.job.callback) # NoName
      /\ active' = Result(Top.job)
      /\ \E g : stack' = Append(Replaced(f), g)
  BY DEF Callback, Answering, At, TopIs, Empty
<1>2. Top \in DispatchFrames(jobs)
  BY <1>1, TopFacts DEF TopIs
<1>3. Len(stack) \in DOMAIN stack /\ Top = stack[Len(stack)]
  BY <1>1, Basics, LenProperties DEF Top
<1>4. Len(stack) = 2
  BY <1>1, <1>3, CalledIsAsynchronous, DispatchOfTheTick, Basics DEF IInv, StackInv
<1>5. IsCalling(f) /\ f.job = Top.job /\ f \in Frames(jobs)
  BY <1>2 DEF Goto, IsCalling, DispatchFrames, Frames
<1> HIDE DEF f
<1>6. Replaced(f) \in Seq(Frames(jobs)) /\ Len(Replaced(f)) = 2 /\ Replaced(f)[2] = f
  <2>1. stack \in Seq(Frames(jobs)) /\ f \in Frames(jobs) /\ 2 \in 1..Len(stack)
    BY <1>4, <1>5, Basics
  <2>2. /\ [stack EXCEPT ![2] = f] \in Seq(Frames(jobs))
        /\ Len([stack EXCEPT ![2] = f]) = Len(stack) /\ [stack EXCEPT ![2] = f][2] = f
    BY <2>1, ExceptSeq
  <2> QED BY <1>4, <2>2 DEF Replaced
<1>7. stack'[2] = f /\ 2 \in DOMAIN stack'
  <2> DEFINE t == Replaced(f)
  <2>1. PICK g : stack' = Append(t, g)
    BY <1>1
  <2>2. t \in Seq(Frames(jobs) \union {g}) /\ Len(t) = 2 /\ t[2] = f
    <3>1. Frames(jobs) \subseteq Frames(jobs) \union {g}
      OBVIOUS
    <3> QED BY <1>6, <3>1, SeqMonotonic
  <2> HIDE DEF t
  <2> QED BY <2>1, <2>2, AppendProperties, LenProperties
<1> QED BY <1>1, <1>5, <1>7 DEF Second

\* After its cleanup a dispatch calls no more.
LEMMA CleanupEnds == ASSUME IInv, Cleanup PROVE ~Second(stack')
<1> DEFINE f == Goto("done")
<1>1. TopIs("dispatch") /\ IsCalling(Top) /\ stack # <<>> /\ stack' = Replaced(f)
  BY DEF Cleanup, At, TopIs, Empty, IsCalling
<1>2. Len(stack) \in DOMAIN stack /\ Top = stack[Len(stack)] /\ Len(stack) \in Nat
  BY <1>1, Basics, LenProperties DEF Top
<1>3. Len(stack) = 2
  <2>1. Len(stack) \in Calling
    BY <1>1, <1>2 DEF Calling, IsCalling
  <2> QED BY <2>1, CallingIsSecond
<1>4. f \in Frames(jobs) /\ ~IsCalling(f)
  <2>1. Top \in DispatchFrames(jobs)
    BY <1>1, TopFacts DEF TopIs
  <2> QED BY <2>1 DEF Goto, IsCalling, DispatchFrames, Frames
<1> HIDE DEF f
<1>5. stack'[2] = f
  <2>1. 2 \in 1..Len(stack)
    BY <1>3
  <2>2. Replaced(f)[2] = f
    BY <1>3, <1>4, <2>1, Basics, ExceptSeq DEF Replaced
  <2> QED BY <1>1, <2>2
<1> QED BY <1>4, <1>5 DEF Second

-----------------------------------------------------------------------------
(* The theorems *)

\* Callbacks do not nest: a callback stands on a dispatch, which stands on the tick.
LEMMA OneCallback == ASSUME IInv PROVE Cardinality(Calls("callback")) <= 1
<1>1. Calls("callback") \subseteq {3}
  <2> SUFFICES ASSUME NEW i \in Calls("callback") PROVE i = 3
    OBVIOUS
  <2>1. i \in DOMAIN stack
    BY DEF Calls
  <2>2. i \in Nat /\ i > 1 /\ stack[i - 1].kind = "dispatch" /\ ~stack[i - 1].sync
    BY <2>1, ShapeSays
  <2>3. i - 1 \in DOMAIN stack
    BY <2>1, <2>2, Basics, LenProperties
  <2>4. i - 1 > 1 /\ stack[i - 2].kind = "tick"
    <3>1. i - 1 > 1 /\ stack[(i - 1) - 1].kind = "tick"
      BY <2>2, <2>3, ShapeSays
    <3>2. (i - 1) - 1 = i - 2
      BY <2>2
    <3> QED BY <3>1, <3>2
  <2>5. i - 2 \in DOMAIN stack
    BY <2>1, <2>2, <2>4, Basics, LenProperties
  <2>6. i - 2 = 1
    BY <2>4, <2>5, ShapeSays
  <2> QED BY <2>2, <2>6
<1>2. IsFiniteSet({3}) /\ Cardinality({3}) = 1
  BY FS_Singleton
<1> QED BY <1>1, <1>2, FS_Subset

\* Types and the shape of the stack: what runs on top of what, and that callbacks do not
\* nest, for every script, however deep natives, hooks and callbacks call each other.
THEOREM TypeCorrect == Spec => []TypeOK
<1>1. ASSUME IInv PROVE TypeOK
  <2>1. ActiveInv /\ active \in Results(jobs)
    BY <1>1 DEF IInv, ActiveInv
  <2>2. /\ set \in 0..(MaxSets - 1) /\ (active.sets > 0 => set < active.sets)
        /\ active.sets \in 0..MaxSets /\ active.of \in 0..jobs
    BY <2>1 DEF ActiveInv, Results
  <2>3. DOMAIN saved \subseteq 1..(nextCache - 1) /\ nextCache \in 1..(MaxHandles + 1)
    <3>1. /\ nextCache \in Nat \ {0} /\ DOMAIN saved \subseteq 1..(nextCache - 1)
          /\ nextCache + Cardinality(Keeping(stack)) <= MaxHandles + 1
      BY <1>1 DEF IInv, HandleInv
    <3> QED BY <1>1, <3>1, Basics, Constants
  <2>4. players \in [Slots -> 0..sessions]
    BY <1>1 DEF IInv, WorldInv
  <2> QED BY <1>1, <2>2, <2>3, <2>4, OneCallback, ShapeSays DEF TypeOK
<1> QED BY <1>1, Invariant, PTL

\* For any scripts, and however natives, hooks and callbacks nest: the active result is that of
\* the query whose callback runs, none when none does, unless a script has chosen another since
\* dispatchJob set or cleared it.
THEOREM ActiveCorrect == Spec => []ActiveIsTheCallbacks
<1> DEFINE AsCalled(s, a, n) == n = 0 /\ a = IF Second(s) THEN Result(s[2].job) ELSE NoResult
<1>1. IInv => (ActiveIsTheCallbacks <=> (~chosen => AsCalled(stack, active, set)))
  BY CallingIsSecond DEF ActiveIsTheCallbacks
<1>2. ASSUME IInv, [Next]_vars, ActiveIsTheCallbacks PROVE ActiveIsTheCallbacks'
  <2>1. IInv'
    BY <1>2, Step
  <2>2. IInv' => (ActiveIsTheCallbacks' <=> (~chosen' => AsCalled(stack', active', set')))
    <3>1. ASSUME IInv' PROVE CallingIn(stack') = IF Second(stack') THEN {2} ELSE {}
      <4>1. jobs' \in Nat /\ stack' \in Seq(Frames(jobs')) /\ ShapeOf(stack')
        BY <3>1 DEF IInv, StackInv, WorldInv
      <4> QED BY <4>1, SecondCalls
    <3>2. Calling' = CallingIn(stack')
      BY DEF Calling, CallingIn
    <3> QED BY <3>1, <3>2 DEF ActiveIsTheCallbacks
  <2>3. SUFFICES ASSUME ~chosen' PROVE AsCalled(stack', active', set')
    BY <2>1, <2>2
  <2>4. CASE Quiet
    BY <1>1, <1>2, <2>3, <2>4 DEF Quiet, SameCall
  <2>5. CASE Callback
    BY <1>2, <2>5, CallbackCalls DEF Callback
  <2>6. CASE Cleanup
    BY <1>2, <2>6, CleanupEnds DEF Cleanup
  <2>7. CASE Reset
    BY <2>7 DEF Reset, Empty, Second
  <2>8. CASE UNCHANGED vars
    BY <2>4, <2>8 DEF vars, cacheVars, Quiet, SameCall
  <2> QED BY <1>2, <2>3, <2>4, <2>5, <2>6, <2>7, <2>8, ServerQuiet, DispatchQuiet, NativesQuiet DEF Next
<1>3. Init => IInv /\ ActiveIsTheCallbacks
  BY Starts DEF Init, ActiveIsTheCallbacks, Calling
<1> QED BY <1>2, <1>3, Invariant, PTL DEF Spec

\* A handle names the result it was given out for until it is released or reset() drops it: no
\* query, retain or release gives its number to another meanwhile.
THEOREM HandlesCorrect == Spec => []HandlesKeepTheirResult
<1>1. IInv => HandlesKeepTheirResult
  BY DEF IInv, HandleInv, HandlesKeepTheirResult
<1> QED BY <1>1, Invariant, PTL

\* A synchronous query that succeeded returns with its own result active and retains that
\* one if asked to, whatever the hook RunSyncQuery called has queried, activated or retained.
THEOREM SyncCorrect == Spec => SyncReturnsItsResult
<1> DEFINE Returns(i) ==
      /\ active' = Result(stack[i].job) /\ set' = 0
      /\ stack[i].keep => \E h \in DOMAIN saved' \ DOMAIN saved : saved'[h] = Result(stack[i].job)
<1>1. ASSUME IInv, [Next]_vars, NEW i \in DOMAIN stack, IsSyncSuccess(stack[i]), Len(stack') < i
      PROVE  Returns(i)
  <2>1. i \in 1..Len(stack) /\ Len(stack) \in Nat /\ Len(stack') \in Nat
    <3>1. IInv'
      BY <1>1, Step
    <3>2. stack' \in Seq(Frames(jobs'))
      BY <3>1 DEF IInv, StackInv
    <3> QED BY <1>1, <3>2, Basics, LenProperties
  <2>2. Len(stack') < Len(stack)
    BY <1>1, <2>1
  <2>3. FinishSync
    <3> SUFFICES ASSUME ~FinishSync PROVE FALSE
      OBVIOUS
    <3>1. Ends /\ ~IsSyncSuccess(Top)
      BY <1>1, <2>2, OnlyEndsShorten
    <3>2. Len(stack') = Len(stack) - 1
      BY <1>1, <3>1, Popped DEF Ends
    <3>3. i = Len(stack)
      BY <1>1, <2>1, <3>2
    <3> QED BY <1>1, <3>1, <3>3 DEF Top
  <2>4. /\ At("done") /\ Top.sync /\ active' = Result(Top.job) /\ set' = 0
        /\ (Top.keep => Save(active')) /\ stack' = Touched(Pop)
    BY <2>3 DEF FinishSync, Returned
  <2>5. /\ stack # <<>> /\ Top \in DispatchFrames(jobs)
        /\ Pop # <<>> /\ Pop[Len(Pop)].kind = "script"
    BY <1>1, <2>4, ReturnsToItsScript
  <2>6. Len(stack') = Len(stack) - 1
    BY <1>1, <2>4, <2>5, Popped, Basics, TouchKeeps
  <2>7. i = Len(stack) /\ stack[i] = Top
    BY <1>1, <2>1, <2>6 DEF Top
  <2>8. Result(Top.job) \in Results(jobs)
    BY <2>5 DEF DispatchFrames, QueryJobs, Results, Result
  <2>9. Top.keep => \E h \in DOMAIN saved' \ DOMAIN saved : saved'[h] = Result(Top.job)
    BY <1>1, <2>4, <2>8, SaveKeeps
  <2> QED BY <2>4, <2>7, <2>9
<1>2. ASSUME IInv, [Next]_vars
      PROVE  [ \A i \in DOMAIN stack :
                 LET f == stack[i] IN
                 f.kind = "dispatch" /\ f.pc = "done" /\ f.sync /\ f.job.ok /\ Len(stack') < i =>
                   /\ active' = Result(f.job) /\ set' = 0
                   /\ f.keep => \E h \in DOMAIN saved' \ DOMAIN saved : saved'[h] = Result(f.job) ]_vars
  BY <1>1, <1>2 DEF IsSyncSuccess
<1> QED BY <1>2, Invariant, PTL DEF Spec, SyncReturnsItsResult
=============================================================================
