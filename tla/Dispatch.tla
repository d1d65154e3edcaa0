----------------------------- MODULE Dispatch ------------------------------
(***************************************************************************)
(* How results reach the scripts (MySQLComponent.cpp: onTick, dispatchJob, *)
(* dispatchHash and the result cache; natives.cpp: RunSyncQuery and        *)
(* the mysql_rs natives).  All of it runs on the main thread, but nests: a *)
(* callback calls natives, natives call hooks, hooks call natives.  The    *)
(* call stack is a variable, and only its top acts.                        *)
(***************************************************************************)
EXTENDS Naturals, Sequences, FiniteSets, Functions

CONSTANTS
  Scripts,       \* the scripts, a sequence in the order they are looked up: first the gamemode
  Defines,       \* the publics of each script
  Callbacks,     \* names scripts give to mysql_execute
  NoName,        \* no callback
  Slots, Nobody, \* player ids, and no player
  MaxSets,       \* bound on the result sets of a query
  MaxJobs,       \* bound on the queries
  MaxDepth,      \* bound on the call stack
  MaxHandles,    \* bound on the results retained
  MaxSessions,   \* bound on the players who join
  MaxResets      \* bound on the restarts of the gamemode

Hooks == {"OnQueryExecute", "OnQueryError"}

ASSUME DispatchAssumption ==
  /\ Scripts \in Seq(Range(Scripts)) /\ Scripts # <<>>
  /\ Defines \in [Range(Scripts) -> SUBSET (Callbacks \union Hooks)]
  /\ NoName \notin Callbacks \union Hooks \union Range(Scripts) /\ Nobody \notin Slots
  /\ {MaxJobs, MaxHandles, MaxSessions, MaxResets} \subseteq Nat
  /\ MaxSets \in Nat \ {0} /\ MaxDepth \in Nat \ 0..2

VARIABLES
  stack,     \* what the main thread is in, innermost last
  completed, \* completed_ and what workers still run, in the order it completes
  active,    \* activeCache_ : a result or NoResult
  set,       \* activeResultIndex_
  saved,     \* savedCaches_
  nextCache, \* nextCache_
  mainLoaded, \* is there a gamemode?
  players,   \* for every slot the session of the player in it, 0 for none
  sessions,  \* how many players joined
  jobs,      \* how many queries were submitted
  resets,    \* how often the gamemode was restarted
  named,     \* history: what each handle named when it was given out
  chosen     \* history: a script has chosen what is active

handleVars == <<saved, nextCache, named>>
cacheVars == <<active, set, handleVars, chosen>>
worldVars == <<mainLoaded, players, sessions, resets>>
vars == <<stack, completed, cacheVars, worldVars, jobs>>

NoResult == [of |-> 0, sets |-> 0]
NoJob == [id |-> 0, callback |-> NoName, slot |-> Nobody, session |-> 0, script |-> NoName,
          ok |-> FALSE, sets |-> 0]
Result(job) == [of |-> job.id, sets |-> job.sets]

\* Frames.  A script runs a public; role says why it was called.
Script(role, s, job, session) ==
  [kind |-> "script", role |-> role, script |-> s, job |-> job, session |-> session,
   touched |-> FALSE]
Dispatching(job, sync, keep) ==
  [kind |-> "dispatch", pc |-> "start", job |-> job, sync |-> sync, keep |-> keep,
   audited |-> FALSE, told |-> FALSE]
Ticking(done) == [kind |-> "tick", done |-> done, hashed |-> FALSE]

Empty == stack = <<>>
Top == stack[Len(stack)]
TopIs(kind) == ~Empty /\ Top.kind = kind
Room(n) == Len(stack) + n <= MaxDepth
Pop == SubSeq(stack, 1, Len(stack) - 1)
Replaced(frame) == [stack EXCEPT ![Len(stack)] = frame]

Loaded == IF mainLoaded THEN Scripts ELSE Tail(Scripts)

\* findScriptWithPublic: the first script that has it, or NoName.
FindScript(public) ==
  LET Having == {i \in DOMAIN Loaded : public \in Defines[Loaded[i]]}
  IN IF Having = {} THEN NoName
     ELSE Loaded[CHOOSE i \in Having : \A j \in Having : i <= j]

Init ==
  /\ stack = <<>> /\ completed = <<>>
  /\ active = NoResult /\ set = 0
  /\ saved = <<>> /\ nextCache = 1 /\ named = <<>> /\ chosen = FALSE
  /\ mainLoaded \in BOOLEAN
  /\ players = [p \in Slots |-> 0] /\ sessions = 0 /\ resets = 0
  /\ jobs = 0

-----------------------------------------------------------------------------
(* The server                                                              *)

\* The server calls a public of a script that is not a callback of this component.
Event(s) ==
  /\ Empty
  /\ stack' = <<Script("event", s, NoJob, 0)>>
  /\ UNCHANGED <<completed, cacheVars, worldVars, jobs>>

Join(p) ==
  /\ Empty /\ players[p] = 0 /\ sessions < MaxSessions
  /\ players' = [players EXCEPT ![p] = sessions + 1]
  /\ sessions' = sessions + 1
  /\ UNCHANGED <<stack, completed, cacheVars, mainLoaded, resets, jobs>>

\* Between ticks, or kicked by a script.
Leave(p) ==
  /\ Empty \/ TopIs("script")
  /\ players[p] # 0
  /\ players' = [players EXCEPT ![p] = 0]
  /\ UNCHANGED <<stack, completed, cacheVars, mainLoaded, sessions, resets, jobs>>

\* reset: the gamemode is restarted, and the results that filterscripts retained are dropped
\* with its own; handles are numbered from 1 again.  The workers' last replies stay.
Reset ==
  /\ Empty /\ resets < MaxResets
  /\ active' = NoResult /\ set' = 0 /\ chosen' = FALSE
  /\ saved' = <<>> /\ nextCache' = 1 /\ named' = <<>>
  /\ mainLoaded' = FALSE /\ resets' = resets + 1
  /\ UNCHANGED <<stack, completed, players, sessions, jobs>>

\* The server loads a gamemode.
LoadMain ==
  /\ Empty /\ ~mainLoaded
  /\ mainLoaded' = TRUE
  /\ UNCHANGED <<stack, completed, cacheVars, players, sessions, resets, jobs>>

\* onTick: the jobs completed so far are dispatched one after the other ...
Tick(n) ==
  /\ Empty /\ n \in 0..Len(completed)
  /\ stack' = <<Ticking(SubSeq(completed, 1, n))>>
  /\ completed' = SubSeq(completed, n + 1, Len(completed))
  /\ UNCHANGED <<cacheVars, worldVars, jobs>>

DispatchNext ==
  /\ TopIs("tick") /\ Top.done # <<>>
  /\ stack' = Append(Replaced([Top EXCEPT !.done = Tail(@)]), Dispatching(Head(Top.done), FALSE, FALSE))
  /\ UNCHANGED <<completed, cacheVars, worldVars, jobs>>

\* ... and then the hashes: at most one here, and its callback may be in any script.
DispatchHash(s) ==
  /\ TopIs("tick") /\ Top.done = <<>> /\ ~Top.hashed
  /\ stack' = Append(Replaced([Top EXCEPT !.hashed = TRUE]), Script("hash", s, NoJob, 0))
  /\ UNCHANGED <<completed, cacheVars, worldVars, jobs>>

EndTick ==
  /\ TopIs("tick") /\ Top.done = <<>>
  /\ stack' = Pop
  /\ UNCHANGED <<completed, cacheVars, worldVars, jobs>>

-----------------------------------------------------------------------------
(* dispatchJob                                                             *)

At(pc) == TopIs("dispatch") /\ Top.pc = pc
Goto(pc) == [Top EXCEPT !.pc = pc]

\* The script of the callback, or else the gamemode.
Resolved(job) == FindScript(job.callback) # NoName \/ mainLoaded
Audited(job) == job.ok /\ FindScript("OnQueryExecute") # NoName
Gone(job) == job.slot # Nobody /\ players[job.slot] = 0
Answering == At("answer") \/ (At("start") /\ Resolved(Top.job) /\ ~Audited(Top.job))

\* No script to run anything in.
Ignore ==
  /\ At("start") /\ ~Resolved(Top.job)
  /\ stack' = Replaced(Goto("done"))
  /\ UNCHANGED <<completed, cacheVars, worldVars, jobs>>

\* fireQueryExecuteHook
Audit ==
  /\ At("start") /\ Resolved(Top.job) /\ Audited(Top.job)
  /\ stack' = Append(Replaced([Goto("answer") EXCEPT !.audited = TRUE]),
                     Script("hook", FindScript("OnQueryExecute"), Top.job, 0))
  /\ UNCHANGED <<completed, cacheVars, worldVars, jobs>>

\* The bound player has left, there is no callback, or no script has it.
SkipCallback ==
  /\ Answering
  /\ \/ Gone(Top.job)
     \/ (~Top.job.ok /\ FindScript("OnQueryError") = NoName)
     \/ (Top.job.ok /\ FindScript(Top.job.callback) = NoName)
  /\ stack' = Replaced(Goto("done"))
  /\ UNCHANGED <<completed, cacheVars, worldVars, jobs>>

ReportError ==
  /\ Answering /\ ~Gone(Top.job) /\ ~Top.job.ok
  /\ FindScript("OnQueryError") # NoName
  /\ stack' = Append(Replaced([Goto("done") EXCEPT !.told = TRUE]),
                     Script("error", FindScript("OnQueryError"), Top.job, 0))
  /\ UNCHANGED <<completed, cacheVars, worldVars, jobs>>

\* The query's result is made active, and the callback called.
Callback ==
  /\ Answering /\ ~Gone(Top.job) /\ Top.job.ok
  /\ FindScript(Top.job.callback) # NoName
  /\ active' = Result(Top.job) /\ set' = 0 /\ chosen' = FALSE
  /\ stack' = Append(Replaced(Goto("cleanup")),
                     Script("callback", FindScript(Top.job.callback), Top.job,
                            IF Top.job.slot = Nobody THEN 0 ELSE players[Top.job.slot]))
  /\ UNCHANGED <<completed, handleVars, worldVars, jobs>>

\* clearActiveCache after the callback
Cleanup ==
  /\ At("cleanup")
  /\ active' = NoResult /\ set' = 0 /\ chosen' = FALSE
  /\ stack' = Replaced(Goto("done"))
  /\ UNCHANGED <<completed, handleVars, worldVars, jobs>>

EndDispatch ==
  /\ At("done") /\ ~Top.sync
  /\ stack' = Pop
  /\ UNCHANGED <<completed, cacheVars, worldVars, jobs>>

-----------------------------------------------------------------------------
(* Natives, called by the script on the top of the stack                   *)

InScript == TopIs("script")

\* The script on top changed what is active.
Touched(frames) == [frames EXCEPT ![Len(frames)].touched = TRUE]

NewJob(callback, slot, ok, sets) ==
  [id |-> jobs + 1, callback |-> callback, slot |-> slot,
   session |-> IF slot = Nobody THEN 0 ELSE players[slot],
   script |-> Top.script, ok |-> ok, sets |-> IF ok THEN sets ELSE 0]

\* mysql_execute, mysql_execute_for, mysql_execute_file: answered in a later tick.
Execute(callback, slot, ok) ==
  /\ InScript /\ jobs < MaxJobs
  /\ completed' = Append(completed, NewJob(callback, slot, ok, 1))
  /\ jobs' = jobs + 1
  /\ UNCHANGED <<stack, cacheVars, worldVars>>

\* ... or rejected by a guard: ReportGuardReject calls the same script's OnQueryError.
ExecuteRejected(callback, slot) ==
  /\ InScript /\ jobs < MaxJobs /\ Room(1)
  /\ "OnQueryError" \in Defines[Top.script]
  /\ stack' = Append(stack, Script("error", Top.script, NewJob(callback, slot, FALSE, 0), 0))
  /\ jobs' = jobs + 1
  /\ UNCHANGED <<completed, cacheVars, worldVars>>

\* The bound on handles leaves one for every synchronous query that will retain its result.
HandlesLeft ==
  LET Retaining(i) == stack[i].kind = "dispatch" /\ stack[i].keep /\ stack[i].job.ok
  IN nextCache + Cardinality({i \in DOMAIN stack : Retaining(i)}) <= MaxHandles

\* Variant: handles are counted, not numbered.
HandleFromCount == Cardinality(DOMAIN saved) + 1

NewHandle == nextCache

\* mysql_execute_sync, mysql_execute_file_sync: the worker has run it, or a guard rejected
\* it, and RunSyncQuery dispatches it here and now ...
ExecuteSync(keep, ok, sets) ==
  /\ InScript /\ jobs < MaxJobs /\ Room(2)
  /\ keep /\ ok => HandlesLeft
  /\ stack' = Append(stack, Dispatching(NewJob(NoName, Nobody, ok, sets), TRUE, keep))
  /\ jobs' = jobs + 1
  /\ UNCHANGED <<completed, cacheVars, worldVars>>

\* saveActiveCache, of a result that is active or becomes so
Save(result) ==
  /\ saved' = [h \in DOMAIN saved \union {NewHandle} |-> IF h = NewHandle THEN result ELSE saved[h]]
  /\ nextCache' = nextCache + 1
  /\ named' = Append(named, result)

\* Variant: the result of the query before is cleared although there is no new one.
FinishSyncFailedCleared ==
  /\ At("done") /\ Top.sync /\ ~Top.job.ok
  /\ active' = NoResult /\ set' = 0
  /\ stack' = Pop
  /\ UNCHANGED <<completed, handleVars, chosen, worldVars, jobs>>

\* ... fails, and what was active stays so ...
FinishSyncFailed ==
  /\ At("done") /\ Top.sync /\ ~Top.job.ok
  /\ stack' = Pop
  /\ UNCHANGED <<completed, cacheVars, worldVars, jobs>>

Returned ==
  /\ At("done") /\ Top.sync /\ Top.job.ok
  /\ IF Top.keep THEN Save(active') ELSE UNCHANGED handleVars
  /\ stack' = Touched(Pop) /\ chosen' = TRUE
  /\ UNCHANGED <<completed, worldVars, jobs>>

\* Variant: the result is not made active if the hook left one.
FinishSyncOnLeftover ==
  /\ TopIs("dispatch") /\ active' = IF active = NoResult THEN Result(Top.job) ELSE active
  /\ set' = 0
  /\ Returned

\* ... or makes its result the active one and retains it if asked to.
FinishSync ==
  /\ TopIs("dispatch") /\ active' = Result(Top.job) /\ set' = 0
  /\ Returned

\* mysql_rs_retain
Retain ==
  /\ InScript /\ active # NoResult /\ HandlesLeft /\ Save(active)
  /\ UNCHANGED <<stack, completed, active, set, chosen, worldVars, jobs>>

\* mysql_rs_release
Release(h) ==
  /\ InScript /\ h \in DOMAIN saved
  /\ saved' = Restrict(saved, DOMAIN saved \ {h})
  /\ UNCHANGED <<stack, completed, active, set, nextCache, named, chosen, worldVars, jobs>>

\* mysql_rs_activate
Activate(h) ==
  /\ InScript /\ h \in DOMAIN saved
  /\ active' = saved[h] /\ set' = 0
  /\ stack' = Touched(stack) /\ chosen' = TRUE
  /\ UNCHANGED <<completed, handleVars, worldVars, jobs>>

\* mysql_rs_deactivate
Deactivate ==
  /\ InScript /\ active' = NoResult /\ set' = 0
  /\ stack' = Touched(stack) /\ chosen' = TRUE
  /\ UNCHANGED <<completed, handleVars, worldVars, jobs>>

\* Variant: the number of sets is accepted as an index.
SelectSetOffByOne(i) ==
  /\ InScript /\ active # NoResult /\ i <= active.sets
  /\ set' = i
  /\ stack' = Touched(stack) /\ chosen' = TRUE
  /\ UNCHANGED <<completed, active, handleVars, worldVars, jobs>>

\* mysql_rs_select_set
SelectSet(i) ==
  /\ InScript /\ active # NoResult /\ i < active.sets
  /\ set' = i
  /\ stack' = Touched(stack) /\ chosen' = TRUE
  /\ UNCHANGED <<completed, active, handleVars, worldVars, jobs>>

\* The public ends.
Return ==
  /\ InScript
  /\ stack' = Pop
  /\ UNCHANGED <<completed, cacheVars, worldVars, jobs>>

-----------------------------------------------------------------------------
Server ==
  \/ \E s \in Range(Loaded) : Event(s) \/ DispatchHash(s)
  \/ \E p \in Slots : Join(p) \/ Leave(p)
  \/ \E n \in 1..MaxJobs : Tick(n)
  \/ Reset \/ LoadMain \/ DispatchNext \/ EndTick

DispatchJob == Ignore \/ Audit \/ SkipCallback \/ ReportError \/ Callback \/ Cleanup \/ EndDispatch

Queries ==
  \/ \E callback \in Callbacks \union {NoName}, slot \in Slots \union {Nobody} :
       (\E ok \in BOOLEAN : Execute(callback, slot, ok)) \/ ExecuteRejected(callback, slot)
  \/ \E keep, ok \in BOOLEAN, sets \in 1..MaxSets : ExecuteSync(keep, ok, sets)
  \/ FinishSync \/ FinishSyncFailed

Cache ==
  \/ Retain \/ Deactivate
  \/ \E h \in 1..MaxHandles : Release(h) \/ Activate(h)
  \/ \E i \in 0..MaxSets : SelectSet(i)

Next == Server \/ DispatchJob \/ Queries \/ Cache \/ Return
Spec == Init /\ [][Next]_vars

-----------------------------------------------------------------------------
(* What is promised                                                        *)

Calls(role) == {i \in DOMAIN stack : stack[i].kind = "script" /\ stack[i].role = role}

\* Types, and the shape of the stack: a callback runs in an asynchronous dispatch of a
\* tick, a synchronous dispatch is called by a script, and callbacks do not nest.
TypeOK ==
  /\ set \in 0..(MaxSets - 1) /\ (active.sets > 0 => set < active.sets)
  /\ active.sets \in 0..MaxSets /\ active.of \in 0..jobs
  /\ DOMAIN saved \subseteq 1..(nextCache - 1) /\ nextCache \in 1..(MaxHandles + 1)
  /\ players \in [Slots -> 0..sessions]
  /\ Cardinality(Calls("callback")) <= 1
  /\ \A i \in DOMAIN stack :
       /\ stack[i].kind = "tick" => i = 1
       /\ stack[i].kind = "dispatch" =>
            i > 1 /\ stack[i - 1].kind = IF stack[i].sync THEN "script" ELSE "tick"
       /\ i \in Calls("callback") => i > 1 /\ stack[i - 1].kind = "dispatch" /\ ~stack[i - 1].sync

\* The dispatches that are calling their callback.
Calling == {i \in DOMAIN stack : stack[i].kind = "dispatch" /\ stack[i].pc = "cleanup"}

\* What is active is the result of the query whose callback runs, at its first set, and
\* nothing between callbacks, unless a script has chosen otherwise since: no hook, no failure,
\* no callback of a hash and no restart leaves another result there or takes this one away.
ActiveIsTheCallbacks ==
  ~chosen =>
    /\ set = 0
    /\ \A i \in Calling : active = Result(stack[i].job)
    /\ Calling = {} => active = NoResult

\* A synchronous query that succeeded returns with its own result active, at the first
\* set, and retains that one, whatever the hook it called has done meanwhile.
SyncReturnsItsResult ==
  [][ \A i \in DOMAIN stack :
        LET f == stack[i] IN
        f.kind = "dispatch" /\ f.pc = "done" /\ f.sync /\ f.job.ok /\ Len(stack') < i =>
          /\ active' = Result(f.job) /\ set' = 0
          /\ f.keep => \E h \in DOMAIN saved' \ DOMAIN saved : saved'[h] = Result(f.job) ]_vars

\* A handle names the result it was given out for until it is released or the gamemode
\* restarts: its number is given to no other result meanwhile.
HandlesKeepTheirResult == \A h \in DOMAIN saved : saved[h] = named[h]

-----------------------------------------------------------------------------
(* What the comments and the documentation say, and the code does not do   *)

Ended == {i \in DOMAIN stack : stack[i].kind = "dispatch" /\ stack[i].pc = "done"}

\* "We fire it whenever a query failed, regardless of callback" (MySQLComponent.cpp, of
\* OnQueryError): once a failed query is dispatched, a script that has it was called.
EveryFailureReported ==
  \A i \in Ended : ~stack[i].job.ok /\ FindScript("OnQueryError") # NoName => stack[i].told

\* "fire OnQueryExecute for EVERY query that actually executed" (MySQLComponent.cpp).
EveryExecutionAudited ==
  \A i \in Ended : Audited(stack[i].job) => stack[i].audited

\* "cancelled automatically if that player disconnects first" (omp-mysql.inc): a callback
\* bound to a player who was connected runs for that player.
BoundCallbackForItsPlayer ==
  \A i \in Calls("callback") : stack[i].job.session # 0 => stack[i].session = stack[i].job.session

\* "The callback for an async query lives in the script that issued it"
\* (MySQLComponent.cpp): it runs there if that script has it.
CallbackRunsInItsScript ==
  \A i \in Calls("callback") :
    stack[i].job.callback \in Defines[stack[i].job.script] => stack[i].script = stack[i].job.script

\* "Inside the callback the result set is the active cache" (omp-mysql.inc): it stays so
\* until the callback itself changes it.
CallbackKeepsItsResult ==
  \A i \in Calls("callback") : stack[i].touched \/ active = Result(stack[i].job)

\* "To keep a result beyond the callback, mysql_rs_retain() it (and mysql_rs_release() it
\* later)" (omp-mysql.inc): a retained result goes only when a script releases it.
RetainedUntilReleased == [][DOMAIN saved \subseteq DOMAIN saved' \/ InScript]_vars
=============================================================================
