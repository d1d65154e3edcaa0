---------------------------- MODULE QueryService ----------------------------
(***************************************************************************)
(* What one MySQL connection promises the scripts that use it, without its *)
(* thread, queue or locks: jobs are performed one at a time in the order   *)
(* they were submitted, a reply is given for a performed job and at most   *)
(* once, asynchronous replies come in submission order, a synchronous      *)
(* caller does nothing until it has its answer, and the connection closes  *)
(* only when everything submitted has been performed.                      *)
(***************************************************************************)
EXTENDS Naturals, Sequences

VARIABLES
  kind,     \* kind[j] : what job j is, in submission order
  done,     \* how many jobs have been performed
  answered, \* the jobs whose reply reached the main thread
  open      \* the connection is registered

vars == <<kind, done, answered, open>>

Jobs == DOMAIN kind

\* Statement teardown gives no reply; every other job gives one.
Replies(j) == kind[j] # "close"

\* The main thread is not blocked in a synchronous native.
Idle == \A j \in Jobs : kind[j] = "sync" => j \in answered

Init ==
  /\ kind = <<>>
  /\ done = 0
  /\ answered = {}
  /\ open = TRUE

Submit(k) ==
  /\ open
  /\ Idle
  /\ kind' = Append(kind, k)
  /\ UNCHANGED <<done, answered, open>>

Perform ==
  /\ done < Len(kind)
  /\ done' = done + 1
  /\ UNCHANGED <<kind, answered, open>>

\* A set S of performed jobs is answered; no asynchronous reply overtakes another.
Answer(S) ==
  /\ S # {}
  /\ S \cap answered = {}
  /\ \A j \in S : j \in 1..done /\ Replies(j)
  /\ \A i, j \in Jobs : (i < j /\ kind[i] = "async" /\ kind[j] = "async" /\ j \in S)
                          => i \in answered \union S
  /\ answered' = answered \union S
  /\ UNCHANGED <<kind, done, open>>

Close ==
  /\ open
  /\ Idle
  /\ done = Len(kind)
  /\ open' = FALSE
  /\ UNCHANGED <<kind, done, answered>>

Next ==
  \/ \E k \in {"async", "sync", "close"} : Submit(k)
  \/ Perform
  \/ \E S \in SUBSET Jobs : Answer(S)
  \/ Close

Spec == Init /\ [][Next]_vars
=============================================================================
